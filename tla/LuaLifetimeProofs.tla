------------------------- MODULE LuaLifetimeProofs -------------------------
(***************************************************************************)
(* Ownership in the Lua facade, for any number of clients, handles and     *)
(* addresses, and any depth of methods inside callbacks.                   *)
(***************************************************************************)
EXTENDS LuaLifetime, FiniteSetTheorems, TLAPS

USE LuaAssumption

-----------------------------------------------------------------------------
(* The inductive invariant *)

(* the methods on the stack that run on an owner, and its live resources *)
ScopesOf(o) == {i \in 1 .. Len(scopes) : scopes[i].owner = o}

LiveOf(o) == {r \in Resources : res[r].owner = o /\ res[r].mem = "live"}

Temporary(r) == \E i \in 1 .. Len(scopes) : r \in scopes[i].resources

(* The reference count is the number of users, and the last one ends the     *)
(* owner.                                                                    *)
RefsInv ==
    \A o \in Owners :
      /\ owner[o].refs = (IF client[o] THEN 1 ELSE 0)
                           + Cardinality(LiveOf(o)) + Cardinality(ScopesOf(o))
      /\ owner[o].active = Cardinality(ScopesOf(o))
      /\ owner[o].mem = "live" <=> owner[o].refs # 0

(* Live receivers have different addresses. *)
AddrInv ==
    \A o \in Owners : owner[o].mem = "live" =>
      /\ owner[o].ctx \in Addrs
      /\ \A p \in Owners : owner[p].mem = "live" /\ owner[p].ctx = owner[o].ctx => p = o

(* An open handle has a live resource, which nothing else holds. *)
HandleInv ==
    \A r \in Resources : handle[r] # None =>
      /\ res[r].mem = "live" /\ res[r].owner \in Owners /\ ~Temporary(r)
      /\ handle[r] = owner[res[r].owner].ctx

(* A temporary belongs to one method, of its own owner. *)
TempInv ==
    \A i \in 1 .. Len(scopes) : \A r \in scopes[i].resources :
      /\ res[r].mem = "live" /\ res[r].owner = scopes[i].owner
      /\ \A j \in 1 .. Len(scopes) : r \in scopes[j].resources => j = i

(* What was closed under a method of its owner waits for that owner. *)
DeferredInv ==
    \A o \in Owners : \A r \in owner[o].deferred :
      /\ res[r].mem = "live" /\ res[r].owner = o /\ handle[r] = None /\ ~Temporary(r)
      /\ owner[o].active # 0

(* What a method borrowed is of its own owner, and open or deferred. *)
BorrowInv ==
    \A i \in 1 .. Len(scopes) : \A r \in scopes[i].borrowed :
      /\ res[r].owner = scopes[i].owner
      /\ handle[r] # None \/ r \in owner[scopes[i].owner].deferred

(* Nothing is alive that nobody holds. *)
HeldInv ==
    \A r \in Resources : res[r].mem = "live" =>
      \/ handle[r] # None
      \/ Temporary(r)
      \/ res[r].owner \in Owners /\ r \in owner[res[r].owner].deferred

LuaInv ==
    /\ TypeOK /\ ~freed
    /\ RefsInv /\ AddrInv /\ HandleInv /\ TempInv /\ DeferredInv /\ BorrowInv /\ HeldInv

-----------------------------------------------------------------------------
(* Types *)

LEMMA ScopeTypes ==
    ASSUME TypeOK, NEW i \in 1 .. Len(scopes)
    PROVE  /\ scopes[i] \in Scope /\ scopes[i].owner \in Owners
           /\ scopes[i].resources \subseteq Resources /\ scopes[i].borrowed \subseteq Resources
<1>1. scopes[i] \in Scope
  BY DEF TypeOK
<1> QED BY <1>1 DEF Scope

LEMMA OwnerTypes ==
    ASSUME TypeOK, NEW o \in Owners
    PROVE  owner[o] \in Owner /\ owner[o].deferred \subseteq Resources
<1>1. owner[o] \in Owner
  BY DEF TypeOK
<1> QED BY <1>1 DEF Owner

(* one owner is changed *)
LEMMA OwnerUpdated ==
    ASSUME TypeOK, NEW o \in Owners, NEW w \in Owner, owner' = [owner EXCEPT ![o] = w]
    PROVE  /\ owner' \in [Owners -> Owner] /\ owner'[o] = w
           /\ \A q \in Owners \ {o} : owner'[q] = owner[q]
  BY DEF TypeOK

-----------------------------------------------------------------------------
(* Counting *)

LEMMA CountsAreFinite ==
    ASSUME TypeOK, NEW o
    PROVE  /\ IsFiniteSet(LiveOf(o)) /\ Cardinality(LiveOf(o)) \in Nat
           /\ IsFiniteSet(ScopesOf(o)) /\ Cardinality(ScopesOf(o)) \in Nat
<1>1. LiveOf(o) \subseteq Resources
  BY DEF LiveOf
<1>2. Len(scopes) \in Nat
  BY DEF TypeOK
<1>3. IsFiniteSet(1 .. Len(scopes))
  BY <1>2, FS_Interval
<1>4. ScopesOf(o) \subseteq 1 .. Len(scopes)
  BY DEF ScopesOf
<1> QED BY <1>1, <1>3, <1>4, FS_Subset, FS_CardinalityType

LEMMA NothingCounted ==
    ASSUME TypeOK, NEW o
    PROVE  /\ Cardinality(LiveOf(o)) = 0 <=> LiveOf(o) = {}
           /\ Cardinality(ScopesOf(o)) = 0 <=> ScopesOf(o) = {}
  BY CountsAreFinite, FS_EmptySet

(* An owner that is used is alive, and one that is not alive is not used. *)
LEMMA UsedOwner ==
    ASSUME TypeOK, RefsInv, NEW o \in Owners
    PROVE  owner[o].mem = "live" <=> client[o] \/ LiveOf(o) # {} \/ ScopesOf(o) # {}
<1>1. PICK l \in Nat, s \in Nat : l = Cardinality(LiveOf(o)) /\ s = Cardinality(ScopesOf(o))
  BY CountsAreFinite
<1>2. (l = 0 <=> LiveOf(o) = {}) /\ (s = 0 <=> ScopesOf(o) = {})
  BY <1>1, NothingCounted
<1>3. owner[o].refs = (IF client[o] THEN 1 ELSE 0) + l + s
      /\ (owner[o].mem = "live" <=> owner[o].refs # 0)
  BY <1>1 DEF RefsInv
<1> QED BY <1>2, <1>3

(* The counts of the owners a step does not touch stay right. *)
LEMMA RefsStep ==
    ASSUME TypeOK, RefsInv, NEW o \in Owners,
           \A q \in Owners \ {o} : /\ owner'[q] = owner[q] /\ client'[q] = client[q]
                                   /\ LiveOf(q)' = LiveOf(q) /\ ScopesOf(q)' = ScopesOf(q),
           owner'[o].refs = (IF client'[o] THEN 1 ELSE 0)
                              + Cardinality(LiveOf(o)') + Cardinality(ScopesOf(o)'),
           owner'[o].active = Cardinality(ScopesOf(o)'),
           owner'[o].mem = "live" <=> owner'[o].refs # 0
    PROVE  RefsInv'
<1> SUFFICES ASSUME NEW q \in Owners
             PROVE  /\ owner'[q].refs = (IF client'[q] THEN 1 ELSE 0)
                           + Cardinality(LiveOf(q)') + Cardinality(ScopesOf(q)')
                    /\ owner'[q].active = Cardinality(ScopesOf(q)')
                    /\ owner'[q].mem = "live" <=> owner'[q].refs # 0
  BY DEF RefsInv
<1>1. CASE q = o
  BY <1>1, Zenon
<1>2. CASE q # o
  <2>1. /\ owner'[q] = owner[q] /\ client'[q] = client[q]
        /\ LiveOf(q)' = LiveOf(q) /\ ScopesOf(q)' = ScopesOf(q)
    BY <1>2
  <2>2. /\ owner[q].refs = (IF client[q] THEN 1 ELSE 0)
                             + Cardinality(LiveOf(q)) + Cardinality(ScopesOf(q))
        /\ owner[q].active = Cardinality(ScopesOf(q))
        /\ owner[q].mem = "live" <=> owner[q].refs # 0
    BY DEF RefsInv
  <2> QED BY <2>1, <2>2, Zenon
<1> QED BY <1>1, <1>2

(* lua_lql_owner_release *)
LEMMA ReleaseFacts ==
    ASSUME NEW w \in Owner, NEW n \in Int
    PROVE  /\ Release(w, n) \in Owner
           /\ Release(w, n).refs = w.refs - n
           /\ Release(w, n).mem = IF w.refs = n THEN "freed" ELSE w.mem
           /\ Release(w, n).ctx = w.ctx /\ Release(w, n).active = w.active
           /\ Release(w, n).closed = w.closed /\ Release(w, n).deferred = w.deferred
<1>1. PICK m \in Int : m = w.refs - n
  BY DEF Owner
<1>2. PICK mem \in {"none", "live", "freed"} : mem = IF w.refs = n THEN "freed" ELSE w.mem
  BY DEF Owner
<1>3. Release(w, n) = [w EXCEPT !.refs = m, !.mem = mem]
  BY <1>1, <1>2 DEF Release
<1> QED BY <1>1, <1>2, <1>3, Zenon DEF Owner

-----------------------------------------------------------------------------
(* Every action keeps the invariant *)

LEMMA InitLua == Init => LuaInv
<1> SUFFICES ASSUME Init PROVE LuaInv
  OBVIOUS
<1>1. TypeOK /\ ~freed
  <2>1. [mem |-> "none", ctx |-> None, refs |-> 0, active |-> 0, closed |-> FALSE,
         deferred |-> {}] \in Owner
    BY DEF Owner
  <2>2. [mem |-> "none", owner |-> None, closed |-> FALSE] \in Resource
    BY DEF Resource
  <2>3. owner \in [Owners -> Owner] /\ res \in [Resources -> Resource]
    BY <2>1, <2>2, Zenon DEF Init
  <2>4. scopes \in Seq(Scope)
    BY DEF Init
  <2> QED BY <2>3, <2>4 DEF Init, TypeOK
<1>2. \A o \in Owners : LiveOf(o) = {} /\ ScopesOf(o) = {}
  BY DEF Init, LiveOf, ScopesOf
<1>3. RefsInv
  <2> SUFFICES ASSUME NEW o \in Owners
               PROVE  /\ owner[o].refs = (IF client[o] THEN 1 ELSE 0)
                           + Cardinality(LiveOf(o)) + Cardinality(ScopesOf(o))
                      /\ owner[o].active = Cardinality(ScopesOf(o))
                      /\ owner[o].mem = "live" <=> owner[o].refs # 0
    BY DEF RefsInv
  <2>1. Cardinality(LiveOf(o)) = 0 /\ Cardinality(ScopesOf(o)) = 0
    BY <1>2, FS_EmptySet
  <2>2. owner[o].refs = 0 /\ owner[o].active = 0 /\ owner[o].mem = "none" /\ ~client[o]
    BY DEF Init
  <2> QED BY <2>1, <2>2
<1>4. AddrInv /\ HandleInv /\ TempInv /\ DeferredInv /\ BorrowInv /\ HeldInv
  BY DEF Init, AddrInv, HandleInv, TempInv, DeferredInv, BorrowInv, HeldInv
<1> QED BY <1>1, <1>3, <1>4 DEF LuaInv

LEMMA NewClientInv ==
    ASSUME LuaInv, NEW o \in Owners, NEW a \in Addrs, NewClient(o, a) PROVE LuaInv'
<1>1. /\ owner[o].mem = "none" /\ owner[o] \in Owner /\ owner \in [Owners -> Owner]
      /\ owner' = [owner EXCEPT ![o] = [@ EXCEPT !.mem = "live", !.ctx = a, !.refs = 1]]
      /\ client' = [client EXCEPT ![o] = TRUE]
      /\ UNCHANGED <<res, handle, scopes, freed>>
  BY DEF NewClient, LuaInv, TypeOK
<1>2. ~client[o] /\ LiveOf(o) = {} /\ ScopesOf(o) = {}
  BY <1>1, UsedOwner DEF LuaInv
<1>3. \A q \in Owners : LiveOf(q)' = LiveOf(q) /\ ScopesOf(q)' = ScopesOf(q)
  BY <1>1 DEF LiveOf, ScopesOf
<1>4. /\ owner'[o].mem = "live" /\ owner'[o].ctx = a /\ owner'[o].refs = 1
      /\ owner'[o].active = owner[o].active /\ owner'[o].deferred = owner[o].deferred
      /\ owner' \in [Owners -> Owner]
      /\ \A q \in Owners \ {o} : owner'[q] = owner[q]
  <2> DEFINE w == [owner[o] EXCEPT !.mem = "live", !.ctx = a, !.refs = 1]
  <2>1. /\ w \in Owner /\ w.mem = "live" /\ w.ctx = a /\ w.refs = 1
        /\ w.active = owner[o].active /\ w.deferred = owner[o].deferred
    <3>1. 1 \in Int
      OBVIOUS
    <3> QED BY <1>1, <3>1, Zenon DEF Owner
  <2>2. owner' = [owner EXCEPT ![o] = w]
    BY <1>1
  <2> HIDE DEF w
  <2> QED BY <2>1, <2>2, OwnerUpdated DEF LuaInv
<1>5. TypeOK' /\ ~freed'
  BY <1>1, <1>4 DEF LuaInv, TypeOK
<1>6. RefsInv'
  <2>1. Cardinality(LiveOf(o)') = 0 /\ Cardinality(ScopesOf(o)') = 0
    BY <1>2, <1>3, FS_EmptySet
  <2>2. owner'[o].active = Cardinality(ScopesOf(o)')
    BY <1>3, <1>4 DEF LuaInv, RefsInv
  <2>3. client'[o] /\ \A q \in Owners \ {o} : client'[q] = client[q]
    BY <1>1 DEF LuaInv, TypeOK
  <2>4. owner'[o].refs = (IF client'[o] THEN 1 ELSE 0)
                              + Cardinality(LiveOf(o)') + Cardinality(ScopesOf(o)')
    BY <1>4, <2>1, <2>3
  <2>5. owner'[o].mem = "live" <=> owner'[o].refs # 0
    BY <1>4
  <2> QED BY <1>3, <1>4, <2>2, <2>3, <2>4, <2>5, RefsStep DEF LuaInv
<1>7. AddrInv'
  BY <1>4 DEF NewClient, LuaInv, AddrInv
<1>8. owner[o].deferred = {}
  BY <1>2 DEF LuaInv, DeferredInv, LiveOf, TypeOK, Owner
<1>9. HandleInv'
  <2> SUFFICES ASSUME NEW r \in Resources, handle[r] # None
               PROVE  /\ res[r].mem = "live" /\ res[r].owner \in Owners /\ ~Temporary(r)'
                      /\ handle[r] = owner'[res[r].owner].ctx
    BY <1>1 DEF HandleInv
  <2>1. /\ res[r].mem = "live" /\ res[r].owner \in Owners /\ ~Temporary(r)
        /\ handle[r] = owner[res[r].owner].ctx
    BY DEF LuaInv, HandleInv
  <2>2. res[r].owner # o
    BY <1>2, <2>1 DEF LiveOf
  <2> QED BY <1>1, <1>4, <2>1, <2>2 DEF Temporary
<1>10. TempInv'
  BY <1>1 DEF LuaInv, TempInv
<1>11. DeferredInv'
  <2>1. \A q \in Owners : owner'[q].deferred = owner[q].deferred /\ owner'[q].active = owner[q].active
    BY <1>4
  <2> QED BY <1>1, <2>1 DEF LuaInv, DeferredInv, Temporary
<1>12. BorrowInv' /\ HeldInv'
  <2>1. \A q \in Owners : owner'[q].deferred = owner[q].deferred
    BY <1>4
  <2>2. \A i \in 1 .. Len(scopes) : scopes[i].owner \in Owners
    BY ScopeTypes DEF LuaInv
  <2> QED BY <1>1, <2>1, <2>2 DEF LuaInv, BorrowInv, HeldInv, Temporary
<1> QED BY <1>5, <1>6, <1>7, <1>9, <1>10, <1>11, <1>12 DEF LuaInv

(* What does not depend on the counts, when only counts and flags change. *)
LEMMA OnlyCounts ==
    ASSUME LuaInv, UNCHANGED <<res, handle, scopes>>,
           \A q \in Owners : /\ owner'[q].ctx = owner[q].ctx /\ owner'[q].active = owner[q].active
                             /\ owner'[q].deferred = owner[q].deferred
                             /\ owner'[q].mem = "live" => owner[q].mem = "live"
    PROVE  AddrInv' /\ HandleInv' /\ TempInv' /\ DeferredInv' /\ BorrowInv' /\ HeldInv'
<1>1. AddrInv'
  BY DEF LuaInv, AddrInv
<1>2. HandleInv' /\ TempInv' /\ DeferredInv' /\ HeldInv'
  BY DEF LuaInv, HandleInv, TempInv, DeferredInv, HeldInv, Temporary
<1>3. \A i \in 1 .. Len(scopes) : scopes[i].owner \in Owners
  BY ScopeTypes DEF LuaInv
<1>4. BorrowInv'
  BY <1>3 DEF LuaInv, BorrowInv
<1> QED BY <1>1, <1>2, <1>4

LEMMA CloseClientInv ==
    ASSUME LuaInv, NEW o \in Owners, CloseClient(o) PROVE LuaInv'
<1> DEFINE w == [Release(owner[o], 1) EXCEPT !.closed = TRUE]
<1>1. /\ client[o] /\ owner[o] \in Owner
      /\ owner' = [owner EXCEPT ![o] = w]
      /\ client' = [client EXCEPT ![o] = FALSE] /\ client \in [Owners -> BOOLEAN]
      /\ UNCHANGED <<res, handle, scopes>>
  BY DEF CloseClient, LuaInv, TypeOK
<1>2. owner[o].mem = "live"
  BY <1>1, UsedOwner DEF LuaInv
<1>3. /\ w \in Owner /\ w.refs = owner[o].refs - 1
      /\ w.mem = (IF owner[o].refs = 1 THEN "freed" ELSE owner[o].mem)
      /\ w.ctx = owner[o].ctx /\ w.active = owner[o].active /\ w.deferred = owner[o].deferred
  <2>1. PICK v \in Owner : v = Release(owner[o], 1) /\ v.refs = owner[o].refs - 1
           /\ v.mem = (IF owner[o].refs = 1 THEN "freed" ELSE owner[o].mem)
           /\ v.ctx = owner[o].ctx /\ v.active = owner[o].active /\ v.deferred = owner[o].deferred
    BY <1>1, ReleaseFacts
  <2>2. w = [v EXCEPT !.closed = TRUE]
    BY <2>1
  <2>3. /\ w \in Owner /\ w.refs = v.refs /\ w.mem = v.mem /\ w.ctx = v.ctx
        /\ w.active = v.active /\ w.deferred = v.deferred
    BY <2>2, Zenon DEF Owner
  <2> QED BY <2>1, <2>3
<1> HIDE DEF w
<1>4. /\ owner' \in [Owners -> Owner] /\ owner'[o] = w
      /\ \A q \in Owners \ {o} : owner'[q] = owner[q]
  BY <1>1, <1>3, OwnerUpdated DEF LuaInv
<1>5. TypeOK' /\ ~freed'
  BY <1>1, <1>2, <1>4 DEF CloseClient, Uses, LuaInv, TypeOK
<1>6. RefsInv'
  <2>1. \A q \in Owners : LiveOf(q)' = LiveOf(q) /\ ScopesOf(q)' = ScopesOf(q)
    BY <1>1 DEF LiveOf, ScopesOf
  <2>2. ~client'[o] /\ \A q \in Owners \ {o} : client'[q] = client[q]
    BY <1>1
  <2>3. PICK l \in Nat, s \in Nat : l = Cardinality(LiveOf(o)) /\ s = Cardinality(ScopesOf(o))
    BY CountsAreFinite DEF LuaInv
  <2>4. owner[o].refs = 1 + l + s /\ owner[o].active = s
    BY <1>1, <2>3 DEF LuaInv, RefsInv
  <2>5. owner'[o].refs = l + s /\ owner'[o].active = s
        /\ (owner'[o].mem = "live" <=> owner'[o].refs # 0)
    BY <1>2, <1>3, <1>4, <2>4
  <2>6. owner'[o].refs = (IF client'[o] THEN 1 ELSE 0)
                              + Cardinality(LiveOf(o)') + Cardinality(ScopesOf(o)')
    BY <2>1, <2>2, <2>3, <2>5
  <2>7. owner'[o].active = Cardinality(ScopesOf(o)')
    BY <2>1, <2>3, <2>5
  <2> QED BY <1>4, <2>1, <2>2, <2>5, <2>6, <2>7, RefsStep DEF LuaInv
<1>7. \A q \in Owners : /\ owner'[q].ctx = owner[q].ctx /\ owner'[q].active = owner[q].active
                        /\ owner'[q].deferred = owner[q].deferred
                        /\ owner'[q].mem = "live" => owner[q].mem = "live"
  BY <1>2, <1>3, <1>4
<1> QED BY <1>1, <1>5, <1>6, <1>7, OnlyCounts DEF LuaInv

(* the resources after some are disposed of *)
LEMMA DisposedFacts ==
    ASSUME TypeOK, NEW rs \in SUBSET Resources
    PROVE  /\ Disposed(rs) \in [Resources -> Resource]
           /\ \A r \in Resources : /\ Disposed(rs)[r].owner = res[r].owner
                                   /\ Disposed(rs)[r].mem = IF r \in rs THEN "freed" ELSE res[r].mem
<1>1. ASSUME NEW r \in Resources
      PROVE  /\ [res[r] EXCEPT !.mem = "freed"] \in Resource
             /\ [res[r] EXCEPT !.mem = "freed"].owner = res[r].owner
             /\ [res[r] EXCEPT !.mem = "freed"].mem = "freed"
             /\ res[r] \in Resource
  BY DEF TypeOK, Resource
<1> QED BY <1>1 DEF Disposed

(* a closed resource keeps its owner and its memory *)
LEMMA ResClosed ==
    ASSUME NEW f \in [Resources -> Resource], NEW r \in Resources
    PROVE  /\ [f EXCEPT ![r].closed = TRUE] \in [Resources -> Resource]
           /\ \A s \in Resources : /\ [f EXCEPT ![r].closed = TRUE][s].owner = f[s].owner
                                   /\ [f EXCEPT ![r].closed = TRUE][s].mem = f[s].mem
<1>1. ASSUME NEW v \in Resource
      PROVE  /\ [v EXCEPT !.closed = TRUE] \in Resource
             /\ [v EXCEPT !.closed = TRUE].owner = v.owner
             /\ [v EXCEPT !.closed = TRUE].mem = v.mem
  BY DEF Resource
<1>2. f[r] \in Resource
  OBVIOUS
<1>3. [f EXCEPT ![r].closed = TRUE] = [f EXCEPT ![r] = [f[r] EXCEPT !.closed = TRUE]]
  OBVIOUS
<1> QED BY <1>1, <1>2, <1>3

LEMMA CloseHandleFacts ==
    ASSUME LuaInv, NEW r \in Resources, handle[r] # None
    PROVE  /\ res[r].owner \in Owners /\ owner[res[r].owner] \in Owner
           /\ res[r].mem = "live" /\ r \in LiveOf(res[r].owner) /\ ~Temporary(r)
           /\ owner[res[r].owner].mem = "live" /\ handle[r] = owner[res[r].owner].ctx
           /\ \A q \in Owners : r \notin owner[q].deferred
<1>1. res[r].owner \in Owners /\ res[r].mem = "live" /\ ~Temporary(r)
      /\ handle[r] = owner[res[r].owner].ctx
  BY DEF LuaInv, HandleInv
<1>2. r \in LiveOf(res[r].owner)
  BY <1>1 DEF LiveOf
<1>3. owner[res[r].owner].mem = "live"
  BY <1>1, <1>2, UsedOwner DEF LuaInv
<1>4. \A q \in Owners : r \notin owner[q].deferred
  BY DEF LuaInv, DeferredInv
<1> QED BY <1>1, <1>2, <1>3, <1>4 DEF LuaInv, TypeOK

(* the finalizer while a method of the owner runs: the end is deferred *)
LEMMA CloseHandleDefers ==
    ASSUME LuaInv, NEW r \in Resources, CloseHandle(r),
           NEW o \in Owners, o = res[r].owner, owner[o].active # 0
    PROVE  LuaInv'
<1> DEFINE w == [owner[o] EXCEPT !.deferred = @ \cup {r}]
<1>0. scopes' = scopes
  BY DEF CloseHandle
<1>1. /\ handle[r] # None /\ handle' = [handle EXCEPT ![r] = None]
      /\ res' = [res EXCEPT ![r].closed = TRUE]
      /\ owner' = [owner EXCEPT ![o].deferred = @ \cup {r}]
      /\ Uses(o, {r}) /\ UNCHANGED <<client, scopes>>
  BY DEF CloseHandle
<1>2. /\ o \in Owners /\ owner[o] \in Owner /\ res[r].mem = "live" /\ ~Temporary(r)
      /\ owner[o].mem = "live" /\ owner[o].active # 0
      /\ \A q \in Owners : r \notin owner[q].deferred
  BY <1>1, CloseHandleFacts
<1>3. /\ w \in Owner /\ w.refs = owner[o].refs /\ w.mem = owner[o].mem /\ w.ctx = owner[o].ctx
      /\ w.active = owner[o].active /\ w.deferred = owner[o].deferred \cup {r}
  <2>1. PICK d \in SUBSET Resources : d = owner[o].deferred \cup {r}
    BY <1>2 DEF Owner
  <2>2. w = [owner[o] EXCEPT !.deferred = d]
    BY <2>1
  <2> QED BY <1>2, <2>1, <2>2, Zenon DEF Owner
<1>4. owner' = [owner EXCEPT ![o] = w]
  BY <1>1
<1> HIDE DEF w
<1>5. /\ owner' \in [Owners -> Owner] /\ owner'[o] = w
      /\ \A q \in Owners \ {o} : owner'[q] = owner[q]
  BY <1>2, <1>3, <1>4, OwnerUpdated DEF LuaInv
<1>6. /\ res' \in [Resources -> Resource]
      /\ \A s \in Resources : res'[s].owner = res[s].owner /\ res'[s].mem = res[s].mem
  BY <1>1, ResClosed DEF LuaInv, TypeOK
<1>7. /\ handle' \in [Resources -> Addrs \cup {None}] /\ handle'[r] = None
      /\ \A s \in Resources \ {r} : handle'[s] = handle[s]
  BY <1>1 DEF LuaInv, TypeOK
<1>8. TypeOK' /\ ~freed'
  BY <1>1, <1>2, <1>5, <1>6, <1>7 DEF Uses, LuaInv, TypeOK
<1>9. \A q \in Owners : LiveOf(q)' = LiveOf(q) /\ ScopesOf(q)' = ScopesOf(q)
  BY <1>1, <1>6 DEF LiveOf, ScopesOf
<1>10. \A q \in Owners : /\ owner'[q].refs = owner[q].refs /\ owner'[q].mem = owner[q].mem
                         /\ owner'[q].ctx = owner[q].ctx /\ owner'[q].active = owner[q].active
  BY <1>3, <1>5
<1>11. RefsInv'
  BY <1>1, <1>9, <1>10 DEF LuaInv, RefsInv
<1>12. AddrInv'
  BY <1>10 DEF LuaInv, AddrInv
<1>13. HandleInv'
  BY <1>1, <1>6, <1>7, <1>10 DEF LuaInv, HandleInv, Temporary
<1>14. TempInv'
  <2>1. \A i \in 1 .. Len(scopes) : scopes[i].resources \subseteq Resources
    BY ScopeTypes DEF LuaInv
  <2> QED BY <1>1, <1>6, <2>1 DEF LuaInv, TempInv
<1>15. \A q \in Owners : owner'[q].deferred =
                           IF q = o THEN owner[q].deferred \cup {r} ELSE owner[q].deferred
  BY <1>3, <1>5
<1>16. DeferredInv'
  <2> SUFFICES ASSUME NEW q \in Owners, NEW s \in owner'[q].deferred
               PROVE  /\ res'[s].mem = "live" /\ res'[s].owner = q /\ handle'[s] = None
                      /\ ~Temporary(s)' /\ owner'[q].active # 0
    BY DEF DeferredInv
  <2>1. CASE s = r
    <3>1. q = o
      BY <1>2, <1>15, <2>1
    <3> QED BY <1>1, <1>2, <1>6, <1>7, <1>10, <2>1, <3>1 DEF Temporary
  <2>2. CASE s # r
    <3>1. s \in owner[q].deferred /\ s \in Resources
      <4>1. s \in owner[q].deferred
        BY <1>15, <2>2
      <4> QED BY <4>1, OwnerTypes DEF LuaInv
    <3> QED BY <1>1, <1>6, <1>7, <1>10, <2>2, <3>1 DEF LuaInv, DeferredInv, Temporary
  <2> QED BY <2>1, <2>2
<1>17. BorrowInv'
  <2> SUFFICES ASSUME NEW i \in 1 .. Len(scopes), NEW s \in scopes[i].borrowed
               PROVE  /\ res'[s].owner = scopes[i].owner
                      /\ handle'[s] # None \/ s \in owner'[scopes[i].owner].deferred
    BY <1>0 DEF BorrowInv
  <2>1. scopes[i].owner \in Owners /\ s \in Resources
    BY ScopeTypes DEF LuaInv
  <2>2. res[s].owner = scopes[i].owner /\ (handle[s] # None \/ s \in owner[scopes[i].owner].deferred)
    BY DEF LuaInv, BorrowInv
  <2> QED BY <1>6, <1>7, <1>15, <2>1, <2>2
<1>18. HeldInv'
  <2> SUFFICES ASSUME NEW s \in Resources, res'[s].mem = "live"
               PROVE  \/ handle'[s] # None \/ Temporary(s)'
                      \/ res'[s].owner \in Owners /\ s \in owner'[res'[s].owner].deferred
    BY DEF HeldInv
  <2>1. CASE s = r
    <3>1. r \in owner'[o].deferred
      BY <1>2, <1>15
    <3> QED BY <1>2, <1>6, <2>1, <3>1
  <2>2. CASE s # r
    <3>1. \/ handle[s] # None \/ Temporary(s)
          \/ res[s].owner \in Owners /\ s \in owner[res[s].owner].deferred
      <4>1. res[s].mem = "live"
        BY <1>6
      <4> QED BY <4>1, Zenon DEF LuaInv, HeldInv
    <3>2. Temporary(s)' <=> Temporary(s)
      BY <1>1 DEF Temporary
    <3> QED BY <1>6, <1>7, <1>15, <2>2, <3>1, <3>2
  <2> QED BY <2>1, <2>2
<1> QED BY <1>8, <1>11, <1>12, <1>13, <1>14, <1>16, <1>17, <1>18 DEF LuaInv

(* Disposing of resources of one owner lowers its count by their number. *)
LEMMA LiveDisposed ==
    ASSUME TypeOK, NEW o \in Owners, NEW rs \in SUBSET LiveOf(o),
           \A r \in Resources : /\ res'[r].owner = res[r].owner
                                /\ res'[r].mem = IF r \in rs THEN "freed" ELSE res[r].mem
    PROVE  /\ LiveOf(o)' = LiveOf(o) \ rs
           /\ Cardinality(rs) \in Nat /\ Cardinality(LiveOf(o)') \in Nat
           /\ Cardinality(LiveOf(o)') = Cardinality(LiveOf(o)) - Cardinality(rs)
           /\ \A q \in Owners \ {o} : LiveOf(q)' = LiveOf(q)
<1>1. LiveOf(o)' = LiveOf(o) \ rs
  BY DEF LiveOf
<1>2. \A q \in Owners \ {o} : LiveOf(q)' = LiveOf(q)
  BY DEF LiveOf
<1>3. LiveOf(o) \cap rs = rs
  OBVIOUS
<1>4. IsFiniteSet(LiveOf(o)) /\ IsFiniteSet(rs)
  BY CountsAreFinite, FS_Subset
<1>5. IsFiniteSet(LiveOf(o) \ rs)
      /\ Cardinality(LiveOf(o) \ rs) = Cardinality(LiveOf(o)) - Cardinality(rs)
  BY <1>3, <1>4, FS_Difference
<1>6. Cardinality(rs) \in Nat /\ Cardinality(LiveOf(o) \ rs) \in Nat
  BY <1>4, <1>5, FS_CardinalityType
<1> QED BY <1>1, <1>2, <1>5, <1>6

(* the finalizer while no method of the owner runs *)
LEMMA CloseHandleDisposes ==
    ASSUME LuaInv, NEW r \in Resources, CloseHandle(r),
           NEW o \in Owners, o = res[r].owner, owner[o].active = 0
    PROVE  LuaInv'
<1> DEFINE w == Release(owner[o], 1)
<1>0. scopes' = scopes
  BY DEF CloseHandle
<1>1. /\ handle[r] # None /\ handle' = [handle EXCEPT ![r] = None]
      /\ res' = [Disposed({r}) EXCEPT ![r].closed = TRUE]
      /\ owner' = [owner EXCEPT ![o] = w]
      /\ Uses(o, {r}) /\ UNCHANGED <<client, scopes>>
  BY DEF CloseHandle
<1>2. /\ o \in Owners /\ owner[o] \in Owner /\ res[r].mem = "live" /\ ~Temporary(r)
      /\ r \in LiveOf(o) /\ owner[o].mem = "live" /\ owner[o].active = 0
      /\ \A q \in Owners : r \notin owner[q].deferred
  BY <1>1, CloseHandleFacts
<1>3. /\ w \in Owner /\ w.refs = owner[o].refs - 1
      /\ w.mem = (IF owner[o].refs = 1 THEN "freed" ELSE owner[o].mem)
      /\ w.ctx = owner[o].ctx /\ w.active = owner[o].active /\ w.deferred = owner[o].deferred
  BY <1>2, ReleaseFacts
<1> HIDE DEF w
<1>4. /\ owner' \in [Owners -> Owner] /\ owner'[o] = w
      /\ \A q \in Owners \ {o} : owner'[q] = owner[q]
  BY <1>1, <1>2, <1>3, OwnerUpdated DEF LuaInv
<1>5. /\ res' \in [Resources -> Resource]
      /\ \A s \in Resources : /\ res'[s].owner = res[s].owner
                              /\ res'[s].mem = IF s \in {r} THEN "freed" ELSE res[s].mem
  <2>1. {r} \in SUBSET Resources
    OBVIOUS
  <2>2. PICK f \in [Resources -> Resource] :
          /\ f = Disposed({r})
          /\ \A s \in Resources : /\ f[s].owner = res[s].owner
                                  /\ f[s].mem = IF s \in {r} THEN "freed" ELSE res[s].mem
    <3>1. TypeOK
      BY Zenon DEF LuaInv
    <3>2. Disposed({r}) \in [Resources -> Resource]
      BY <2>1, <3>1, DisposedFacts, Zenon
    <3>3. \A s \in Resources : /\ Disposed({r})[s].owner = res[s].owner
                               /\ Disposed({r})[s].mem = IF s \in {r} THEN "freed" ELSE res[s].mem
      BY <2>1, <3>1, DisposedFacts, Zenon
    <3> HIDE DEF Disposed
    <3> QED BY <3>2, <3>3, Zenon
  <2>3. res' = [f EXCEPT ![r].closed = TRUE]
    BY <1>1, <2>2
  <2>4. /\ res' \in [Resources -> Resource]
        /\ \A s \in Resources : res'[s].owner = f[s].owner /\ res'[s].mem = f[s].mem
    BY <2>3, ResClosed, Zenon
  <2> QED BY <2>2, <2>4, Zenon
<1>6. /\ handle' \in [Resources -> Addrs \cup {None}] /\ handle'[r] = None
      /\ \A s \in Resources \ {r} : handle'[s] = handle[s]
  BY <1>1 DEF LuaInv, TypeOK
<1>7. TypeOK' /\ ~freed'
  BY <1>1, <1>2, <1>4, <1>5, <1>6 DEF Uses, LuaInv, TypeOK
<1>8. ScopesOf(o) = {}
  BY <1>2, NothingCounted DEF LuaInv, RefsInv
<1>9. \A q \in Owners : ScopesOf(q)' = ScopesOf(q)
  BY <1>1 DEF ScopesOf
<1>10. RefsInv'
  <2>1. {r} \in SUBSET LiveOf(o)
    BY <1>2
  <2>2. Cardinality({r}) = 1
    BY FS_Singleton
  <2>3. PICK l \in Nat, s \in Nat : l = Cardinality(LiveOf(o)) /\ s = Cardinality(ScopesOf(o))
    BY CountsAreFinite DEF LuaInv
  <2>4. /\ Cardinality(LiveOf(o)') = l - 1 /\ Cardinality(LiveOf(o)') \in Nat
        /\ \A q \in Owners \ {o} : LiveOf(q)' = LiveOf(q)
    BY <1>2, <1>5, <2>1, <2>2, <2>3, LiveDisposed DEF LuaInv
  <2>5. owner[o].refs = (IF client[o] THEN 1 ELSE 0) + l + s /\ owner[o].active = s
    BY <1>2, <2>3 DEF LuaInv, RefsInv
  <2>6. /\ owner'[o].refs = (IF client[o] THEN 1 ELSE 0) + (l - 1) + s
        /\ owner'[o].active = s /\ (owner'[o].mem = "live" <=> owner'[o].refs # 0)
    BY <1>2, <1>3, <1>4, <2>4, <2>5
  <2>7. owner'[o].refs = (IF client'[o] THEN 1 ELSE 0)
                              + Cardinality(LiveOf(o)') + Cardinality(ScopesOf(o)')
    BY <1>1, <1>2, <1>9, <2>3, <2>4, <2>6
  <2>8. owner'[o].active = Cardinality(ScopesOf(o)')
    BY <1>2, <1>9, <2>3, <2>6
  <2> QED BY <1>1, <1>2, <1>4, <1>9, <2>4, <2>6, <2>7, <2>8, RefsStep DEF LuaInv
<1>11. \A q \in Owners : /\ owner'[q].ctx = owner[q].ctx /\ owner'[q].active = owner[q].active
                         /\ owner'[q].deferred = owner[q].deferred
                         /\ owner'[q].mem = "live" => owner[q].mem = "live"
  BY <1>2, <1>3, <1>4
<1>12. AddrInv'
  BY <1>11 DEF LuaInv, AddrInv
<1>13. \A s : Temporary(s)' <=> Temporary(s)
  BY <1>1 DEF Temporary
<1>14. HandleInv'
  BY <1>5, <1>6, <1>11, <1>13 DEF LuaInv, HandleInv
<1>15. TempInv'
  <2>1. \A i \in 1 .. Len(scopes) : scopes[i].resources \subseteq Resources \ {r}
    BY <1>2, ScopeTypes DEF LuaInv, Temporary
  <2> SUFFICES ASSUME NEW i \in 1 .. Len(scopes), NEW s \in scopes[i].resources
               PROVE  /\ res'[s].mem = "live" /\ res'[s].owner = scopes[i].owner
                      /\ \A j \in 1 .. Len(scopes) : s \in scopes[j].resources => j = i
    BY <1>0 DEF TempInv
  <2>2. /\ res[s].mem = "live" /\ res[s].owner = scopes[i].owner
        /\ \A j \in 1 .. Len(scopes) : s \in scopes[j].resources => j = i
    BY DEF LuaInv, TempInv
  <2> QED BY <1>5, <2>1, <2>2
<1>16. DeferredInv'
  <2>1. \A q \in Owners : owner[q].deferred \subseteq Resources \ {r}
    BY <1>2 DEF LuaInv, TypeOK, Owner
  <2> QED BY <1>5, <1>6, <1>11, <1>13, <2>1 DEF LuaInv, DeferredInv
<1>17. BorrowInv'
  <2> SUFFICES ASSUME NEW i \in 1 .. Len(scopes), NEW s \in scopes[i].borrowed
               PROVE  /\ res'[s].owner = scopes[i].owner
                      /\ handle'[s] # None \/ s \in owner'[scopes[i].owner].deferred
    BY <1>0 DEF BorrowInv
  <2>1. scopes[i].owner \in Owners /\ s \in Resources
    BY ScopeTypes DEF LuaInv
  <2>2. res[s].owner = scopes[i].owner /\ (handle[s] # None \/ s \in owner[scopes[i].owner].deferred)
    BY DEF LuaInv, BorrowInv
  <2>3. s # r
    BY <1>8, <2>2 DEF ScopesOf
  <2> QED BY <1>5, <1>6, <1>11, <2>1, <2>2, <2>3
<1>18. HeldInv'
  <2> SUFFICES ASSUME NEW s \in Resources, res'[s].mem = "live"
               PROVE  \/ handle'[s] # None \/ Temporary(s)'
                      \/ res'[s].owner \in Owners /\ s \in owner'[res'[s].owner].deferred
    BY DEF HeldInv
  <2>1. s # r /\ res[s].mem = "live" /\ res'[s].owner = res[s].owner
    BY <1>5
  <2>2. \/ handle[s] # None \/ Temporary(s)
        \/ res[s].owner \in Owners /\ s \in owner[res[s].owner].deferred
    BY <2>1, Zenon DEF LuaInv, HeldInv
  <2> QED BY <1>6, <1>11, <1>13, <2>1, <2>2
<1> QED BY <1>7, <1>10, <1>12, <1>14, <1>15, <1>16, <1>17, <1>18 DEF LuaInv

LEMMA CloseHandleInv ==
    ASSUME LuaInv, NEW r \in Resources, CloseHandle(r) PROVE LuaInv'
<1>1. PICK o \in Owners : o = res[r].owner
  BY CloseHandleFacts DEF CloseHandle
<1> QED BY <1>1, CloseHandleDefers, CloseHandleDisposes

-----------------------------------------------------------------------------
(* The stack of methods *)

LEMMA PushFacts ==
    ASSUME TypeOK, NEW t \in Scope, scopes' = Append(scopes, t)
    PROVE  /\ scopes' \in Seq(Scope) /\ Len(scopes) \in Nat /\ Len(scopes') = Len(scopes) + 1
           /\ scopes'[Len(scopes) + 1] = t
           /\ \A i \in 1 .. Len(scopes) : scopes'[i] = scopes[i]
  BY DEF TypeOK

LEMMA TopFacts ==
    ASSUME TypeOK, scopes # <<>>
    PROVE  /\ Len(scopes) \in 1 .. Len(scopes) /\ Top \in Scope /\ Top.owner \in Owners
           /\ Top.resources \subseteq Resources /\ Top.borrowed \subseteq Resources
<1>1. Len(scopes) \in Nat /\ Len(scopes) # 0
  BY DEF TypeOK
<1>2. Len(scopes) \in 1 .. Len(scopes)
  BY <1>1
<1> QED BY <1>2, ScopeTypes DEF Top

LEMMA SetTopFacts ==
    ASSUME TypeOK, scopes # <<>>, NEW t \in Scope, SetTop(t)
    PROVE  /\ scopes' \in Seq(Scope) /\ Len(scopes') = Len(scopes)
           /\ \A i \in 1 .. Len(scopes) : scopes'[i] = IF i = Len(scopes) THEN t ELSE scopes[i]
<1>1. Len(scopes) \in 1 .. Len(scopes) /\ scopes \in Seq(Scope)
  BY TopFacts DEF TypeOK
<1> QED BY <1>1 DEF SetTop

LEMMA PopFacts ==
    ASSUME TypeOK, scopes # <<>>, scopes' = SubSeq(scopes, 1, Len(scopes) - 1)
    PROVE  /\ scopes' \in Seq(Scope) /\ Len(scopes) \in Nat \ {0} /\ Len(scopes') = Len(scopes) - 1
           /\ \A i \in 1 .. (Len(scopes) - 1) : scopes'[i] = scopes[i]
<1>1. Len(scopes) \in 1 .. Len(scopes) /\ scopes \in Seq(Scope)
  BY TopFacts DEF TypeOK
<1>2. PICK n \in 0 .. Len(scopes) : n = Len(scopes) - 1
  BY <1>1
<1>3. /\ SubSeq(scopes, 1, n) \in Seq(Scope) /\ Len(SubSeq(scopes, 1, n)) = n
      /\ \A i \in 1 .. n : SubSeq(scopes, 1, n)[i] = scopes[i]
  BY <1>1
<1> QED BY <1>1, <1>2, <1>3

(* a scope with other temporaries or another borrowed handle *)
LEMMA ScopeFields ==
    ASSUME NEW t \in Scope, NEW rs \in SUBSET Resources
    PROVE  /\ [t EXCEPT !.resources = rs] \in Scope
           /\ [t EXCEPT !.resources = rs].resources = rs
           /\ [t EXCEPT !.resources = rs].owner = t.owner
           /\ [t EXCEPT !.resources = rs].borrowed = t.borrowed
           /\ [t EXCEPT !.borrowed = rs] \in Scope
           /\ [t EXCEPT !.borrowed = rs].resources = t.resources
           /\ [t EXCEPT !.borrowed = rs].owner = t.owner
           /\ [t EXCEPT !.borrowed = rs].borrowed = rs
  BY Zenon DEF Scope

(* a method starts, with handles of its owner borrowed *)
LEMMA EnterInv ==
    ASSUME LuaInv, NEW o \in Owners, owner[o].mem = "live", NEW B \in SUBSET Resources,
           \A r \in B : handle[r] # None /\ res[r].owner = o, Enter(o, B)
    PROVE  LuaInv'
<1> DEFINE w == Hold(owner[o])
           t == [owner |-> o, usable |-> ~owner[o].closed, resources |-> {}, borrowed |-> B]
           n == Len(scopes)
<1>1. /\ owner' = [owner EXCEPT ![o] = w] /\ scopes' = Append(scopes, t)
      /\ Uses(o, B) /\ UNCHANGED <<client, res, handle>>
  BY DEF Enter
<1>2. /\ w \in Owner /\ w.refs = owner[o].refs + 1 /\ w.active = owner[o].active + 1
      /\ w.mem = owner[o].mem /\ w.ctx = owner[o].ctx /\ w.deferred = owner[o].deferred
  <2>1. owner[o] \in Owner
    BY OwnerTypes DEF LuaInv
  <2>2. PICK m \in Int, a \in Int : m = owner[o].refs + 1 /\ a = owner[o].active + 1
    BY <2>1 DEF Owner
  <2>3. w = [owner[o] EXCEPT !.refs = m, !.active = a]
    BY <2>2 DEF Hold
  <2> HIDE DEF w
  <2>4. /\ w \in Owner /\ w.refs = m /\ w.active = a
        /\ w.mem = owner[o].mem /\ w.ctx = owner[o].ctx /\ w.deferred = owner[o].deferred
    BY <2>1, <2>3, Zenon DEF Owner
  <2> QED BY <2>2, <2>4
<1>3. t \in Scope /\ t.owner = o /\ t.resources = {} /\ t.borrowed = B
  <2>1. PICK u \in BOOLEAN : u = ~owner[o].closed
    OBVIOUS
  <2>2. t = [owner |-> o, usable |-> u, resources |-> {}, borrowed |-> B]
    BY <2>1
  <2>3. {} \in SUBSET Resources
    OBVIOUS
  <2> HIDE DEF t
  <2> QED BY <2>2, <2>3, Zenon DEF Scope
<1> HIDE DEF w, t
<1>4. /\ scopes' \in Seq(Scope) /\ n \in Nat /\ Len(scopes') = n + 1 /\ scopes'[n + 1] = t
      /\ \A i \in 1 .. n : scopes'[i] = scopes[i]
  BY <1>1, <1>3, PushFacts DEF LuaInv
<1> HIDE DEF n
<1>5. /\ owner' \in [Owners -> Owner] /\ owner'[o] = w
      /\ \A q \in Owners \ {o} : owner'[q] = owner[q]
  BY <1>1, <1>2, OwnerUpdated DEF LuaInv
<1>6. freed' = FALSE
  <2>1. \A r \in B : res[r].mem = "live"
    BY DEF LuaInv, HandleInv
  <2> QED BY <1>1, <2>1 DEF Uses, LuaInv
<1>7. TypeOK' /\ ~freed'
  BY <1>1, <1>4, <1>5, <1>6 DEF LuaInv, TypeOK
<1>8. \A i \in 1 .. (n + 1) : i \in 1 .. n \/ i = n + 1
  BY <1>4
<1>9. RefsInv'
  <2>1. \A q \in Owners : LiveOf(q)' = LiveOf(q)
    BY <1>1 DEF LiveOf
  <2>2. ScopesOf(o)' = ScopesOf(o) \cup {n + 1} /\ n + 1 \notin ScopesOf(o)
    BY <1>3, <1>4, <1>8 DEF ScopesOf, n
  <2>3. \A q \in Owners \ {o} : ScopesOf(q)' = ScopesOf(q)
    BY <1>3, <1>4, <1>8 DEF ScopesOf, n
  <2>4. PICK l \in Nat, s \in Nat : l = Cardinality(LiveOf(o)) /\ s = Cardinality(ScopesOf(o))
    BY CountsAreFinite DEF LuaInv
  <2>5. Cardinality(ScopesOf(o)') = s + 1
    BY <2>2, <2>4, CountsAreFinite, FS_AddElement DEF LuaInv
  <2>6. owner[o].refs = (IF client[o] THEN 1 ELSE 0) + l + s /\ owner[o].active = s
    BY <2>4 DEF LuaInv, RefsInv
  <2>7. /\ owner'[o].refs = (IF client[o] THEN 1 ELSE 0) + l + (s + 1)
        /\ owner'[o].active = s + 1 /\ owner'[o].mem = "live"
    BY <1>2, <1>5, <2>6
  <2>8. owner'[o].refs = (IF client'[o] THEN 1 ELSE 0)
                              + Cardinality(LiveOf(o)') + Cardinality(ScopesOf(o)')
    BY <1>1, <2>1, <2>4, <2>5, <2>7
  <2>9. owner'[o].active = Cardinality(ScopesOf(o)') /\ owner'[o].refs # 0
    BY <2>5, <2>7
  <2> QED BY <1>1, <1>5, <2>1, <2>3, <2>7, <2>8, <2>9, RefsStep DEF LuaInv
<1>10. \A q \in Owners : /\ owner'[q].ctx = owner[q].ctx /\ owner'[q].mem = owner[q].mem
                         /\ owner'[q].deferred = owner[q].deferred
  BY <1>2, <1>5
<1>11. AddrInv'
  BY <1>10 DEF LuaInv, AddrInv
<1>12. \A s : Temporary(s)' <=> Temporary(s)
  BY <1>3, <1>4, <1>8 DEF Temporary, n
<1>13. HandleInv' /\ HeldInv'
  BY <1>1, <1>10, <1>12 DEF LuaInv, HandleInv, HeldInv
<1>14. TempInv'
  <2> SUFFICES ASSUME NEW i \in 1 .. Len(scopes'), NEW s \in scopes'[i].resources
               PROVE  /\ res[s].mem = "live" /\ res[s].owner = scopes'[i].owner
                      /\ \A j \in 1 .. Len(scopes') : s \in scopes'[j].resources => j = i
    BY <1>1 DEF TempInv
  <2>1. i \in 1 .. n /\ scopes'[i] = scopes[i]
    BY <1>3, <1>4, <1>8
  <2>2. \A j \in 1 .. Len(scopes') : s \in scopes'[j].resources => j \in 1 .. n
    BY <1>3, <1>4, <1>8
  <2>3. /\ res[s].mem = "live" /\ res[s].owner = scopes[i].owner
        /\ \A j \in 1 .. n : s \in scopes[j].resources => j = i
    BY <2>1 DEF LuaInv, TempInv, n
  <2> QED BY <1>4, <2>1, <2>2, <2>3
<1>15. DeferredInv'
  <2>1. \A q \in Owners : owner[q].active # 0 => owner'[q].active # 0
    <3>1. owner[o].active \in Nat
      BY CountsAreFinite DEF LuaInv, RefsInv
    <3> QED BY <1>2, <1>5, <3>1
  <2> QED BY <1>1, <1>10, <1>12, <2>1 DEF LuaInv, DeferredInv
<1>16. BorrowInv'
  <2> SUFFICES ASSUME NEW i \in 1 .. Len(scopes'), NEW s \in scopes'[i].borrowed
               PROVE  /\ res[s].owner = scopes'[i].owner
                      /\ handle[s] # None \/ s \in owner'[scopes'[i].owner].deferred
    BY <1>1 DEF BorrowInv
  <2>1. CASE i = n + 1
    BY <1>3, <1>4, <2>1
  <2>2. CASE i \in 1 .. n
    <3>1. scopes'[i] = scopes[i] /\ scopes[i].owner \in Owners
      BY <1>4, <2>2, ScopeTypes DEF LuaInv, n
    <3>2. res[s].owner = scopes[i].owner /\ (handle[s] # None \/ s \in owner[scopes[i].owner].deferred)
      BY <2>2, <3>1 DEF LuaInv, BorrowInv, n
    <3> QED BY <1>10, <3>1, <3>2
  <2> QED BY <1>4, <1>8, <2>1, <2>2
<1> QED BY <1>7, <1>9, <1>11, <1>13, <1>14, <1>15, <1>16 DEF LuaInv

LEMMA EnterClientInv ==
    ASSUME LuaInv, NEW o \in Owners, EnterClient(o) PROVE LuaInv'
<1>1. owner[o].mem = "live"
  BY UsedOwner DEF EnterClient, LuaInv
<1>2. \A r \in {} : handle[r] # None /\ res[r].owner = o
  OBVIOUS
<1> QED BY <1>1, <1>2, EnterInv DEF EnterClient

LEMMA EnterHandleInv ==
    ASSUME LuaInv, NEW r \in Resources, EnterHandle(r) PROVE LuaInv'
<1>1. PICK o \in Owners : o = res[r].owner /\ owner[o].mem = "live"
  BY CloseHandleFacts DEF EnterHandle
<1>2. \A s \in {r} : handle[s] # None /\ res[s].owner = o
  BY <1>1 DEF EnterHandle
<1>3. Enter(o, {r})
  BY <1>1 DEF EnterHandle
<1> QED BY <1>1, <1>2, <1>3, EnterInv

-----------------------------------------------------------------------------
(* Temporaries *)

(* the innermost method has other temporaries *)
LEMMA SetResources ==
    ASSUME TypeOK, scopes # <<>>, NEW R \in SUBSET Resources,
           SetTop([Top EXCEPT !.resources = R])
    PROVE  /\ scopes' \in Seq(Scope) /\ Len(scopes') = Len(scopes)
           /\ \A i \in 1 .. Len(scopes) :
                /\ scopes'[i].owner = scopes[i].owner /\ scopes'[i].borrowed = scopes[i].borrowed
                /\ scopes'[i].resources = IF i = Len(scopes) THEN R ELSE scopes[i].resources
           /\ \A q : ScopesOf(q)' = ScopesOf(q)
<1>1. PICK t \in Scope : /\ t = [Top EXCEPT !.resources = R] /\ t.resources = R
                         /\ t.owner = Top.owner /\ t.borrowed = Top.borrowed
  BY TopFacts, ScopeFields
<1>2. /\ scopes' \in Seq(Scope) /\ Len(scopes') = Len(scopes)
      /\ \A i \in 1 .. Len(scopes) : scopes'[i] = IF i = Len(scopes) THEN t ELSE scopes[i]
  BY <1>1, SetTopFacts
<1>3. \A i \in 1 .. Len(scopes) :
        /\ scopes'[i].owner = scopes[i].owner /\ scopes'[i].borrowed = scopes[i].borrowed
        /\ scopes'[i].resources = IF i = Len(scopes) THEN R ELSE scopes[i].resources
  BY <1>1, <1>2 DEF Top
<1>4. \A q : ScopesOf(q)' = ScopesOf(q)
  BY <1>2, <1>3 DEF ScopesOf
<1> QED BY <1>2, <1>3, <1>4

(* What is not alive is held by nobody. *)
LEMMA NobodyHolds ==
    ASSUME LuaInv, NEW r \in Resources, res[r].mem # "live"
    PROVE  /\ handle[r] = None /\ ~Temporary(r) /\ \A q \in Owners : r \notin owner[q].deferred
           /\ \A i \in 1 .. Len(scopes) : r \notin scopes[i].borrowed
<1>1. handle[r] = None /\ ~Temporary(r) /\ \A q \in Owners : r \notin owner[q].deferred
  BY DEF LuaInv, HandleInv, TempInv, DeferredInv, Temporary
<1>2. \A i \in 1 .. Len(scopes) : scopes[i].owner \in Owners
  BY ScopeTypes DEF LuaInv
<1>3. \A i \in 1 .. Len(scopes) : r \notin scopes[i].borrowed
  BY <1>1, <1>2 DEF LuaInv, BorrowInv
<1> QED BY <1>1, <1>3

(* A method on the stack holds its owner. *)
LEMMA TopOwnerLives ==
    ASSUME LuaInv, scopes # <<>>
    PROVE  /\ owner[Top.owner].mem = "live" /\ owner[Top.owner] \in Owner
           /\ Len(scopes) \in ScopesOf(Top.owner)
<1>1. Len(scopes) \in ScopesOf(Top.owner)
  BY TopFacts DEF LuaInv, ScopesOf, Top
<1> QED BY <1>1, TopFacts, UsedOwner, OwnerTypes DEF LuaInv

LEMMA TrackInv ==
    ASSUME LuaInv, NEW r \in Resources, Track(r) PROVE LuaInv'
<1>1. PICK o \in Owners : o = Top.owner
  BY TopFacts DEF LuaInv, Track, InMethod
<1>2. PICK n \in Nat : n = Len(scopes) /\ n \in 1 .. n /\ n \in ScopesOf(o) /\ scopes[n] = Top
  BY <1>1, TopFacts, TopOwnerLives DEF LuaInv, Track, InMethod, Top
<1>3. owner[o].mem = "live" /\ owner[o] \in Owner
  BY <1>1, TopOwnerLives DEF Track, InMethod
<1>4. PICK R \in SUBSET Resources : R = Top.resources \cup {r}
  BY TopFacts DEF LuaInv, Track, InMethod
<1>5. /\ scopes' \in Seq(Scope) /\ Len(scopes') = n
      /\ \A i \in 1 .. n :
           /\ scopes'[i].owner = scopes[i].owner /\ scopes'[i].borrowed = scopes[i].borrowed
           /\ scopes'[i].resources = IF i = n THEN R ELSE scopes[i].resources
      /\ \A q : ScopesOf(q)' = ScopesOf(q)
  <2>1. SetTop([Top EXCEPT !.resources = R])
    BY <1>4 DEF Track
  <2> QED BY <1>2, <2>1, SetResources DEF LuaInv, Track, InMethod
<1>6. PICK w \in Owner : /\ owner' = [owner EXCEPT ![o] = w]
                         /\ w.refs = owner[o].refs + 1 /\ w.active = owner[o].active
                         /\ w.mem = owner[o].mem /\ w.ctx = owner[o].ctx
                         /\ w.deferred = owner[o].deferred
  <2>1. PICK m \in Int : m = owner[o].refs + 1
    BY <1>3 DEF Owner
  <2>2. owner' = [owner EXCEPT ![o] = [owner[o] EXCEPT !.refs = m]]
    BY <1>1, <2>1 DEF Track
  <2>3. PICK w : w = [owner[o] EXCEPT !.refs = m]
    OBVIOUS
  <2>4. /\ w \in Owner /\ w.refs = m /\ w.active = owner[o].active
        /\ w.mem = owner[o].mem /\ w.ctx = owner[o].ctx /\ w.deferred = owner[o].deferred
    BY <1>3, <2>3, Zenon DEF Owner
  <2> QED BY <2>1, <2>2, <2>3, <2>4
<1>7. /\ owner' \in [Owners -> Owner] /\ owner'[o] = w
      /\ \A q \in Owners \ {o} : owner'[q] = owner[q]
  BY <1>6, OwnerUpdated DEF LuaInv
<1>8. /\ res' \in [Resources -> Resource] /\ res'[r].mem = "live" /\ res'[r].owner = o
      /\ \A s \in Resources \ {r} : res'[s] = res[s]
  <2>1. PICK v : v = [mem |-> "live", owner |-> o, closed |-> FALSE]
    OBVIOUS
  <2>2. res' = [res EXCEPT ![r] = v]
    BY <1>1, <2>1 DEF Track
  <2>3. v \in Resource /\ v.mem = "live" /\ v.owner = o
    BY <2>1 DEF Resource
  <2> QED BY <2>2, <2>3 DEF LuaInv, TypeOK
<1>9. client' = client /\ handle' = handle /\ freed' = FALSE
  BY <1>1, <1>3 DEF Track, Uses, LuaInv
<1>10. TypeOK' /\ ~freed'
  BY <1>5, <1>7, <1>8, <1>9 DEF LuaInv, TypeOK
<1>11. /\ res[r].mem = "none" /\ handle[r] = None /\ ~Temporary(r)
       /\ \A q \in Owners : r \notin owner[q].deferred
       /\ \A i \in 1 .. Len(scopes) : r \notin scopes[i].borrowed
  <2>1. res[r].mem = "none"
    BY DEF Track
  <2> QED BY <2>1, NobodyHolds
<1>12. RefsInv'
  <2>1. LiveOf(o)' = LiveOf(o) \cup {r} /\ r \notin LiveOf(o)
        /\ \A q \in Owners \ {o} : LiveOf(q)' = LiveOf(q)
    BY <1>8, <1>11 DEF LiveOf
  <2>2. PICK l \in Nat, s \in Nat : l = Cardinality(LiveOf(o)) /\ s = Cardinality(ScopesOf(o))
    BY CountsAreFinite DEF LuaInv
  <2>3. Cardinality(LiveOf(o)') = l + 1
    <3>1. IsFiniteSet(LiveOf(o))
      BY CountsAreFinite, Zenon DEF LuaInv
    <3> QED BY <2>1, <2>2, <3>1, FS_AddElement, ZenonT(60)
  <2>4. owner[o].refs = (IF client[o] THEN 1 ELSE 0) + l + s /\ owner[o].active = s
    BY <2>2 DEF LuaInv, RefsInv
  <2>5. /\ owner'[o].refs = (IF client[o] THEN 1 ELSE 0) + (l + 1) + s
        /\ owner'[o].active = s /\ owner'[o].mem = "live"
    BY <1>3, <1>6, <1>7, <2>4
  <2>6. owner'[o].refs = (IF client'[o] THEN 1 ELSE 0)
                              + Cardinality(LiveOf(o)') + Cardinality(ScopesOf(o)')
    BY <1>5, <1>9, <2>2, <2>3, <2>5
  <2>7. owner'[o].active = Cardinality(ScopesOf(o)') /\ owner'[o].refs # 0
    BY <1>5, <2>2, <2>5
  <2> QED BY <1>5, <1>7, <1>9, <2>1, <2>5, <2>6, <2>7, RefsStep DEF LuaInv
<1>13. \A q \in Owners : /\ owner'[q].ctx = owner[q].ctx /\ owner'[q].mem = owner[q].mem
                         /\ owner'[q].active = owner[q].active
                         /\ owner'[q].deferred = owner[q].deferred
  BY <1>6, <1>7
<1>14. AddrInv'
  BY <1>13 DEF LuaInv, AddrInv
<1>15. Temporary(r)' /\ \A s \in Resources \ {r} : Temporary(s)' <=> Temporary(s)
  BY <1>2, <1>4, <1>5 DEF Temporary
<1>16. HandleInv'
  BY <1>8, <1>9, <1>11, <1>13, <1>15 DEF LuaInv, HandleInv
<1>17. TempInv'
  <2> SUFFICES ASSUME NEW i \in 1 .. n, NEW s \in scopes'[i].resources
               PROVE  /\ res'[s].mem = "live" /\ res'[s].owner = scopes'[i].owner
                      /\ \A j \in 1 .. n : s \in scopes'[j].resources => j = i
    BY <1>5 DEF TempInv
  <2>1. CASE s = r
    <3>1. \A j \in 1 .. n : r \in scopes'[j].resources => j = n
      BY <1>2, <1>5, <1>11 DEF Temporary
    <3>2. i = n /\ scopes'[i].owner = o
      BY <1>1, <1>2, <1>5, <2>1, <3>1
    <3> QED BY <1>8, <2>1, <3>1, <3>2
  <2>2. CASE s # r
    <3>1. \A j \in 1 .. n : s \in scopes'[j].resources <=> s \in scopes[j].resources
      BY <1>2, <1>4, <1>5, <2>2
    <3>2. s \in scopes[i].resources /\ s \in Resources
      BY <1>2, <3>1, ScopeTypes DEF LuaInv
    <3>3. /\ res[s].mem = "live" /\ res[s].owner = scopes[i].owner
          /\ \A j \in 1 .. n : s \in scopes[j].resources => j = i
      BY <1>2, <3>2 DEF LuaInv, TempInv
    <3> QED BY <1>5, <1>8, <2>2, <3>1, <3>2, <3>3
  <2> QED BY <2>1, <2>2
<1>18. DeferredInv'
  <2>1. \A q \in Owners : owner[q].deferred \subseteq Resources \ {r}
    BY <1>11, OwnerTypes DEF LuaInv
  <2> QED BY <1>8, <1>9, <1>13, <1>15, <2>1 DEF LuaInv, DeferredInv
<1>19. BorrowInv'
  <2> SUFFICES ASSUME NEW i \in 1 .. n, NEW s \in scopes[i].borrowed
               PROVE  /\ res'[s].owner = scopes[i].owner
                      /\ handle[s] # None \/ s \in owner'[scopes[i].owner].deferred
    BY <1>5, <1>9 DEF BorrowInv
  <2>1. scopes[i].owner \in Owners /\ s \in Resources /\ s # r
    BY <1>2, <1>11, ScopeTypes DEF LuaInv
  <2>2. res[s].owner = scopes[i].owner /\ (handle[s] # None \/ s \in owner[scopes[i].owner].deferred)
    BY <1>2 DEF LuaInv, BorrowInv
  <2> QED BY <1>8, <1>13, <2>1, <2>2
<1>20. HeldInv'
  <2> SUFFICES ASSUME NEW s \in Resources, res'[s].mem = "live"
               PROVE  \/ handle'[s] # None \/ Temporary(s)'
                      \/ res'[s].owner \in Owners /\ s \in owner'[res'[s].owner].deferred
    BY DEF HeldInv
  <2>1. CASE s = r
    BY <1>15, <2>1
  <2>2. CASE s # r
    <3>1. res'[s] = res[s] /\ (Temporary(s)' <=> Temporary(s))
      BY <1>8, <1>15, <2>2
    <3>2. \/ handle[s] # None \/ Temporary(s)
          \/ res[s].owner \in Owners /\ s \in owner[res[s].owner].deferred
      BY <3>1, Zenon DEF LuaInv, HeldInv
    <3> QED BY <1>9, <1>13, <3>1, <3>2
  <2> QED BY <2>1, <2>2
<1> QED BY <1>10, <1>12, <1>14, <1>16, <1>17, <1>18, <1>19, <1>20 DEF LuaInv

(* What the innermost method holds as a temporary nobody else holds. *)
LEMMA TemporaryFacts ==
    ASSUME LuaInv, scopes # <<>>, NEW r \in Top.resources
    PROVE  /\ r \in Resources /\ res[r].mem = "live" /\ res[r].owner = Top.owner
           /\ r \in LiveOf(Top.owner) /\ Temporary(r)
           /\ handle[r] = None /\ \A q \in Owners : r \notin owner[q].deferred
           /\ \A i \in 1 .. Len(scopes) : r \notin scopes[i].borrowed
           /\ \A i \in 1 .. Len(scopes) : r \in scopes[i].resources => i = Len(scopes)
<1>1. Len(scopes) \in 1 .. Len(scopes) /\ r \in Resources
  BY TopFacts DEF LuaInv
<1>2. /\ res[r].mem = "live" /\ res[r].owner = Top.owner
      /\ \A i \in 1 .. Len(scopes) : r \in scopes[i].resources => i = Len(scopes)
  BY <1>1 DEF LuaInv, TempInv, Top
<1>3. Temporary(r)
  BY <1>1 DEF Temporary, Top
<1>4. handle[r] = None /\ \A q \in Owners : r \notin owner[q].deferred
  BY <1>1, <1>3 DEF LuaInv, HandleInv, DeferredInv
<1>5. \A i \in 1 .. Len(scopes) : scopes[i].owner \in Owners
  BY ScopeTypes DEF LuaInv
<1>6. \A i \in 1 .. Len(scopes) : r \notin scopes[i].borrowed
  BY <1>4, <1>5 DEF LuaInv, BorrowInv
<1> QED BY <1>1, <1>2, <1>3, <1>4, <1>6 DEF LiveOf

LEMMA TakeInv ==
    ASSUME LuaInv, NEW r \in Resources, Take(r) PROVE LuaInv'
<1>1. PICK o \in Owners : o = Top.owner
  BY TopFacts DEF LuaInv, Take, InMethod
<1>2. PICK n \in Nat : n = Len(scopes) /\ n \in 1 .. n /\ n \in ScopesOf(o) /\ scopes[n] = Top
  BY <1>1, TopFacts, TopOwnerLives DEF LuaInv, Take, InMethod, Top
<1>3. owner[o].mem = "live" /\ owner[o].ctx \in Addrs /\ owner[o].ctx # None
  <2>1. owner[o].mem = "live"
    BY <1>1, TopOwnerLives DEF Take, InMethod
  <2> QED BY <2>1 DEF LuaInv, AddrInv
<1>4. PICK R \in SUBSET Resources : R = Top.resources \ {r}
  BY TopFacts DEF LuaInv, Take, InMethod
<1>5. /\ scopes' \in Seq(Scope) /\ Len(scopes') = n
      /\ \A i \in 1 .. n :
           /\ scopes'[i].owner = scopes[i].owner /\ scopes'[i].borrowed = scopes[i].borrowed
           /\ scopes'[i].resources = IF i = n THEN R ELSE scopes[i].resources
      /\ \A q : ScopesOf(q)' = ScopesOf(q)
  <2>1. SetTop([Top EXCEPT !.resources = R])
    BY <1>4 DEF Take
  <2> QED BY <1>2, <2>1, SetResources DEF LuaInv, Take, InMethod
<1>6. /\ res[r].mem = "live" /\ res[r].owner = o
      /\ handle[r] = None /\ \A q \in Owners : r \notin owner[q].deferred
      /\ \A i \in 1 .. n : r \notin scopes[i].borrowed
      /\ \A i \in 1 .. n : r \in scopes[i].resources => i = n
  BY <1>1, <1>2, TemporaryFacts DEF Take, InMethod
<1>7. owner' = owner /\ client' = client /\ res' = res /\ freed' = FALSE
  BY <1>1, <1>3, <1>6 DEF Take, Uses, LuaInv
<1>8. /\ handle' \in [Resources -> Addrs \cup {None}] /\ handle'[r] = owner[o].ctx
      /\ \A s \in Resources \ {r} : handle'[s] = handle[s]
  BY <1>1, <1>3 DEF Take, LuaInv, TypeOK
<1>9. TypeOK' /\ ~freed'
  BY <1>5, <1>7, <1>8 DEF LuaInv, TypeOK
<1>10. RefsInv'
  <2>1. \A q : LiveOf(q)' = LiveOf(q)
    BY <1>7 DEF LiveOf
  <2> QED BY <1>5, <1>7, <2>1 DEF LuaInv, RefsInv
<1>11. AddrInv'
  BY <1>7 DEF LuaInv, AddrInv
<1>12. ~Temporary(r)' /\ \A s \in Resources \ {r} : Temporary(s)' <=> Temporary(s)
  BY <1>2, <1>4, <1>5, <1>6 DEF Temporary
<1>13. HandleInv'
  BY <1>6, <1>7, <1>8, <1>12 DEF LuaInv, HandleInv
<1>14. \A i \in 1 .. n : \A s : s \in scopes'[i].resources <=> s \in scopes[i].resources /\ s # r
  BY <1>2, <1>4, <1>5, <1>6
<1>15. TempInv'
  BY <1>2, <1>5, <1>7, <1>14 DEF LuaInv, TempInv
<1>16. DeferredInv'
  <2>1. \A q \in Owners : owner[q].deferred \subseteq Resources \ {r}
    BY <1>6, OwnerTypes DEF LuaInv
  <2> QED BY <1>7, <1>8, <1>12, <2>1 DEF LuaInv, DeferredInv
<1>17. BorrowInv'
  <2> SUFFICES ASSUME NEW i \in 1 .. n, NEW s \in scopes[i].borrowed
               PROVE  /\ res[s].owner = scopes[i].owner
                      /\ handle'[s] # None \/ s \in owner[scopes[i].owner].deferred
    BY <1>5, <1>7 DEF BorrowInv
  <2>1. s \in Resources /\ s # r
    BY <1>2, <1>6, ScopeTypes DEF LuaInv
  <2>2. res[s].owner = scopes[i].owner /\ (handle[s] # None \/ s \in owner[scopes[i].owner].deferred)
    BY <1>2 DEF LuaInv, BorrowInv
  <2> QED BY <1>8, <2>1, <2>2
<1>18. HeldInv'
  BY <1>3, <1>7, <1>8, <1>12 DEF LuaInv, HeldInv
<1> QED BY <1>9, <1>10, <1>11, <1>13, <1>15, <1>16, <1>17, <1>18 DEF LuaInv

LEMMA BorrowHandleInv ==
    ASSUME LuaInv, NEW r \in Resources, Borrow(r) PROVE LuaInv'
<1>1. PICK o \in Owners : o = Top.owner
  BY TopFacts DEF LuaInv, Borrow, InMethod
<1>2. PICK n \in Nat : n = Len(scopes) /\ n \in 1 .. n /\ scopes[n] = Top
  BY TopFacts DEF LuaInv, Borrow, InMethod, Top
<1>3. owner[o].mem = "live" /\ handle[r] # None /\ handle[r] = owner[o].ctx
  BY <1>1, TopOwnerLives DEF Borrow, InMethod
<1>4. res[r].mem = "live" /\ res[r].owner = o
  <2>1. PICK p \in Owners : /\ p = res[r].owner /\ owner[p].mem = "live"
                            /\ handle[r] = owner[p].ctx /\ res[r].mem = "live"
    BY <1>3, CloseHandleFacts
  <2> QED BY <1>3, <2>1 DEF LuaInv, AddrInv
<1>5. PICK B \in SUBSET Resources : B = Top.borrowed \cup {r}
  BY TopFacts DEF LuaInv, Borrow, InMethod
<1>6. /\ scopes' \in Seq(Scope) /\ Len(scopes') = n
      /\ \A i \in 1 .. n :
           /\ scopes'[i].owner = scopes[i].owner /\ scopes'[i].resources = scopes[i].resources
           /\ scopes'[i].borrowed = IF i = n THEN B ELSE scopes[i].borrowed
  <2>1. PICK t \in Scope : /\ t = [Top EXCEPT !.borrowed = B] /\ t.borrowed = B
                           /\ t.owner = Top.owner /\ t.resources = Top.resources
    <3>1. Top \in Scope
      BY TopFacts DEF LuaInv, Borrow, InMethod
    <3> QED BY <3>1, ScopeFields, ZenonT(60)
  <2>2. SetTop(t)
    BY <1>5, <2>1 DEF Borrow
  <2>3. /\ scopes' \in Seq(Scope) /\ Len(scopes') = n
        /\ \A i \in 1 .. n : scopes'[i] = IF i = n THEN t ELSE scopes[i]
    BY <1>2, <2>2, SetTopFacts DEF LuaInv, Borrow, InMethod
  <2> QED BY <1>2, <2>1, <2>3
<1>7. owner' = owner /\ client' = client /\ res' = res /\ handle' = handle /\ freed' = FALSE
  BY <1>1, <1>3, <1>4 DEF Borrow, Uses, LuaInv
<1>8. TypeOK' /\ ~freed'
  BY <1>6, <1>7 DEF LuaInv, TypeOK
<1>9. \A q : LiveOf(q)' = LiveOf(q) /\ ScopesOf(q)' = ScopesOf(q)
  BY <1>2, <1>6, <1>7 DEF LiveOf, ScopesOf
<1>10. \A s : Temporary(s)' <=> Temporary(s)
  BY <1>2, <1>6 DEF Temporary
<1>11. RefsInv'
  BY <1>7, <1>9 DEF LuaInv, RefsInv
<1>12. AddrInv' /\ HandleInv' /\ DeferredInv' /\ HeldInv'
  BY <1>7, <1>10 DEF LuaInv, AddrInv, HandleInv, DeferredInv, HeldInv
<1>13. TempInv'
  BY <1>2, <1>6, <1>7 DEF LuaInv, TempInv
<1>14. BorrowInv'
  <2> SUFFICES ASSUME NEW i \in 1 .. n, NEW s \in scopes'[i].borrowed
               PROVE  /\ res[s].owner = scopes[i].owner
                      /\ handle[s] # None \/ s \in owner[scopes[i].owner].deferred
    BY <1>6, <1>7 DEF BorrowInv
  <2>1. CASE s \in scopes[i].borrowed
    BY <1>2, <2>1 DEF LuaInv, BorrowInv
  <2>2. CASE s \notin scopes[i].borrowed
    <3>1. i = n /\ s = r
      BY <1>2, <1>5, <1>6, <2>2
    <3> QED BY <1>1, <1>2, <1>3, <1>4, <3>1
  <2> QED BY <2>1, <2>2
<1> QED BY <1>8, <1>11, <1>12, <1>13, <1>14 DEF LuaInv

LEMMA DestroyTemporaryInv ==
    ASSUME LuaInv, NEW r \in Resources, DestroyTemporary(r) PROVE LuaInv'
<1>1. PICK o \in Owners : o = Top.owner
  BY TopFacts DEF LuaInv, DestroyTemporary, InMethod
<1>2. PICK n \in Nat : n = Len(scopes) /\ n \in 1 .. n /\ scopes[n] = Top
  BY TopFacts DEF LuaInv, DestroyTemporary, InMethod, Top
<1>3. owner[o].mem = "live" /\ owner[o] \in Owner
  BY <1>1, TopOwnerLives DEF DestroyTemporary, InMethod
<1>4. PICK R \in SUBSET Resources : R = Top.resources \ {r}
  BY TopFacts DEF LuaInv, DestroyTemporary, InMethod
<1>5. /\ scopes' \in Seq(Scope) /\ Len(scopes') = n
      /\ \A i \in 1 .. n :
           /\ scopes'[i].owner = scopes[i].owner /\ scopes'[i].borrowed = scopes[i].borrowed
           /\ scopes'[i].resources = IF i = n THEN R ELSE scopes[i].resources
      /\ \A q : ScopesOf(q)' = ScopesOf(q)
  <2>1. SetTop([Top EXCEPT !.resources = R])
    BY <1>4 DEF DestroyTemporary
  <2> QED BY <1>2, <2>1, SetResources DEF LuaInv, DestroyTemporary, InMethod
<1>6. /\ res[r].mem = "live" /\ res[r].owner = o /\ r \in LiveOf(o)
      /\ handle[r] = None /\ \A q \in Owners : r \notin owner[q].deferred
      /\ \A i \in 1 .. n : r \notin scopes[i].borrowed
      /\ \A i \in 1 .. n : r \in scopes[i].resources => i = n
  BY <1>1, <1>2, TemporaryFacts DEF DestroyTemporary, InMethod
<1>7. client' = client /\ handle' = handle /\ freed' = FALSE
  BY <1>1, <1>3, <1>6 DEF DestroyTemporary, Uses, LuaInv
<1>8. PICK w \in Owner : /\ owner' = [owner EXCEPT ![o] = w]
        /\ w.refs = owner[o].refs - 1
        /\ w.mem = (IF owner[o].refs = 1 THEN "freed" ELSE owner[o].mem)
        /\ w.ctx = owner[o].ctx /\ w.active = owner[o].active /\ w.deferred = owner[o].deferred
  <2>0. PICK m \in Int : m = 1
    OBVIOUS
  <2>1. PICK w \in Owner : /\ w = Release(owner[o], m) /\ w.refs = owner[o].refs - m
          /\ w.mem = (IF owner[o].refs = m THEN "freed" ELSE owner[o].mem)
          /\ w.ctx = owner[o].ctx /\ w.active = owner[o].active /\ w.deferred = owner[o].deferred
    BY <1>3, ReleaseFacts
  <2>2. owner' = [owner EXCEPT ![o] = w]
    BY <1>1, <2>0, <2>1 DEF DestroyTemporary
  <2> QED BY <2>0, <2>1, <2>2
<1>9. /\ owner' \in [Owners -> Owner] /\ owner'[o] = w
      /\ \A q \in Owners \ {o} : owner'[q] = owner[q]
  BY <1>8, OwnerUpdated DEF LuaInv
<1>10. /\ res' \in [Resources -> Resource]
       /\ \A s \in Resources : /\ res'[s].owner = res[s].owner
                               /\ res'[s].mem = IF s \in {r} THEN "freed" ELSE res[s].mem
  <2>1. {r} \in SUBSET Resources
    OBVIOUS
  <2> QED BY <2>1, DisposedFacts DEF LuaInv, DestroyTemporary
<1>11. TypeOK' /\ ~freed'
  BY <1>5, <1>7, <1>9, <1>10 DEF LuaInv, TypeOK
<1>12. RefsInv'
  <2>1. {r} \in SUBSET LiveOf(o)
    BY <1>6
  <2>2. Cardinality({r}) = 1
    BY FS_Singleton
  <2>3. PICK l \in Nat, s \in Nat : l = Cardinality(LiveOf(o)) /\ s = Cardinality(ScopesOf(o))
    BY CountsAreFinite DEF LuaInv
  <2>4. /\ Cardinality(LiveOf(o)') = l - 1 /\ Cardinality(LiveOf(o)') \in Nat
        /\ \A q \in Owners \ {o} : LiveOf(q)' = LiveOf(q)
    BY <1>10, <2>1, <2>2, <2>3, LiveDisposed DEF LuaInv
  <2>5. owner[o].refs = (IF client[o] THEN 1 ELSE 0) + l + s /\ owner[o].active = s
    BY <2>3 DEF LuaInv, RefsInv
  <2>6. /\ owner'[o].refs = (IF client[o] THEN 1 ELSE 0) + (l - 1) + s
        /\ owner'[o].active = s /\ (owner'[o].mem = "live" <=> owner'[o].refs # 0)
    BY <1>3, <1>8, <1>9, <2>4, <2>5
  <2>7. owner'[o].refs = (IF client'[o] THEN 1 ELSE 0)
                              + Cardinality(LiveOf(o)') + Cardinality(ScopesOf(o)')
    BY <1>5, <1>7, <2>3, <2>4, <2>6
  <2>8. owner'[o].active = Cardinality(ScopesOf(o)')
    BY <1>5, <2>3, <2>6
  <2> QED BY <1>5, <1>7, <1>9, <2>4, <2>6, <2>7, <2>8, RefsStep DEF LuaInv
<1>13. \A q \in Owners : /\ owner'[q].ctx = owner[q].ctx /\ owner'[q].active = owner[q].active
                         /\ owner'[q].deferred = owner[q].deferred
                         /\ owner'[q].mem = "live" => owner[q].mem = "live"
  BY <1>3, <1>8, <1>9
<1>14. AddrInv'
  BY <1>13 DEF LuaInv, AddrInv
<1>15. ~Temporary(r)' /\ \A s \in Resources \ {r} : Temporary(s)' <=> Temporary(s)
  BY <1>2, <1>4, <1>5, <1>6 DEF Temporary
<1>16. HandleInv'
  BY <1>6, <1>7, <1>10, <1>13, <1>15 DEF LuaInv, HandleInv
<1>17. \A i \in 1 .. n : \A s : s \in scopes'[i].resources <=> s \in scopes[i].resources /\ s # r
  BY <1>2, <1>4, <1>5, <1>6
<1>18. TempInv'
  <2> SUFFICES ASSUME NEW i \in 1 .. n, NEW s \in scopes'[i].resources
               PROVE  /\ res'[s].mem = "live" /\ res'[s].owner = scopes'[i].owner
                      /\ \A j \in 1 .. n : s \in scopes'[j].resources => j = i
    BY <1>5 DEF TempInv
  <2>1. s \in scopes[i].resources /\ s # r /\ s \in Resources
    BY <1>2, <1>17, ScopeTypes DEF LuaInv
  <2>2. /\ res[s].mem = "live" /\ res[s].owner = scopes[i].owner
        /\ \A j \in 1 .. n : s \in scopes[j].resources => j = i
    BY <1>2, <2>1 DEF LuaInv, TempInv
  <2> QED BY <1>5, <1>10, <1>17, <2>1, <2>2
<1>19. DeferredInv'
  <2>1. \A q \in Owners : owner[q].deferred \subseteq Resources \ {r}
    BY <1>6, OwnerTypes DEF LuaInv
  <2> QED BY <1>7, <1>10, <1>13, <1>15, <2>1 DEF LuaInv, DeferredInv
<1>20. BorrowInv'
  <2> SUFFICES ASSUME NEW i \in 1 .. n, NEW s \in scopes[i].borrowed
               PROVE  /\ res'[s].owner = scopes[i].owner
                      /\ handle[s] # None \/ s \in owner'[scopes[i].owner].deferred
    BY <1>5, <1>7 DEF BorrowInv
  <2>1. scopes[i].owner \in Owners /\ s \in Resources /\ s # r
    BY <1>2, <1>6, ScopeTypes DEF LuaInv
  <2>2. res[s].owner = scopes[i].owner /\ (handle[s] # None \/ s \in owner[scopes[i].owner].deferred)
    BY <1>2 DEF LuaInv, BorrowInv
  <2> QED BY <1>10, <1>13, <2>1, <2>2
<1>21. HeldInv'
  <2> SUFFICES ASSUME NEW s \in Resources, res'[s].mem = "live"
               PROVE  \/ handle'[s] # None \/ Temporary(s)'
                      \/ res'[s].owner \in Owners /\ s \in owner'[res'[s].owner].deferred
    BY DEF HeldInv
  <2>1. s # r /\ res[s].mem = "live" /\ res'[s].owner = res[s].owner
    BY <1>10
  <2>2. \/ handle[s] # None \/ Temporary(s)
        \/ res[s].owner \in Owners /\ s \in owner[res[s].owner].deferred
    BY <2>1, Zenon DEF LuaInv, HeldInv
  <2> QED BY <1>7, <1>13, <1>15, <2>1, <2>2
<1> QED BY <1>11, <1>12, <1>14, <1>16, <1>18, <1>19, <1>20, <1>21 DEF LuaInv

-----------------------------------------------------------------------------
(* The end of a method *)

LEMMA DropFacts ==
    ASSUME NEW w \in Owner, NEW n \in Int, NEW d \in SUBSET Resources
    PROVE  /\ Drop(w, n, d) \in Owner
           /\ Drop(w, n, d).refs = w.refs - n /\ Drop(w, n, d).active = w.active - 1
           /\ Drop(w, n, d).mem = IF w.refs = n THEN "freed" ELSE w.mem
           /\ Drop(w, n, d).ctx = w.ctx /\ Drop(w, n, d).deferred = d
<1>1. PICK v \in Owner : /\ v = Release(w, n) /\ v.refs = w.refs - n
                         /\ v.mem = (IF w.refs = n THEN "freed" ELSE w.mem)
                         /\ v.ctx = w.ctx /\ v.active = w.active
  BY ReleaseFacts
<1>2. PICK a \in Int : a = v.active - 1
  BY DEF Owner
<1>3. PICK x : x = Drop(w, n, d) /\ x = [v EXCEPT !.active = a, !.deferred = d]
  <2>1. Drop(w, n, d) = [v EXCEPT !.active = v.active - 1, !.deferred = d]
    BY <1>1, Zenon DEF Drop
  <2> QED BY <1>2, <2>1, Zenon
<1>4. /\ x \in Owner /\ x.refs = v.refs /\ x.active = a /\ x.mem = v.mem
      /\ x.ctx = v.ctx /\ x.deferred = d
  BY <1>3, Zenon DEF Owner
<1> QED BY <1>1, <1>2, <1>3, <1>4

(* When one method runs on an owner it is the innermost. *)
LEMMA OnlyMethod ==
    ASSUME LuaInv, scopes # <<>>, NEW o \in Owners, o = Top.owner, owner[o].active = 1
    PROVE  ScopesOf(o) = {Len(scopes)}
<1>1. Len(scopes) \in ScopesOf(o)
  BY TopOwnerLives
<1>2. Cardinality(ScopesOf(o)) = 1 /\ IsFiniteSet(ScopesOf(o))
  BY CountsAreFinite DEF LuaInv, RefsInv
<1>3. PICK x : ScopesOf(o) = {x}
  BY <1>2, FS_Singleton
<1> QED BY <1>1, <1>3

LEMMA LeaveInv ==
    ASSUME LuaInv, Leave PROVE LuaInv'
<1>0. scopes # <<>>
  BY DEF Leave
<1>1. PICK o \in Owners : o = Top.owner
  BY <1>0, TopFacts DEF LuaInv
<1>2. PICK n \in Nat : /\ n = Len(scopes) /\ n \in 1 .. n /\ scopes[n] = Top
                       /\ n \in ScopesOf(o)
  BY <1>0, <1>1, TopFacts, TopOwnerLives DEF LuaInv, Top
<1>3. /\ owner[o].mem = "live" /\ owner[o] \in Owner
      /\ owner[o].deferred \subseteq Resources /\ Top.resources \subseteq Resources
  BY <1>0, <1>1, TopFacts, TopOwnerLives, OwnerTypes DEF LuaInv
<1>4. PICK rs \in SUBSET Resources, d \in SUBSET Resources :
        /\ rs = Top.resources \cup (IF owner[o].active = 1 THEN owner[o].deferred ELSE {})
        /\ d = IF owner[o].active = 1 THEN {} ELSE owner[o].deferred
  BY <1>3
<1>5. /\ res' = Disposed(rs)
      /\ owner' = [owner EXCEPT ![o] = Drop(owner[o], Cardinality(rs) + 1, d)]
      /\ Uses(o, rs \cup Top.borrowed)
      /\ scopes' = SubSeq(scopes, 1, Len(scopes) - 1) /\ client' = client /\ handle' = handle
  BY <1>1, <1>4 DEF Leave
<1>6. rs \subseteq LiveOf(o)
  <2>1. Top.resources \subseteq LiveOf(o)
    BY <1>0, <1>1, TemporaryFacts
  <2>2. owner[o].deferred \subseteq LiveOf(o)
    BY <1>3 DEF LuaInv, DeferredInv, LiveOf
  <2> QED BY <1>4, <2>1, <2>2
<1>7. PICK k \in Nat : k = Cardinality(rs)
  BY <1>6, CountsAreFinite, FS_Subset, FS_CardinalityType DEF LuaInv
<1>8. PICK w \in Owner : /\ owner' = [owner EXCEPT ![o] = w]
        /\ w.refs = owner[o].refs - (k + 1) /\ w.active = owner[o].active - 1
        /\ w.mem = (IF owner[o].refs = k + 1 THEN "freed" ELSE owner[o].mem)
        /\ w.ctx = owner[o].ctx /\ w.deferred = d
  <2>1. PICK m \in Int : m = k + 1
    OBVIOUS
  <2>2. PICK w \in Owner : /\ w = Drop(owner[o], m, d)
          /\ w.refs = owner[o].refs - m /\ w.active = owner[o].active - 1
          /\ w.mem = (IF owner[o].refs = m THEN "freed" ELSE owner[o].mem)
          /\ w.ctx = owner[o].ctx /\ w.deferred = d
    BY <1>3, DropFacts
  <2>3. owner' = [owner EXCEPT ![o] = w]
    BY <1>5, <1>7, <2>1, <2>2
  <2> QED BY <2>1, <2>2, <2>3
<1>9. /\ owner' \in [Owners -> Owner] /\ owner'[o] = w
      /\ \A q \in Owners \ {o} : owner'[q] = owner[q]
  BY <1>8, OwnerUpdated DEF LuaInv
<1>10. /\ res' \in [Resources -> Resource]
       /\ \A s \in Resources : /\ res'[s].owner = res[s].owner
                               /\ res'[s].mem = IF s \in rs THEN "freed" ELSE res[s].mem
  BY <1>5, DisposedFacts DEF LuaInv
<1>11. /\ scopes' \in Seq(Scope) /\ n # 0 /\ Len(scopes') = n - 1
       /\ \A i \in 1 .. (n - 1) : scopes'[i] = scopes[i]
  BY <1>0, <1>2, <1>5, PopFacts DEF LuaInv
<1>12. \A i : i \in 1 .. (n - 1) <=> i \in 1 .. n /\ i # n
  BY <1>2
<1>13. freed' = FALSE
  <2>1. \A s \in Top.borrowed : res[s].mem = "live"
    <3> SUFFICES ASSUME NEW s \in Top.borrowed PROVE res[s].mem = "live"
      OBVIOUS
    <3>1. s \in Resources
      BY <1>0, TopFacts DEF LuaInv
    <3>2. handle[s] # None \/ s \in owner[o].deferred
      BY <1>1, <1>2 DEF LuaInv, BorrowInv
    <3> QED BY <3>1, <3>2 DEF LuaInv, HandleInv, DeferredInv
  <2>2. \A s \in rs : res[s].mem = "live"
    BY <1>6 DEF LiveOf
  <2> QED BY <1>3, <1>5, <2>1, <2>2 DEF Uses, LuaInv
<1>14. TypeOK' /\ ~freed'
  BY <1>5, <1>9, <1>10, <1>11, <1>13 DEF LuaInv, TypeOK
<1>15. RefsInv'
  <2>1. ScopesOf(o)' = ScopesOf(o) \ {n} /\ \A q \in Owners \ {o} : ScopesOf(q)' = ScopesOf(q)
    BY <1>1, <1>2, <1>11, <1>12 DEF ScopesOf
  <2>2. PICK l \in Nat, s \in Nat : l = Cardinality(LiveOf(o)) /\ s = Cardinality(ScopesOf(o))
    BY CountsAreFinite DEF LuaInv
  <2>3. /\ Cardinality(LiveOf(o)') = l - k /\ Cardinality(LiveOf(o)') \in Nat
        /\ \A q \in Owners \ {o} : LiveOf(q)' = LiveOf(q)
    BY <1>6, <1>7, <1>10, <2>2, LiveDisposed DEF LuaInv
  <2>4. Cardinality(ScopesOf(o)') = s - 1 /\ s # 0
    <3>1. IsFiniteSet(ScopesOf(o)) /\ ScopesOf(o) # {}
      BY <1>2, CountsAreFinite DEF LuaInv
    <3>2. s # 0
      BY <2>2, <3>1, NothingCounted DEF LuaInv
    <3>3. Cardinality(ScopesOf(o) \ {n}) = s - 1
      BY <1>2, <2>2, <3>1, FS_RemoveElement
    <3> QED BY <2>1, <3>2, <3>3
  <2>5. owner[o].refs = (IF client[o] THEN 1 ELSE 0) + l + s /\ owner[o].active = s
    BY <2>2 DEF LuaInv, RefsInv
  <2>6. /\ owner'[o].refs = (IF client[o] THEN 1 ELSE 0) + (l - k) + (s - 1)
        /\ owner'[o].active = s - 1 /\ (owner'[o].mem = "live" <=> owner'[o].refs # 0)
    BY <1>3, <1>8, <1>9, <2>3, <2>4, <2>5
  <2>7. owner'[o].refs = (IF client'[o] THEN 1 ELSE 0)
                              + Cardinality(LiveOf(o)') + Cardinality(ScopesOf(o)')
    BY <1>5, <2>3, <2>4, <2>6
  <2>8. owner'[o].active = Cardinality(ScopesOf(o)')
    BY <2>4, <2>6
  <2> QED BY <1>5, <1>9, <2>1, <2>3, <2>6, <2>7, <2>8, RefsStep DEF LuaInv
<1>16. \A q \in Owners : /\ owner'[q].ctx = owner[q].ctx
                         /\ owner'[q].deferred = IF q = o THEN d ELSE owner[q].deferred
                         /\ owner'[q].mem = "live" => owner[q].mem = "live"
  BY <1>3, <1>8, <1>9
<1>17. AddrInv'
  BY <1>16 DEF LuaInv, AddrInv
<1>18. \A s : Temporary(s)' <=> \E i \in 1 .. n : i # n /\ s \in scopes[i].resources
  BY <1>11, <1>12 DEF Temporary
<1>19. HandleInv'
  <2>1. \A s \in Resources : handle[s] # None => s \notin rs
    BY <1>0, <1>1, <1>4, TemporaryFacts, CloseHandleFacts
  <2>2. \A s : Temporary(s)' => Temporary(s)
    BY <1>2, <1>18 DEF Temporary
  <2> QED BY <1>5, <1>10, <1>16, <2>1, <2>2 DEF LuaInv, HandleInv
<1>20. TempInv'
  <2> SUFFICES ASSUME NEW i \in 1 .. n, i # n, NEW s \in scopes[i].resources
               PROVE  /\ res'[s].mem = "live" /\ res'[s].owner = scopes[i].owner
                      /\ \A j \in 1 .. n : j # n /\ s \in scopes[j].resources => j = i
    BY <1>11, <1>12 DEF TempInv
  <2>1. /\ res[s].mem = "live" /\ res[s].owner = scopes[i].owner /\ s \in Resources
        /\ \A j \in 1 .. n : s \in scopes[j].resources => j = i
    BY <1>2, ScopeTypes DEF LuaInv, TempInv
  <2>2. s \notin Top.resources
    BY <1>2, <2>1
  <2>3. s \notin owner[o].deferred
    BY <1>2 DEF LuaInv, DeferredInv, Temporary
  <2>4. s \notin rs
    BY <1>4, <2>2, <2>3
  <2> QED BY <1>10, <2>1, <2>4
<1>21. DeferredInv'
  <2> SUFFICES ASSUME NEW q \in Owners, NEW s \in owner'[q].deferred
               PROVE  /\ res'[s].mem = "live" /\ res'[s].owner = q /\ handle[s] = None
                      /\ ~Temporary(s)' /\ owner'[q].active # 0
    BY <1>5 DEF DeferredInv
  <2>1. s \in owner[q].deferred /\ (q = o => owner[o].active # 1)
    BY <1>4, <1>16
  <2>2. /\ res[s].mem = "live" /\ res[s].owner = q /\ handle[s] = None /\ ~Temporary(s)
        /\ owner[q].active # 0 /\ s \in Resources
    BY <2>1, OwnerTypes DEF LuaInv, DeferredInv
  <2>3. s \notin rs
    <3>1. s \notin Top.resources
      BY <1>2, <2>2 DEF Temporary
    <3>2. CASE q = o
      BY <1>4, <2>1, <3>1, <3>2
    <3>3. CASE q # o
      BY <1>6, <2>2, <3>3 DEF LiveOf
    <3> QED BY <3>2, <3>3
  <2>4. ~Temporary(s)'
    BY <1>2, <1>18, <2>2 DEF Temporary
  <2>5. owner'[q].active # 0
    <3>1. CASE q = o
      <4>1. owner[o].active \in Int
        BY <1>3 DEF Owner
      <4> QED BY <1>8, <1>9, <2>1, <3>1, <4>1
    <3>2. CASE q # o
      BY <1>9, <2>2, <3>2
    <3> QED BY <3>1, <3>2
  <2> QED BY <1>10, <2>2, <2>3, <2>4, <2>5
<1>22. BorrowInv'
  <2> SUFFICES ASSUME NEW i \in 1 .. n, i # n, NEW s \in scopes[i].borrowed
               PROVE  /\ res'[s].owner = scopes[i].owner
                      /\ handle[s] # None \/ s \in owner'[scopes[i].owner].deferred
    BY <1>5, <1>11, <1>12 DEF BorrowInv
  <2>1. scopes[i].owner \in Owners /\ s \in Resources
    BY <1>2, ScopeTypes DEF LuaInv
  <2>2. res[s].owner = scopes[i].owner /\ (handle[s] # None \/ s \in owner[scopes[i].owner].deferred)
    BY <1>2 DEF LuaInv, BorrowInv
  <2>3. scopes[i].owner = o => owner[o].active # 1
    BY <1>0, <1>1, <1>2, OnlyMethod DEF ScopesOf
  <2> QED BY <1>4, <1>10, <1>16, <2>1, <2>2, <2>3
<1>23. HeldInv'
  <2> SUFFICES ASSUME NEW s \in Resources, res'[s].mem = "live"
               PROVE  \/ handle'[s] # None \/ Temporary(s)'
                      \/ res'[s].owner \in Owners /\ s \in owner'[res'[s].owner].deferred
    BY DEF HeldInv
  <2>1. s \notin rs /\ res[s].mem = "live" /\ res'[s].owner = res[s].owner
    BY <1>10
  <2>2. \/ handle[s] # None \/ Temporary(s)
        \/ res[s].owner \in Owners /\ s \in owner[res[s].owner].deferred
    BY <2>1, Zenon DEF LuaInv, HeldInv
  <2>3. Temporary(s) => Temporary(s)'
    BY <1>2, <1>4, <1>18, <2>1 DEF Temporary
  <2>4. ASSUME res[s].owner \in Owners, s \in owner[res[s].owner].deferred
        PROVE  s \in owner'[res[s].owner].deferred
    BY <1>4, <1>16, <2>1, <2>4
  <2> QED BY <1>5, <2>1, <2>2, <2>3, <2>4
<1> QED BY <1>14, <1>15, <1>17, <1>19, <1>20, <1>21, <1>22, <1>23 DEF LuaInv

-----------------------------------------------------------------------------
(* The theorems *)

LEMMA NextLua == LuaInv /\ [Next]_vars => LuaInv'
<1> SUFFICES ASSUME LuaInv, [Next]_vars PROVE LuaInv'
  OBVIOUS
<1>1. CASE \E o \in Owners : \/ \E a \in Addrs : NewClient(o, a)
                             \/ CloseClient(o) \/ EnterClient(o)
  BY <1>1, NewClientInv, CloseClientInv, EnterClientInv
<1>2. CASE \E r \in Resources : CloseHandle(r) \/ EnterHandle(r) \/ Track(r)
  BY <1>2, CloseHandleInv, EnterHandleInv, TrackInv
<1>3. CASE \E r \in Resources : Take(r) \/ DestroyTemporary(r) \/ Borrow(r)
  BY <1>3, TakeInv, DestroyTemporaryInv, BorrowHandleInv
<1>4. CASE Leave
  BY <1>4, LeaveInv
<1>5. CASE UNCHANGED vars
  BY <1>5 DEF vars, LuaInv, TypeOK, RefsInv, AddrInv, HandleInv, TempInv, DeferredInv,
             BorrowInv, HeldInv, LiveOf, ScopesOf, Temporary
<1> QED BY <1>1, <1>2, <1>3, <1>4, <1>5 DEF Next

LEMMA LuaInvariant == Spec => []LuaInv
  BY InitLua, NextLua, PTL DEF Spec

(* Whatever a callback closes, and however methods nest, lua_lql_guard_method *)
(* and lua_lql_resource_close keep what a method on the stack holds: no       *)
(* receiver or resource is used after it is freed, or freed twice.            *)
THEOREM LuaMethodsUseLiveObjects == Spec => []MethodsUseLiveObjects
<1>1. LuaInv => MethodsUseLiveObjects
  <2> SUFFICES ASSUME LuaInv PROVE MethodsUseLiveObjects
    OBVIOUS
  <2>1. Len(scopes) \in Nat /\ DOMAIN scopes = 1 .. Len(scopes)
    BY DEF LuaInv, TypeOK
  <2>2. \A r \in Resources : InUse(r) => res[r].mem = "live"
    <3> SUFFICES ASSUME NEW r \in Resources, NEW i \in 1 .. Len(scopes),
                        r \in scopes[i].resources \/ r \in scopes[i].borrowed
                 PROVE  res[r].mem = "live"
      BY <2>1 DEF InUse
    <3>1. scopes[i].owner \in Owners
      BY ScopeTypes DEF LuaInv
    <3>2. CASE r \in scopes[i].resources
      BY <3>2 DEF LuaInv, TempInv
    <3>3. CASE r \in scopes[i].borrowed
      BY <3>1, <3>3 DEF LuaInv, BorrowInv, HandleInv, DeferredInv
    <3> QED BY <3>2, <3>3
  <2>3. ASSUME NEW i \in 1 .. Len(scopes) PROVE owner[scopes[i].owner].mem = "live"
    <3>1. scopes[i].owner \in Owners /\ i \in ScopesOf(scopes[i].owner)
      BY ScopeTypes DEF LuaInv, ScopesOf
    <3> QED BY <3>1, UsedOwner DEF LuaInv
  <2> QED BY <2>1, <2>2, <2>3 DEF LuaInv, MethodsUseLiveObjects
<1> QED BY <1>1, LuaInvariant, PTL

(* The counts kept by lua_lql_track_native, lua_lql_guard_method and           *)
(* lua_lql_owner_release end a receiver exactly with its last user: the client,*)
(* its resources and the methods that run on it.                               *)
THEOREM LuaOwnerLivesWithItsUsers == Spec => []OwnerLivesWithItsUsers
<1>1. LuaInv => OwnerLivesWithItsUsers
  <2> SUFFICES ASSUME LuaInv, NEW o \in Owners
               PROVE  owner[o].mem = "live" <=>
                        \/ client[o]
                        \/ \E r \in Resources : res[r].owner = o /\ res[r].mem = "live"
                        \/ \E i \in DOMAIN scopes : scopes[i].owner = o
    BY DEF OwnerLivesWithItsUsers
  <2>1. DOMAIN scopes = 1 .. Len(scopes)
    BY DEF LuaInv, TypeOK
  <2>2. owner[o].mem = "live" <=> client[o] \/ LiveOf(o) # {} \/ ScopesOf(o) # {}
    BY UsedOwner DEF LuaInv
  <2>3. LiveOf(o) # {} <=> \E r \in Resources : res[r].owner = o /\ res[r].mem = "live"
    BY DEF LiveOf
  <2>4. ScopesOf(o) # {} <=> \E i \in DOMAIN scopes : scopes[i].owner = o
    BY <2>1 DEF ScopesOf
  <2> QED BY <2>2, <2>3, <2>4
<1> QED BY <1>1, LuaInvariant, PTL

(* Nothing leaks through lua_lql_take_native, lua_lql_resource_close and       *)
(* lua_lql_scope_cleanup, and no open handle loses its resource: what is alive *)
(* is exactly what a handle, a method or the list of deferred ends holds.      *)
THEOREM LuaResourcesAreHeld == Spec => []ResourcesAreHeld
<1>1. LuaInv => ResourcesAreHeld
  <2> SUFFICES ASSUME LuaInv, NEW r \in Resources
               PROVE  res[r].mem = "live" <=>
                        \/ handle[r] # None
                        \/ \E i \in DOMAIN scopes : r \in scopes[i].resources
                        \/ \E i \in DOMAIN scopes :
                             scopes[i].owner = res[r].owner /\ r \in owner[scopes[i].owner].deferred
    BY DEF ResourcesAreHeld
  <2>1. Len(scopes) \in Nat /\ DOMAIN scopes = 1 .. Len(scopes)
    BY DEF LuaInv, TypeOK
  <2>2. ASSUME res[r].owner \in Owners, r \in owner[res[r].owner].deferred
        PROVE  \E i \in 1 .. Len(scopes) : scopes[i].owner = res[r].owner
    <3>1. PICK o \in Owners : o = res[r].owner
      BY <2>2
    <3>2. owner[o].active # 0
      BY <2>2, <3>1 DEF LuaInv, DeferredInv
    <3>3. ScopesOf(o) # {}
      BY <3>2, NothingCounted DEF LuaInv, RefsInv
    <3> QED BY <3>1, <3>3 DEF ScopesOf
  <2>3. ASSUME res[r].mem = "live"
        PROVE  \/ handle[r] # None \/ Temporary(r)
               \/ res[r].owner \in Owners /\ r \in owner[res[r].owner].deferred
    BY <2>3, Zenon DEF LuaInv, HeldInv
  <2>4. ASSUME NEW i \in 1 .. Len(scopes), r \in owner[scopes[i].owner].deferred
        PROVE  res[r].mem = "live"
    <3>1. scopes[i].owner \in Owners
      BY ScopeTypes DEF LuaInv
    <3> QED BY <2>4, <3>1 DEF LuaInv, DeferredInv
  <2>5. handle[r] # None \/ Temporary(r) => res[r].mem = "live"
    BY DEF LuaInv, HandleInv, TempInv, Temporary
  <2> QED BY <2>1, <2>2, <2>3, <2>4, <2>5 DEF Temporary
<1> QED BY <1>1, LuaInvariant, PTL

(* lua_lql_selector_arg and its like may compare the addresses of receivers:   *)
(* an address is free for another receiver only when no handle carries it.     *)
THEOREM LuaAddressIdentifiesClient == Spec => []AddressIdentifiesClient
<1>1. LuaInv => AddressIdentifiesClient
  <2> SUFFICES ASSUME LuaInv, NEW r \in Resources, NEW o \in Owners,
                      handle[r] # None, owner[o].mem = "live", owner[o].ctx = handle[r]
               PROVE  res[r].owner = o
    BY DEF AddressIdentifiesClient
  <2>1. PICK p \in Owners : p = res[r].owner /\ owner[p].mem = "live" /\ handle[r] = owner[p].ctx
    BY CloseHandleFacts
  <2> QED BY <2>1 DEF LuaInv, AddrInv
<1> QED BY <1>1, LuaInvariant, PTL
=============================================================================
