---------------------------- MODULE LuaLifetime ----------------------------
(***************************************************************************)
(* Ownership in the Lua facade (lua/lql_lifetime.h and the finalizers and  *)
(* argument checks of lua/lql_core.c).                                     *)
(*                                                                         *)
(* A client userdata owns a receiver through a counted owner; selectors,   *)
(* projections and mutations are resources of the owner.  Every method     *)
(* runs in a scope that holds its owner, its temporaries and the handles   *)
(* it borrows.  A callback of a method is Lua code: it may close any       *)
(* client or handle, or enter further methods, before the method goes on   *)
(* to use what it borrowed.                                                *)
(***************************************************************************)
EXTENDS Integers, Sequences, FiniteSets

CONSTANTS
    Owners,      \* clients that may be created, with their owners
    Resources,   \* native handles that may be created
    Addrs,       \* addresses of receivers; a freed one may be used again
    MaxDepth,    \* bound: nested methods
    None

ASSUME LuaAssumption ==
    /\ IsFiniteSet(Owners) /\ IsFiniteSet(Resources)
    /\ MaxDepth \in Nat
    /\ None \notin Owners \cup Resources \cup Addrs

BorrowLimit == 4

VARIABLES
    owner,    \* lua_lql_owner of each client
    client,   \* client->owner is set
    res,      \* lua_lql_resource
    handle,   \* handle->ctx of the userdata of a resource, None when closed
    scopes,   \* the stack of lua_lql_scope, the innermost last
    freed     \* history: something freed was used or freed again

vars == <<owner, client, res, handle, scopes, freed>>

Owner == [mem : {"none", "live", "freed"}, ctx : Addrs \cup {None}, refs : Int,
          active : Int, closed : BOOLEAN, deferred : SUBSET Resources]

Resource == [mem : {"none", "live", "freed"}, owner : Owners \cup {None},
             closed : BOOLEAN]

Scope == [owner : Owners, usable : BOOLEAN, resources : SUBSET Resources,
          borrowed : SUBSET Resources]

TypeOK ==
    /\ owner \in [Owners -> Owner]
    /\ client \in [Owners -> BOOLEAN]
    /\ res \in [Resources -> Resource]
    /\ handle \in [Resources -> Addrs \cup {None}]
    /\ scopes \in Seq(Scope)
    /\ freed \in BOOLEAN

Init ==
    /\ owner = [o \in Owners |-> [mem |-> "none", ctx |-> None, refs |-> 0,
                                  active |-> 0, closed |-> FALSE, deferred |-> {}]]
    /\ client = [o \in Owners |-> FALSE]
    /\ res = [r \in Resources |-> [mem |-> "none", owner |-> None, closed |-> FALSE]]
    /\ handle = [r \in Resources |-> None]
    /\ scopes = <<>>
    /\ freed = FALSE

-----------------------------------------------------------------------------
(* lua_lql_owner_release, n times: the last reference destroys the receiver  *)
(* and the owner                                                             *)
Release(w, n) ==
    [w EXCEPT !.refs = @ - n, !.mem = IF w.refs = n THEN "freed" ELSE @]

(* a method starts on an owner *)
Hold(w) == [w EXCEPT !.refs = @ + 1, !.active = @ + 1]

(* a method ends on an owner, and n - 1 resources of it *)
Drop(w, n, deferred) == [Release(w, n) EXCEPT !.active = @ - 1, !.deferred = deferred]

(* lua_lql_resource_dispose for each of the resources *)
Disposed(rs) == [r \in Resources |-> IF r \in rs THEN [res[r] EXCEPT !.mem = "freed"] ELSE res[r]]

(* the owner or a resource is used *)
Uses(o, rs) ==
    freed' = (freed \/ owner[o].mem # "live" \/ \E r \in rs : res[r].mem # "live")

Top == scopes[Len(scopes)]

InMethod == scopes # <<>> /\ Top.usable

SetTop(scope) == scopes' = [scopes EXCEPT ![Len(scopes)] = scope]

-----------------------------------------------------------------------------
(* lua_lql_new *)
NewClient(o, a) ==
    /\ owner[o].mem = "none"
    /\ \A p \in Owners : owner[p].mem = "live" => owner[p].ctx # a
    /\ owner' = [owner EXCEPT ![o] = [@ EXCEPT !.mem = "live", !.ctx = a, !.refs = 1]]
    /\ client' = [client EXCEPT ![o] = TRUE]
    /\ UNCHANGED <<res, handle, scopes, freed>>

(* mutant: closing the client destroys the receiver *)
MutantCloseClient(o) ==
    /\ client[o]
    /\ client' = [client EXCEPT ![o] = FALSE]
    /\ owner' = [owner EXCEPT ![o] = [Release(@, @.refs) EXCEPT !.closed = TRUE]]
    /\ Uses(o, {})
    /\ UNCHANGED <<res, handle, scopes>>

(* lua_lql_client_gc, by close, __close or the collector *)
CloseClient(o) ==
    /\ client[o]
    /\ client' = [client EXCEPT ![o] = FALSE]
    /\ owner' = [owner EXCEPT ![o] = [Release(@, 1) EXCEPT !.closed = TRUE]]
    /\ Uses(o, {})
    /\ UNCHANGED <<res, handle, scopes>>

(* mutant: the resource is disposed of at once *)
MutantCloseHandle(r) ==
    LET o == res[r].owner
    IN  /\ handle[r] # None
        /\ handle' = [handle EXCEPT ![r] = None]
        /\ res' = [Disposed({r}) EXCEPT ![r].closed = TRUE]
        /\ owner' = [owner EXCEPT ![o] = Release(@, 1)]
        /\ Uses(o, {r})
        /\ UNCHANGED <<client, scopes>>

(* the finalizer of a handle: lua_lql_resource_close defers the end of a     *)
(* resource while its owner runs a method                                    *)
CloseHandle(r) ==
    LET o == res[r].owner
    IN  /\ handle[r] # None
        /\ handle' = [handle EXCEPT ![r] = None]
        /\ IF owner[o].active # 0
           THEN /\ res' = [res EXCEPT ![r].closed = TRUE]
                /\ owner' = [owner EXCEPT ![o].deferred = @ \cup {r}]
           ELSE /\ res' = [Disposed({r}) EXCEPT ![r].closed = TRUE]
                /\ owner' = [owner EXCEPT ![o] = Release(@, 1)]
        /\ Uses(o, {r})
        /\ UNCHANGED <<client, scopes>>

-----------------------------------------------------------------------------
(* lua_lql_guard_method *)

(* mutant: the scope does not hold its owner *)
MutantEnter(o, borrowed) ==
    /\ Len(scopes) < MaxDepth
    /\ owner' = [owner EXCEPT ![o].active = @ + 1]
    /\ scopes' = Append(scopes, [owner |-> o, usable |-> ~owner[o].closed,
                                 resources |-> {}, borrowed |-> borrowed])
    /\ Uses(o, borrowed)
    /\ UNCHANGED <<client, res, handle>>

(* the argument check of the method rejects a closed owner *)
Enter(o, borrowed) ==
    /\ Len(scopes) < MaxDepth
    /\ owner' = [owner EXCEPT ![o] = Hold(@)]
    /\ scopes' = Append(scopes, [owner |-> o, usable |-> ~owner[o].closed,
                                 resources |-> {}, borrowed |-> borrowed])
    /\ Uses(o, borrowed)
    /\ UNCHANGED <<client, res, handle>>

EnterClient(o) == client[o] /\ Enter(o, {})

EnterHandle(r) == handle[r] # None /\ Enter(res[r].owner, {r})

(* lua_lql_track_native: a native handle becomes a temporary of the scope.   *)
(* When that fails the native handle is destroyed at once.                   *)
Track(r) ==
    /\ InMethod
    /\ res[r].mem = "none"
    /\ res' = [res EXCEPT ![r] = [mem |-> "live", owner |-> Top.owner, closed |-> FALSE]]
    /\ owner' = [owner EXCEPT ![Top.owner].refs = @ + 1]
    /\ SetTop([Top EXCEPT !.resources = @ \cup {r}])
    /\ Uses(Top.owner, {})
    /\ UNCHANGED <<client, handle>>

(* lua_lql_take_native: a temporary becomes the resource of a new userdata *)
Take(r) ==
    /\ InMethod /\ r \in Top.resources
    /\ SetTop([Top EXCEPT !.resources = @ \ {r}])
    /\ handle' = [handle EXCEPT ![r] = owner[Top.owner].ctx]
    /\ Uses(Top.owner, {r})
    /\ UNCHANGED <<owner, client, res>>

(* lua_lql_destroy_temporary *)
DestroyTemporary(r) ==
    /\ InMethod /\ r \in Top.resources
    /\ SetTop([Top EXCEPT !.resources = @ \ {r}])
    /\ res' = Disposed({r})
    /\ owner' = [owner EXCEPT ![Top.owner] = Release(@, 1)]
    /\ Uses(Top.owner, {r})
    /\ UNCHANGED <<client, handle>>

(* lua_lql_selector_arg and its like: a handle argument is taken if its      *)
(* receiver has the address of the method's, and borrowed                    *)
Borrow(r) ==
    /\ InMethod
    /\ handle[r] # None /\ handle[r] = owner[Top.owner].ctx
    /\ r \notin Top.borrowed /\ Cardinality(Top.borrowed) < BorrowLimit
    /\ SetTop([Top EXCEPT !.borrowed = @ \cup {r}])
    /\ Uses(Top.owner, {r})
    /\ UNCHANGED <<owner, client, res, handle>>

(* mutant: what was deferred waits for the outermost of all methods *)
MutantLeave ==
    /\ scopes # <<>>
    /\ LET o    == Top.owner
           last == Len(scopes) = 1
           rs   == Top.resources \cup IF last THEN owner[o].deferred ELSE {}
       IN  /\ res' = Disposed(rs)
           /\ owner' = [owner EXCEPT
                          ![o] = Drop(@, Cardinality(rs) + 1, IF last THEN {} ELSE @.deferred)]
           /\ Uses(o, rs \cup Top.borrowed)
    /\ scopes' = SubSeq(scopes, 1, Len(scopes) - 1)
    /\ UNCHANGED <<client, handle>>

(* the method ends: lua_lql_scope_failed looks at what it borrowed, then     *)
(* lua_lql_scope_cleanup ends its temporaries and, with the owner's last     *)
(* method, what was deferred                                                 *)
Leave ==
    /\ scopes # <<>>
    /\ LET o    == Top.owner
           last == owner[o].active = 1
           rs   == Top.resources \cup IF last THEN owner[o].deferred ELSE {}
       IN  /\ res' = Disposed(rs)
           /\ owner' = [owner EXCEPT
                          ![o] = Drop(@, Cardinality(rs) + 1, IF last THEN {} ELSE @.deferred)]
           /\ Uses(o, rs \cup Top.borrowed)
    /\ scopes' = SubSeq(scopes, 1, Len(scopes) - 1)
    /\ UNCHANGED <<client, handle>>

Next ==
    \/ \E o \in Owners :
         \/ \E a \in Addrs : NewClient(o, a)
         \/ CloseClient(o) \/ EnterClient(o)
    \/ \E r \in Resources :
         \/ CloseHandle(r) \/ EnterHandle(r)
         \/ Track(r) \/ Take(r) \/ DestroyTemporary(r) \/ Borrow(r)
    \/ Leave

Spec == Init /\ [][Next]_vars

-----------------------------------------------------------------------------
(* Properties *)

InUse(r) == \E i \in DOMAIN scopes : r \in scopes[i].resources \cup scopes[i].borrowed

(* What a method on the stack holds stays valid until it returns, whatever   *)
(* its callbacks close ("native objects used by an active method remain      *)
(* alive until the outermost method returns", lua/lql_lifetime.h).           *)
MethodsUseLiveObjects ==
    /\ ~freed
    /\ \A r \in Resources : InUse(r) => res[r].mem = "live"
    /\ \A i \in DOMAIN scopes : owner[scopes[i].owner].mem = "live"

(* A receiver is destroyed exactly when nothing refers to it: neither its    *)
(* client, nor a resource made by it, nor a method running on it.            *)
OwnerLivesWithItsUsers ==
    \A o \in Owners : owner[o].mem = "live" <=>
        \/ client[o]
        \/ \E r \in Resources : res[r].owner = o /\ res[r].mem = "live"
        \/ \E i \in DOMAIN scopes : scopes[i].owner = o

(* Nothing leaks and nothing is disposed of under an open handle: a resource *)
(* is alive exactly while it has a handle, is a temporary, or was closed     *)
(* under a method of its owner that has not returned.                        *)
ResourcesAreHeld ==
    \A r \in Resources : res[r].mem = "live" <=>
        \/ handle[r] # None
        \/ \E i \in DOMAIN scopes : r \in scopes[i].resources
        \/ \E i \in DOMAIN scopes :
             scopes[i].owner = res[r].owner /\ r \in owner[scopes[i].owner].deferred

(* Comparing the addresses of receivers tells clients apart: while a handle  *)
(* is open its receiver's address cannot belong to another client.           *)
AddressIdentifiesClient ==
    \A r \in Resources, o \in Owners :
        handle[r] # None /\ owner[o].mem = "live" /\ owner[o].ctx = handle[r] =>
            res[r].owner = o
=============================================================================
