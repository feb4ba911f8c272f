------------------------------ MODULE AuthContext ------------------------------
(***************************************************************************)
(* The authenticated context of a transaction (migration 0003, db/auth.py, *)
(* db/engine.py): pooled connections, ORM sessions that are used again,    *)
(* savepoints, rollbacks and crashes, around one row per backend that      *)
(* says who its transaction is.                                            *)
(*                                                                         *)
(* A session takes a free backend, opens a transaction and presents a      *)
(* credential; row policies and the functions that register, revoke and    *)
(* record read the context from the relation auth_transaction_context.     *)
(* The Python boundary refuses to bind inside a savepoint; a caller that   *)
(* writes its own SQL does not ask it.  A refusal changes nothing (the     *)
(* caller rolls back), so it is the absence of a step.                     *)
(*                                                                         *)
(* What transactions write is a set of records, each with the identity it  *)
(* was written under; for a workspace that is history the table does not   *)
(* keep.  Credentials issued from memberships are in AccountPlane and      *)
(* MembershipPlane; the ones here are issued out of band.                  *)
(***************************************************************************)
EXTENDS Integers, Sequences, FiniteSets

CONSTANTS
    Sessions,       \* ORM sessions
    Provisioners,   \* the sessions on the provisioning role
    RawCallers,     \* sessions whose caller executes SQL of its own
    Backends,       \* pooled connections' backends
    Tenants,        \* tenant ids gen_random_uuid() may yield
    Bindings,       \* binding ids
    Expiring,       \* the bindings registered with an expires_at
    Scopes,         \* the scope catalogue, or a part of it
    Asked,          \* the scope sets callers ask a new credential to carry
    Provisioning,   \* the actions and scopes of the provisioning actor
    MaxXid,         \* bound: transaction ids
    MaxSavepoints,  \* bound: savepoints open at once
    MaxRecords,     \* bound: records a transaction sees when it writes
    None

ASSUME SessionsAssumption == Provisioners \subseteq Sessions /\ RawCallers \subseteq Sessions
ASSUME BindingsAssumption == Expiring \subseteq Bindings
ASSUME ScopesAssumption == Provisioning \subseteq Scopes /\ Asked \subseteq SUBSET Scopes
ASSUME NoneAssumption == None \notin Bindings /\ None \notin Tenants /\ None \notin Backends
ASSUME BoundsAssumption == MaxXid \in Nat /\ MaxSavepoints \in Nat /\ MaxRecords \in Nat

VARIABLES
    book,       \* committed records of all tables
    relation,   \* relation[p]: p's committed row of auth_transaction_context
    nextXid,    \* the next transaction id
    durable,    \* the last transaction id sure to survive a crash
    expired,    \* bindings whose expires_at has passed
    privileged, \* the pool's role escapes row security now
    tx,         \* tx[s]: the session's open transaction
    map         \* map[s]: the tenants whose objects its identity map holds

vars == <<book, relation, nextXid, durable, expired, privileged, tx, map>>

DelegableScopes == Scopes \ {"tenant:provision"}

\* Who a transaction is: a credential, or the provisioning of a new tenant.
Identity == [binding: Bindings \union {None}, tenant: Tenants, scopes: SUBSET Scopes]
Records == [kind: {"tenant", "workspace", "binding", "revocation", "event"}, tenant: Tenants,
            id: Bindings \union {None}, scopes: SUBSET Scopes, by: Identity]
NoRow == [xid |-> 0, who |-> None]
ContextRow == [xid: 0..MaxXid, who: Identity \union {None}]

\* An open transaction: its backend, how it was begun (a stricter isolation
\* level keeps a snapshot), its id once it has one, what it has written, the
\* states its savepoints go back to, and whether the role gained privileges
\* while it ran.
NoTransaction == [on |-> None]
Written == [records: SUBSET Records, context: Identity \union {None}]
Level == {"read committed", "repeatable read", "read only"}
Transaction == [on: Backends, level: Level, snapshot: SUBSET Records, xid: 0..MaxXid,
                own: Written, saves: Seq(Written), overtaken: BOOLEAN]
Nothing == [records |-> {}, context |-> None]

Init ==
    /\ book = {}
    /\ relation = [p \in Backends |-> NoRow]
    /\ nextXid = 1 /\ durable = 0
    /\ expired = {}
    /\ privileged = FALSE
    /\ tx = [s \in Sessions |-> NoTransaction]
    /\ map = [s \in Sessions |-> {}]

-----------------------------------------------------------------------------
(* What a transaction sees. *)

Open(s) == tx[s] # NoTransaction
Seen(s) == (IF tx[s].level = "repeatable read" THEN tx[s].snapshot ELSE book)
               \union tx[s].own.records
Kind(records, kind) == {r \in records : r.kind = kind}

\* auth_context(): this backend's row, if it carries this transaction's id.
Context(s) ==
    IF tx[s].own.context # None THEN tx[s].own.context
    ELSE IF tx[s].xid # 0 /\ relation[tx[s].on].xid = tx[s].xid
         THEN relation[tx[s].on].who
         ELSE None
Holds(s, scope) == Context(s) # None /\ scope \in Context(s).scopes

\* The scopes one of which a row policy asks for, beside the row's tenant.
Policies == [
    tenants    |-> [SELECT |-> {"tenant:read", "tenant:provision"}, INSERT |-> {"tenant:provision"}],
    workspaces |-> [SELECT |-> {"workspace:read"}, INSERT |-> {"workspace:write"}]]
Permits(s, relname, command) == \E scope \in Policies[relname][command] : Holds(s, scope)

\* The ORM's INSERT ... RETURNING is held to the SELECT policy as well.
PermitsReturning(s, relname) == Permits(s, relname, "INSERT") /\ Permits(s, relname, "SELECT")

\* pg_current_xact_id(): assigned at first need.
HasXid(s) == tx[s].xid # 0
Assigned(s) == IF HasXid(s) THEN tx[s].xid ELSE nextXid
TakesXid(s) ==
    /\ HasXid(s) \/ nextXid <= MaxXid
    /\ nextXid' = IF HasXid(s) THEN nextXid ELSE nextXid + 1

\* Mutant: only a row that was committed stops it.
BindsOncePerCommit(s) == relation[tx[s].on].xid # Assigned(s)

\* A row for this backend that carries this transaction's id stops the upsert.
BindsOnce(s) == tx[s].own.context = None /\ relation[tx[s].on].xid # Assigned(s)

BindingRow(b, records) == CHOOSE r \in Kind(records, "binding") : r.id = b
Authenticates(s, b) ==
    /\ \E r \in Kind(Seen(s), "binding") : r.id = b
    /\ ~ \E r \in Kind(Seen(s), "revocation") : r.id = b
    /\ b \notin expired

\* Mutant: any isolation level will do.
RequireNoLevel(s) == Open(s)

\* Acquiring a context writes its row: on a standby, or in a read-only
\* transaction, it is refused before anything is looked up.
RequireWritablePrimary(s) == tx[s].level # "read only"

\* The registry is looked up under the statement's own snapshot, or not at all.
RequireReadCommitted(s) == tx[s].level # "repeatable read"

\* The Python boundary's refuse_inside_savepoint.
OutsideSavepoints(s) == s \in RawCallers \/ tx[s].saves = <<>>

-----------------------------------------------------------------------------
(* Sessions, transactions and savepoints. *)

\* Mutant: the map outlives the transaction, as SQLAlchemy's does unless told.
ClearedNever(s) == UNCHANGED map

\* Every transaction or savepoint that ends empties the identity map.
Cleared(s) == map' = [map EXCEPT ![s] = {}]
Changes(s, t) == tx' = [tx EXCEPT ![s] = t]

\* What the catalogue says of the role: no superuser, no BYPASSRLS, nothing
\* owned, no grant on a protected relation, directly or through a membership.
Unprivileged == ~privileged

\* Asked when a connection is made and again whenever it is checked out.
RevalidateOnCheckout == Unprivileged

Begun(p, level) ==
    [on |-> p, level |-> level, xid |-> 0,
     snapshot |-> IF level = "repeatable read" THEN book ELSE {}, own |-> Nothing,
     saves |-> <<>>, overtaken |-> FALSE]
Begin(s) == \E p \in Backends, level \in Level :
    /\ ~Open(s)
    /\ \A r \in Sessions : tx[r].on # p
    /\ RevalidateOnCheckout
    /\ Changes(s, Begun(p, level))
    /\ UNCHANGED <<book, relation, nextXid, durable, expired, privileged, map>>

Savepoint(s) ==
    /\ Open(s)
    /\ Len(tx[s].saves) < MaxSavepoints
    /\ Changes(s, [tx[s] EXCEPT !.saves = Append(@, tx[s].own)])
    /\ UNCHANGED <<book, relation, nextXid, durable, expired, privileged, map>>

\* A savepoint of the Session's (begin_nested), whose end its listener hears.
EndSavepoint(s, own) ==
    /\ Open(s) /\ tx[s].saves # <<>>
    /\ LET n == Len(tx[s].saves)
       IN  Changes(s, [tx[s] EXCEPT !.own = own, !.saves = SubSeq(@, 1, n - 1)])
    /\ Cleared(s)
    /\ UNCHANGED <<book, relation, nextXid, durable, expired, privileged>>

Release(s) == EndSavepoint(s, tx[s].own)
RollbackToSavepoint(s) == EndSavepoint(s, tx[s].saves[Len(tx[s].saves)])

\* The context row commits with the rest.
CommitTransaction(s) ==
    /\ Open(s)
    /\ book' = book \union tx[s].own.records
    /\ relation' = IF tx[s].own.context = None THEN relation
                   ELSE [relation EXCEPT ![tx[s].on] =
                            [xid |-> tx[s].xid, who |-> tx[s].own.context]]
    /\ durable' = IF tx[s].own.records # {} /\ tx[s].xid > durable THEN tx[s].xid ELSE durable
    /\ Changes(s, NoTransaction)
    /\ Cleared(s)
    /\ UNCHANGED <<nextXid, expired, privileged>>

Abort(s) ==
    /\ Open(s)
    /\ Changes(s, NoTransaction)
    /\ Cleared(s)
    /\ UNCHANGED <<book, relation, nextXid, durable, expired, privileged>>

\* Mutant: the relation is an ordinary, logged table.
CrashedRelationLogged == relation

\* The server crashes: transactions are gone, the unlogged relation is emptied,
\* and ids that left nothing durable may be given again.
CrashedRelation == [p \in Backends |-> NoRow]
Crash ==
    /\ tx' = [s \in Sessions |-> NoTransaction]
    /\ map' = [s \in Sessions |-> {}]
    /\ relation' = CrashedRelation
    /\ nextXid' \in durable + 1..nextXid
    /\ UNCHANGED <<book, durable, expired, privileged>>

-----------------------------------------------------------------------------
(* Acquiring a context. *)

\* note_context_change drops the map when the tenant changes; a raw bind does
\* not pass by it.
NotesContext(s) == IF s \in RawCallers THEN UNCHANGED map ELSE Cleared(s)

Acquires(s, who) ==
    /\ OutsideSavepoints(s)
    /\ RequireWritablePrimary(s) /\ RequireReadCommitted(s)
    /\ TakesXid(s)
    /\ BindsOnce(s)
    /\ Changes(s, [tx[s] EXCEPT !.xid = Assigned(s), !.own.context = who])
    /\ NotesContext(s)
    /\ UNCHANGED <<book, relation, durable, expired, privileged>>

BindAuthenticatedContext(s) == \E b \in Bindings :
    /\ Open(s)
    /\ Authenticates(s, b)
    /\ LET r == BindingRow(b, Seen(s))
       IN  Acquires(s, [binding |-> b, tenant |-> r.tenant, scopes |-> r.scopes])

\* The tenant id is generated in the database: nobody has it.
FreshTenant(t) ==
    /\ \A r \in book : r.tenant # t
    /\ \A s \in Sessions : Open(s) /\ Context(s) # None => Context(s).tenant # t
BeginTenantProvisioning(s) == \E t \in Tenants :
    /\ Open(s) /\ s \in Provisioners
    /\ FreshTenant(t)
    /\ Acquires(s, [binding |-> None, tenant |-> t, scopes |-> Provisioning])

\* Any other statement that needs an id.
AssignXid(s) ==
    /\ Open(s) /\ ~HasXid(s) /\ s \in RawCallers /\ RequireWritablePrimary(s)
    /\ TakesXid(s)
    /\ Changes(s, [tx[s] EXCEPT !.xid = nextXid])
    /\ UNCHANGED <<book, relation, durable, expired, privileged, map>>

-----------------------------------------------------------------------------
(* Acting under it. *)

Rec(s, kind, b, scopes) ==
    [kind |-> kind, tenant |-> Context(s).tenant, id |-> b, scopes |-> scopes, by |-> Context(s)]
Writes(s, records) ==
    /\ Cardinality(Seen(s) \union records) <= MaxRecords
    /\ Changes(s, [tx[s] EXCEPT !.own.records = @ \union records])
    /\ UNCHANGED <<book, relation, nextXid, durable, expired, privileged, map>>
TenantIsThere(s) == \E r \in Kind(Seen(s), "tenant") : r.tenant = Context(s).tenant

CreateTenant(s) ==
    /\ Open(s) /\ PermitsReturning(s, "tenants")
    /\ ~TenantIsThere(s)
    /\ Writes(s, {Rec(s, "tenant", None, {})})

CreateWorkspace(s) ==
    /\ Open(s) /\ PermitsReturning(s, "workspaces") /\ TenantIsThere(s)
    /\ Writes(s, {Rec(s, "workspace", None, {})})

\* Loading objects puts them in the identity map: those the policy shows, or
\* all of them to a role row security does not bind.
Load(s) ==
    /\ Open(s)
    /\ LET all == {r.tenant : r \in Kind(Seen(s), "workspace")}
           shown == IF ~Unprivileged THEN all
                    ELSE {t \in all : Permits(s, "workspaces", "SELECT") /\ t = Context(s).tenant}
       IN  /\ shown # {}
           /\ map' = [map EXCEPT ![s] = @ \union shown]
    /\ UNCHANGED <<book, relation, nextXid, durable, expired, privileged, tx>>

\* Delegation: of the delegable scopes, and of those a credential holds.
RequireDelegable(s, scopes) ==
    /\ scopes \subseteq DelegableScopes
    /\ Context(s).binding = None \/ scopes \subseteq Context(s).scopes
NewBinding(b) ==
    /\ \A r \in book : r.id # b
    /\ \A s \in Sessions : Open(s) => \A r \in tx[s].own.records : r.id # b

\* The Python boundary writes an audit event with the effect; the SQL function
\* alone does not.
Audited(s, b) == IF s \in RawCallers THEN {} ELSE {Rec(s, "event", b, {})}

RegisterAuthBinding(s) == \E b \in Bindings, scopes \in Asked :
    /\ Open(s) /\ Holds(s, "credential:manage") /\ TenantIsThere(s)
    /\ RequireDelegable(s, scopes)
    /\ NewBinding(b)
    /\ Writes(s, {Rec(s, "binding", b, scopes)} \union Audited(s, b))

\* Only a binding of the context's tenant; the update waits for another
\* transaction's, and the attempt is recorded whatever it found.
Revocable(s, b) ==
    /\ \E r \in Kind(Seen(s), "binding") : r.id = b /\ r.tenant = Context(s).tenant
    /\ ~ \E r \in Kind(Seen(s), "revocation") : r.id = b
RevokeAuthBinding(s) == \E b \in Bindings :
    /\ Open(s) /\ Holds(s, "credential:manage")
    /\ \A o \in Sessions \ {s} : Open(o) => \A r \in Kind(tx[o].own.records, "revocation") : r.id # b
    /\ Writes(s, IF Revocable(s, b) THEN {Rec(s, "revocation", b, {})} \union Audited(s, b)
                 ELSE Audited(s, None))

\* Appending to the trail needs a context and no scope.
AppendAuditEvent(s) ==
    /\ Open(s) /\ Context(s) # None /\ TenantIsThere(s)
    /\ Writes(s, {Rec(s, "event", None, {})})

-----------------------------------------------------------------------------
(* What happens to the role and the clock. *)

GrantPrivilege ==
    /\ ~privileged /\ privileged' = TRUE
    /\ tx' = [s \in Sessions |->
                 IF Open(s) THEN [tx[s] EXCEPT !.overtaken = TRUE] ELSE NoTransaction]
    /\ UNCHANGED <<book, relation, nextXid, durable, expired, map>>
TakePrivilegeAway ==
    /\ privileged /\ privileged' = FALSE
    /\ UNCHANGED <<book, relation, nextXid, durable, expired, tx, map>>
Expire == \E b \in Expiring \ expired :
    /\ \E r \in Kind(book, "binding") : r.id = b
    /\ expired' = expired \union {b}
    /\ UNCHANGED <<book, relation, nextXid, durable, privileged, tx, map>>

Next ==
    \/ \E s \in Sessions :
          \/ Begin(s) \/ Savepoint(s) \/ Release(s) \/ RollbackToSavepoint(s)
          \/ CommitTransaction(s) \/ Abort(s)
          \/ BindAuthenticatedContext(s) \/ BeginTenantProvisioning(s) \/ AssignXid(s)
          \/ CreateTenant(s) \/ CreateWorkspace(s) \/ Load(s)
          \/ RegisterAuthBinding(s) \/ RevokeAuthBinding(s) \/ AppendAuditEvent(s)
    \/ Crash \/ GrantPrivilege \/ TakePrivilegeAway \/ Expire

Spec == Init /\ [][Next]_vars

-----------------------------------------------------------------------------

\* Types of the tables, the pool and the sessions.
TypeOK ==
    /\ book \in SUBSET Records
    /\ relation \in [Backends -> ContextRow]
    /\ nextXid \in 1..MaxXid + 1 /\ durable \in 0..MaxXid /\ durable < nextXid
    /\ expired \in SUBSET Expiring
    /\ privileged \in BOOLEAN
    /\ tx \in [Sessions -> {NoTransaction} \union Transaction]
    /\ map \in [Sessions -> SUBSET Tenants]

\* A transaction is who it bound itself as and nobody else: no row another
\* transaction left under its backend, before or after a crash, ever speaks
\* for it.
NoContextIsInherited ==
    \A s \in Sessions : Open(s) => Context(s) = tx[s].own.context

\* session.get() answers from the identity map without asking a policy; what
\* it can answer is of the tenant the transaction is now, however savepoints,
\* earlier transactions of the session and changes of identity came before.
MapsHoldTheCallersRows ==
    \A s \in Sessions : \A t \in map[s] :
        /\ Open(s)
        /\ tx[s].overtaken \/ (Context(s) # None /\ Context(s).tenant = t)

\* No credential revoked or expired at that moment acquires a context.
DeadCredentialsAcquireNothing ==
    [][\A s \in Sessions :
          (/\ Open(s) /\ tx'[s] # NoTransaction
           /\ tx[s].own.context = None /\ tx'[s].own.context # None)
          => LET b == tx'[s].own.context.binding
             IN  b # None => b \notin expired /\ \A r \in Kind(book, "revocation") : r.id # b]_vars

\* Each transaction commits as one identity, in its own tenant, granting what
\* it holds.
Promise == INSTANCE AuthorityBook
ImplementsAuthorityBook == Promise!Spec

=============================================================================
