------------------------------ MODULE RoleWiring ------------------------------
(***************************************************************************)
(* Who may do what in the schema: the privileges db/roles.py wires, the    *)
(* migrations that create, drop and sanitise the objects they are on, the  *)
(* temporary membership under which the lifecycle writer is installed      *)
(* (testing/bootstrap.py), and the check every pooled connection passes    *)
(* (db/principal.py).                                                      *)
(*                                                                         *)
(* A wiring is one transaction of the schema owner, beside a connection of *)
(* the administrator that commits on its own.  Around both an operator     *)
(* grants, states default privileges, adds memberships and changes role    *)
(* attributes, and the process may die.  Objects no plan tells apart are   *)
(* one object here; grant options are left out.                            *)
(***************************************************************************)
EXTENDS Integers, FiniteSets

CONSTANTS
    Grantable,      \* the entries an operator may grant by hand
    DefaultRules,   \* the default privileges an operator may state
    Joinable,       \* the memberships an operator may grant
    Taintable,      \* the roles whose attributes an operator may change
    MaxActs         \* bound: acts of the operator

Runtime == {"application", "provisioning", "authenticator"}
Roles == Runtime \union {"owner", "lifecycle writer", "stranger"}
Grantees == (Roles \ {"owner"}) \union {"PUBLIC"}

\* The revision that creates an object.
TableSince == [t \in {
    "tenants", "workspaces", "idempotency_records and outbox_events", "audit_events",
    "auth tables", "lifecycle rows", "lifecycle definitions", "lifecycle_claim_provenance",
    "identity tables", "workspace_preferences", "identity_expected_workspace"} |->
    CASE t \in {"tenants", "workspaces"} -> 1
      [] t = "idempotency_records and outbox_events" -> 2
      [] t \in {"audit_events", "auth tables"} -> 3
      [] t \in {"lifecycle rows", "lifecycle definitions", "lifecycle_claim_provenance"} -> 4
      [] t = "identity tables" -> 5
      [] OTHER -> 6]
FunctionSince == [f \in {
    "app_current_tenant_id", "context readers", "context accessors", "context acquirers",
    "begin_tenant_provisioning", "auth checks", "auth_context_begin", "lifecycle policies",
    "entry points", "lifecycle readers", "lifecycle triggers", "sanitize_schema_privileges",
    "identity functions", "issuer functions", "identity internals", "portal functions",
    "password change functions", "portal internals"} |->
    CASE f = "app_current_tenant_id" -> 1
      [] f \in {"context readers", "context accessors", "context acquirers",
                "begin_tenant_provisioning", "auth checks", "auth_context_begin"} -> 3
      [] f \in {"lifecycle policies", "entry points", "lifecycle readers",
                "lifecycle triggers", "sanitize_schema_privileges"} -> 4
      [] f \in {"identity functions", "issuer functions", "identity internals"} -> 5
      [] OTHER -> 6]
SchemaTables == DOMAIN TableSince
Functions == DOMAIN FunctionSince
Objects == SchemaTables \union Functions \union {"schema", "database"}

TablesAt(r) == {t \in SchemaTables : TableSince[t] <= r}
FunctionsAt(r) == {f \in Functions :
    IF f = "app_current_tenant_id" THEN r <= 2 ELSE FunctionSince[f] <= r}
ObjectsAt(r) == TablesAt(r) \union FunctionsAt(r) \union {"schema", "database"}

\* What no runtime role may hold anything on.
PROTECTED_TABLES == {"auth tables", "lifecycle definitions", "lifecycle_claim_provenance",
    "identity tables", "identity_expected_workspace"}

\* The inventories of functions, by who is granted them.
LEGACY_TENANT_CONTEXT_FUNCTION == {"app_current_tenant_id"}
RUNTIME_AUTH_FUNCTIONS == {"context readers", "context accessors", "context acquirers"}
PROVISIONING_AUTH_FUNCTIONS == {"begin_tenant_provisioning"}
APPLICATION_LIFECYCLE_FUNCTIONS == {"lifecycle policies"}
LIFECYCLE_WRITER_FUNCTIONS == {"entry points"}
LIFECYCLE_WRITER_HELPER_FUNCTIONS ==
    {"context readers", "context accessors", "auth checks", "lifecycle policies", "lifecycle readers"}
IDENTITY_APPLICATION_FUNCTIONS == {"identity functions"}
IDENTITY_AUTHENTICATOR_FUNCTIONS == {"issuer functions"}
IDENTITY_PASSWORD_CHANGE_FUNCTIONS == {"password change functions"}
AUTHENTICATOR_READ_FUNCTIONS == {"context readers"}
PORTAL_APPLICATION_FUNCTIONS == {"portal functions"}

INTERNAL_AUTH_FUNCTIONS == {"auth checks", "auth_context_begin"}
INTERNAL_LIFECYCLE_FUNCTIONS == {"lifecycle readers", "lifecycle triggers"}
INTERNAL_MAINTENANCE_FUNCTIONS == {"sanitize_schema_privileges"}
IDENTITY_INTERNAL_FUNCTIONS == {"identity internals"}
PORTAL_INTERNAL_FUNCTIONS == {"portal internals"}
INTERNAL_FUNCTIONS ==
    INTERNAL_AUTH_FUNCTIONS \union INTERNAL_LIFECYCLE_FUNCTIONS
        \union INTERNAL_MAINTENANCE_FUNCTIONS \union IDENTITY_INTERNAL_FUNCTIONS
        \union PORTAL_INTERNAL_FUNCTIONS

\* An entry of an ACL: of the object's own, or of some of its columns.
Privileges ==
    {"SELECT", "INSERT", "UPDATE", "DELETE", "EXECUTE", "USAGE", "CREATE", "TEMPORARY"}
Entry == [to: Grantees, on: Objects, priv: Privileges, columns: BOOLEAN]
Entries(to, pairs, columns) ==
    {[to |-> to, on |-> p[1], priv |-> p[2], columns |-> columns] : p \in pairs}
Usage(to) == Entries(to, {"schema"} \X {"USAGE"}, FALSE)
Executes(to, functions) == Entries(to, functions \X {"EXECUTE"}, FALSE)

Membership == [member: Roles, of: Roles, option: {"set", "inherit"}, by: {"admin", "other"}]

\* Of the objects, only a relation has columns to grant on.
ASSUME OperatorAssumption ==
    /\ Grantable \subseteq Entry
    /\ \A e \in Grantable : e.columns => e.on \in SchemaTables
    /\ DefaultRules \subseteq [to: Grantees, kind: {"TABLES", "FUNCTIONS"}, priv: Privileges]
    /\ Joinable \subseteq Membership
    /\ Taintable \subseteq Roles
    /\ MaxActs \in Nat

-----------------------------------------------------------------------------
(* REVISION_PLANS. *)

M2_2_PLAN == [
    common |-> LEGACY_TENANT_CONTEXT_FUNCTION,
    provisioning |-> {}, application |-> {}, authenticator |-> {}, authenticatorCommon |-> {},
    applicationGrants |->
        ({"tenants"} \X {"SELECT"})
            \union ({"workspaces"} \X {"SELECT", "INSERT", "UPDATE", "DELETE"})
            \union ({"idempotency_records and outbox_events"} \X {"SELECT", "INSERT"}),
    applicationColumnGrants |-> {},
    provisioningGrants |-> {"tenants"} \X {"SELECT", "INSERT", "UPDATE"},
    writerFunctions |-> {}, writerHelpers |-> {}, writerGrants |-> {}, writerColumnGrants |-> {}]

M2_3_PLAN == [M2_2_PLAN EXCEPT
    !.common = RUNTIME_AUTH_FUNCTIONS,
    !.provisioning = PROVISIONING_AUTH_FUNCTIONS,
    !.applicationGrants = @ \union ({"audit_events"} \X {"SELECT"})]

\* Columns are told apart only from whole tables.
APPLICATION_COLUMN_GRANTS == {"idempotency_records and outbox_events"} \X {"INSERT"}
LIFECYCLE_WRITER_GRANTS ==
    {"lifecycle rows", "idempotency_records and outbox_events", "lifecycle_claim_provenance"}
        \X {"SELECT"}
LIFECYCLE_WRITER_COLUMN_GRANTS ==
    ({"lifecycle rows", "idempotency_records and outbox_events", "audit_events",
      "lifecycle_claim_provenance"} \X {"INSERT"})
        \union ({"lifecycle rows"} \X {"UPDATE"})

M2_4_PLAN == [M2_3_PLAN EXCEPT
    !.application = APPLICATION_LIFECYCLE_FUNCTIONS,
    !.applicationGrants =
        (@ \ {<<"idempotency_records and outbox_events", "INSERT">>})
            \union ({"lifecycle rows"} \X {"SELECT"}),
    !.applicationColumnGrants = APPLICATION_COLUMN_GRANTS,
    !.writerFunctions = LIFECYCLE_WRITER_FUNCTIONS,
    !.writerHelpers = LIFECYCLE_WRITER_HELPER_FUNCTIONS,
    !.writerGrants = LIFECYCLE_WRITER_GRANTS,
    !.writerColumnGrants = LIFECYCLE_WRITER_COLUMN_GRANTS]

M3_1_PLAN == [M2_4_PLAN EXCEPT
    !.application = @ \union IDENTITY_APPLICATION_FUNCTIONS,
    !.authenticator = IDENTITY_AUTHENTICATOR_FUNCTIONS,
    !.authenticatorCommon = AUTHENTICATOR_READ_FUNCTIONS]

M3_2_PLAN == [M3_1_PLAN EXCEPT
    !.application = @ \union PORTAL_APPLICATION_FUNCTIONS,
    !.authenticator = @ \union IDENTITY_PASSWORD_CHANGE_FUNCTIONS,
    !.applicationGrants = @ \union ({"workspace_preferences"} \X {"SELECT"})]

\* Revision 1 has none: wiring refuses it.
REVISION_PLANS == [r \in 2..7 |->
    CASE r = 2 -> M2_2_PLAN [] r = 3 -> M2_3_PLAN [] r = 4 -> M2_4_PLAN
      [] r = 5 -> M3_1_PLAN [] OTHER -> M3_2_PLAN]

GrantCommon(to, plan) == Usage(to) \union Executes(to, plan.common)
GrantApplicationRole(plan) ==
    GrantCommon("application", plan)
        \union Executes("application", plan.application)
        \union Entries("application", plan.applicationGrants, FALSE)
        \union Entries("application", plan.applicationColumnGrants, TRUE)
GrantProvisioningRole(plan) ==
    GrantCommon("provisioning", plan)
        \union Executes("provisioning", plan.provisioning)
        \union Entries("provisioning", plan.provisioningGrants, FALSE)
GrantAuthenticatorRole(plan) ==
    Usage("authenticator")
        \union Executes("authenticator", plan.authenticatorCommon)
        \union Executes("authenticator", plan.authenticator)
GrantRuntimeRoles(plan) ==
    GrantApplicationRole(plan) \union GrantProvisioningRole(plan)
        \union GrantAuthenticatorRole(plan)
GrantWriter(plan) ==
    IF plan.writerFunctions = {} THEN {}
    ELSE Usage("lifecycle writer")
             \union Executes("lifecycle writer", plan.writerHelpers)
             \union Entries("lifecycle writer", plan.writerGrants, FALSE)
             \union Entries("lifecycle writer", plan.writerColumnGrants, TRUE)

-----------------------------------------------------------------------------
VARIABLES
    revision,   \* the schema revision
    acl,        \* the committed ACL entries; what owners hold is not in them
    defaults,   \* the owner's default privileges: [to, kind, priv]
    members,    \* memberships: [member, of, option, by]
    tainted,    \* roles with an attribute their kind may not have
    entryOwner, \* who owns the entry points
    wiring,     \* the wiring under way: its step and what it has not committed
    acts        \* acts of the operator so far

rolesVars == <<revision, acl, defaults, members, tainted, entryOwner, wiring, acts>>

\* "meanwhile": what the operator did since the wiring began.
NoWiring == [step |-> "none"]
Steps == {"granted", "lent", "installed", "returned"}

RolesInit ==
    /\ revision = 1
    /\ acl = Entries("PUBLIC", {"database"} \X {"TEMPORARY"}, FALSE)
    /\ defaults = {} /\ members = {} /\ tainted = {}
    /\ entryOwner = "owner"
    /\ wiring = NoWiring
    /\ acts = 0

Wiring == wiring # NoWiring
Plan == REVISION_PLANS[revision]

\* Temporary_set_membership's grant.
Lent == [member |-> "owner", of |-> "lifecycle writer", option |-> "set", by |-> "admin"]

\* lifecycle_writer_role(): who the guards take for the writer.
LifecycleWriterRole(owner, taint) ==
    IF owner = "lifecycle writer" /\ owner \notin taint THEN owner ELSE "none"

-----------------------------------------------------------------------------
(* The sanitiser. *)

\* REVOKE on a relation from a grantee takes the grantee's column privileges
\* with it, but the grantees are read from the relation's own ACL.
RelationPass(entries) == {e \in entries :
    e.on \in SchemaTables =>
        /\ e.to # "PUBLIC"
        /\ ~ \E f \in entries : f.on = e.on /\ f.to = e.to /\ ~f.columns}
ColumnPass(entries) == {e \in entries : ~ (e.on \in SchemaTables /\ e.columns)}

\* Only functions the schema owner owns: it may revoke on no other.
FunctionPass(entries, owner) == {e \in entries :
    e.on \in Functions => e.on = "entry points" /\ owner # "owner"}
SchemaPass(entries) == {e \in entries : e.on # "schema"}

\* Mutant: grantees are taken from relation ACLs only.
SanitizeRelationsOnly(entries, owner) ==
    SchemaPass(FunctionPass(RelationPass(entries), owner))

\* Mutant: every privilege PUBLIC has is taken back, and nothing else.
SanitizePublicOnly(entries, owner) == {e \in entries : e.on = "database" \/ e.to # "PUBLIC"}

SanitizeSchemaPrivileges(entries, owner) ==
    SchemaPass(FunctionPass(ColumnPass(RelationPass(entries)), owner))

\* What the owner's creating the objects of a revision grants at once.
Created(objects) ==
    Executes("PUBLIC", objects \intersect Functions)
        \union (UNION {Entries(d.to, (objects \intersect SchemaTables) \X {d.priv}, FALSE) :
                       d \in {x \in defaults : x.kind = "TABLES"}})
        \union (UNION {Executes(d.to, objects \intersect Functions) :
                       d \in {x \in defaults : x.kind = "FUNCTIONS"}})
FromPublicOn(entries, objects) == {e \in entries : e.on \in objects => e.to # "PUBLIC"}

-----------------------------------------------------------------------------
(* Migrations: one transaction each, and none while a wiring is open. *)

Upgrade ==
    /\ ~Wiring /\ revision < 7
    /\ revision' = revision + 1
    /\ LET new == ObjectsAt(revision + 1) \ ObjectsAt(revision)
           kept == {e \in acl : e.on \in ObjectsAt(revision + 1)} \union Created(new)
       IN acl' = IF revision + 1 \in 3..6 THEN SanitizeSchemaPrivileges(kept, entryOwner)
                 ELSE FromPublicOn(kept, new)
    /\ UNCHANGED <<defaults, members, tainted, entryOwner, wiring, acts>>

WriterPrivilegesToRevoke(entries, writer) == {e \in entries : e.to = writer}

\* Dropping an object drops its ACL; 0004 reads who the writer is before its
\* entry points go, and revokes what that role is left with.
Downgrade ==
    /\ ~Wiring /\ revision > 1
    /\ revision' = revision - 1
    /\ LET new == ObjectsAt(revision - 1) \ ObjectsAt(revision)
           kept == {e \in acl : e.on \in ObjectsAt(revision - 1)}
                       \union FromPublicOn(Created(new), new)
           writer == LifecycleWriterRole(entryOwner, tainted)
       IN acl' = IF revision = 4 THEN kept \ WriterPrivilegesToRevoke(kept, writer) ELSE kept
    /\ entryOwner' = IF revision = 4 THEN "owner" ELSE entryOwner
    /\ UNCHANGED <<defaults, members, tainted, wiring, acts>>

-----------------------------------------------------------------------------
(* wire_roles. *)

\* harden_database, revoke_public_table_privileges, and the runtime roles.
HardenAndGrant ==
    /\ ~Wiring /\ revision \in DOMAIN REVISION_PLANS
    /\ LET hardened == SanitizeSchemaPrivileges(
               {e \in acl : ~ (e.on = "database" /\ e.to = "PUBLIC")}, entryOwner)
       IN wiring' = [step |-> "granted", acl |-> hardened \union GrantRuntimeRoles(Plan),
                     owner |-> entryOwner, meanwhile |-> {}]
    /\ UNCHANGED <<revision, acl, defaults, members, tainted, entryOwner, acts>>

\* The administrator's grant is committed before the owner goes on.
LendWriter ==
    /\ Wiring /\ wiring.step = "granted"
    /\ members' = members \union {Lent}
    /\ wiring' = [wiring EXCEPT !.step = "lent"]
    /\ UNCHANGED <<revision, acl, defaults, tainted, entryOwner, acts>>

\* What ALTER FUNCTION ... OWNER TO and SET ROLE ask of the connected owner.
MaySetRole(m) == m.member = "owner" /\ m.of = "lifecycle writer" /\ m.option = "set"

LifecycleWriterAttributesHold == "lifecycle writer" \notin tainted

\* Nobody but the connected owner may reach the writer.
ReachedByOthers == \E m \in members : m.of = "lifecycle writer" /\ m.member # "owner"

\* The entry points' own ACL, rewritten by their owner.
ResetEntryPoints(entries) ==
    {e \in entries : e.on # "entry points"} \union Executes("application", {"entry points"})

\* What the schema owner granted on what it owns.
RevokeEverythingFrom(role, entries, owner) ==
    {e \in entries : e.to = role =>
        e.on = "database" \/ (e.on = "entry points" /\ owner # "owner")}

\* A plan without a writer must find it owning nothing; the downgrade to such
\* a revision drops the entry points.
InstallLifecycleWriter ==
    /\ Wiring /\ wiring.step = "lent"
    /\ LifecycleWriterAttributesHold
    /\ ~ReachedByOthers
    /\ LET stripped == RevokeEverythingFrom("lifecycle writer", wiring.acl, wiring.owner)
       IN IF Plan.writerFunctions = {}
          THEN wiring' = [wiring EXCEPT !.step = "installed", !.acl = stripped]
          ELSE /\ \E m \in members : MaySetRole(m)
               /\ wiring' = [wiring EXCEPT !.step = "installed", !.owner = "lifecycle writer",
                                !.acl = ResetEntryPoints(stripped \union GrantWriter(Plan))]
    /\ UNCHANGED <<revision, acl, defaults, members, tainted, entryOwner, acts>>

WriterIsReached(ms) == \E m \in ms : m.of = "lifecycle writer"

\* _require_temporary_membership_released, on a new connection.
Released(ms) == ~WriterIsReached(ms)

ReturnWriter ==
    /\ Wiring /\ wiring.step = "installed"
    /\ members' = members \ {Lent}
    /\ Released(members')
    /\ wiring' = [wiring EXCEPT !.step = "returned"]
    /\ UNCHANGED <<revision, acl, defaults, tainted, entryOwner, acts>>

CommitWiring ==
    /\ Wiring /\ wiring.step = "returned"
    /\ acl' = wiring.acl
    /\ entryOwner' = wiring.owner
    /\ wiring' = NoWiring
    /\ UNCHANGED <<revision, defaults, members, tainted, acts>>

\* An exception anywhere: the membership is revoked in the finally, and the
\* transaction is rolled back.
AbortWiring ==
    /\ Wiring
    /\ members' = IF wiring.step \in {"lent", "installed"} THEN members \ {Lent} ELSE members
    /\ wiring' = NoWiring
    /\ UNCHANGED <<revision, acl, defaults, tainted, entryOwner, acts>>

\* The process dies: what the administrator committed stays.
KillWiring ==
    /\ Wiring
    /\ wiring' = NoWiring
    /\ UNCHANGED <<revision, acl, defaults, members, tainted, entryOwner, acts>>

-----------------------------------------------------------------------------
(* The operator. *)

Acts == acts < MaxActs /\ acts' = acts + 1
Noted(what) ==
    IF Wiring THEN [wiring EXCEPT !.meanwhile = @ \union {what}] ELSE wiring

Altered(r) == [role |-> r]

\* A grant on an object's own ACL waits for a wiring, which has rewritten it;
\* one on a column does not, and the wiring sees it at once.
GrantByHand(e) ==
    /\ Acts
    /\ e.on \in ObjectsAt(revision) /\ e \notin acl
    /\ Wiring => e.columns
    /\ acl' = acl \union {e}
    /\ wiring' = IF Wiring THEN [Noted(e) EXCEPT !.acl = @ \union {e}] ELSE wiring
    /\ UNCHANGED <<revision, defaults, members, tainted, entryOwner>>

AlterDefaultPrivileges(d) ==
    /\ Acts
    /\ d \notin defaults
    /\ defaults' = defaults \union {d}
    /\ UNCHANGED <<revision, acl, members, tainted, entryOwner, wiring>>

GrantMembership(m) ==
    /\ Acts
    /\ m \notin members
    /\ members' = members \union {m}
    /\ wiring' = Noted(m)
    /\ UNCHANGED <<revision, acl, defaults, tainted, entryOwner>>

RevokeMembership(m) ==
    /\ m \in members /\ m # Lent
    /\ members' = members \ {m}
    /\ UNCHANGED <<revision, acl, defaults, tainted, entryOwner, wiring, acts>>

AlterRole(r) ==
    /\ Acts
    /\ tainted' = IF r \in tainted THEN tainted \ {r} ELSE tainted \union {r}
    /\ wiring' = Noted(Altered(r))
    /\ UNCHANGED <<revision, acl, defaults, members, entryOwner>>

RolesNext ==
    \/ Upgrade \/ Downgrade
    \/ HardenAndGrant \/ LendWriter \/ InstallLifecycleWriter \/ ReturnWriter
    \/ CommitWiring \/ AbortWiring \/ KillWiring
    \/ \E e \in Grantable : GrantByHand(e)
    \/ \E d \in DefaultRules : AlterDefaultPrivileges(d)
    \/ \E m \in Joinable : GrantMembership(m) \/ RevokeMembership(m)
    \/ \E r \in Taintable : AlterRole(r)

RolesSpec == RolesInit /\ [][RolesNext]_rolesVars

-----------------------------------------------------------------------------
(* inspect_principal: who a connection of role r is and can become. *)

\* Where these memberships lead from S: the least of the sets made by following
\* some of them that none of them leads out of.
ClosedUnder(C, ms) == \A m \in ms : m.member \in C => m.of \in C
Closure(S, ms) ==
    LET followed == {S \union {m.of : m \in some} : some \in SUBSET ms}
        closed == {C \in followed : ClosedUnder(C, ms)}
    IN {r \in Roles : \A C \in closed : r \in C}

Reachable(r) == Closure({r}, members)

ACLOf(roles, objects) ==
    {e \in acl : e.on \in objects /\ (e.to = "PUBLIC" \/ e.to \in roles)}
Owns(roles) == "owner" \in roles \/ (revision >= 4 /\ entryOwner \in roles)

\* has_table_privilege and has_function_privilege answer for whole objects.
PrivilegedObjects(reachable) ==
    {e \in ACLOf(reachable, PROTECTED_TABLES \union INTERNAL_FUNCTIONS) : ~e.columns}

\* Mutant: no query of its own for the columns.
NoPrivilegedColumns(reachable) == {}

PrivilegedColumns(reachable) == {e \in ACLOf(reachable, PROTECTED_TABLES) : e.columns}

IsSafe(r) ==
    LET reachable == Reachable(r) IN
    /\ reachable \intersect tainted = {}
    /\ ~Owns(reachable)
    /\ PrivilegedObjects(reachable) = {}
    /\ PrivilegedColumns(reachable) = {}
    /\ reachable = {r}

-----------------------------------------------------------------------------
(* Properties. *)

Uncommitted == [step: Steps, acl: SUBSET Entry, owner: {"owner", "lifecycle writer"},
                meanwhile: SUBSET (Entry \union Joinable \union [role: Roles])]
RolesTypeOK ==
    /\ revision \in 1..7
    /\ acl \subseteq Entry
    /\ defaults \subseteq DefaultRules
    /\ members \subseteq Joinable \union {Lent}
    /\ tainted \subseteq Roles
    /\ entryOwner \in {"owner", "lifecycle writer"}
    /\ wiring = NoWiring \/ wiring \in Uncommitted
    /\ acts \in 0..MaxActs

Commits ==
    /\ Wiring /\ wiring.step = "returned"
    /\ wiring' = NoWiring /\ acl' = wiring.acl /\ entryOwner' = wiring.owner

\* What a role can do: SET ROLE to what it is let, and use what it inherits.
Powers(r) ==
    Closure(Closure({r}, {m \in members : m.option = "set"}),
            {m \in members : m.option = "inherit"})

GrantsAreThePlan ==
    {e \in acl' : e.on # "database"} \ wiring.meanwhile =
    (GrantRuntimeRoles(Plan) \union GrantWriter(Plan)
        \union (IF Plan.writerFunctions = {} THEN {} ELSE Executes("application", {"entry points"})))
            \ wiring.meanwhile

WriterIsNobody ==
    /\ Plan.writerFunctions # {} =>
        \/ LifecycleWriterRole(entryOwner', tainted') = "lifecycle writer"
        \/ Altered("lifecycle writer") \in wiring.meanwhile
    /\ \A r \in Roles \ {"lifecycle writer"}, m \in members' :
        m.member = r /\ m.of = "lifecycle writer" => m \in wiring.meanwhile

\* Whatever was granted before, on objects or on columns, by hand or by default
\* privileges, to these roles or to others, and whatever memberships an earlier
\* wiring cut short or an operator had left: once a wiring has committed, the
\* schema's ACLs are the revision's plan, and the entry points run as a writer
\* the guards recognise and nobody can become, but for what was granted while it
\* ran (harden_database to install_lifecycle_writer, temporary_set_membership).
WiringIsExact == [][Commits => GrantsAreThePlan /\ WriterIsNobody]_rolesVars

\* A connection admitted to the pool can do nothing with a protected table, its
\* columns or an internal function, by itself or as any role it can become
\* (require_unprivileged_principal).
AdmittedReachNothing ==
    \A r \in Runtime : IsSafe(r) =>
        \A p \in Powers(r) :
            /\ p \notin tainted /\ p # "owner"
            /\ ~ \E e \in acl : e.on \in PROTECTED_TABLES \union INTERNAL_FUNCTIONS
                                /\ e.to \in {p, "PUBLIC"}

\* No migration, in either direction, gives anyone a privilege on a protected
\* table or an internal function, whatever the default privileges say
\* (upgrade's last statement, 0003 to 0006).
MigrationsGrantNothing ==
    [][revision' # revision =>
        \A e \in acl' : e.on \in PROTECTED_TABLES \union INTERNAL_FUNCTIONS => e \in acl]_rolesVars

==============================================================================
