---------------------------- MODULE SchemaProofs ----------------------------
(***************************************************************************)
(* What holds of the roles that migrations and wire_roles leave, whatever an *)
(* operator may grant by hand and however often; and of the databases a test *)
(* run makes and removes, for every number of objects and of acts of others. *)
(***************************************************************************)
EXTENDS RoleWiring, DisposableDatabase, FiniteSetTheorems, TLAPS

-----------------------------------------------------------------------------
(* The objects. *)

LEMMA TheTables == SchemaTables = {
    "tenants", "workspaces", "idempotency_records and outbox_events", "audit_events",
    "auth tables", "lifecycle rows", "lifecycle definitions", "lifecycle_claim_provenance",
    "identity tables", "workspace_preferences", "identity_expected_workspace"}
BY DEF SchemaTables, TableSince

LEMMA TheFunctions == Functions = {
    "app_current_tenant_id", "context readers", "context accessors", "context acquirers",
    "begin_tenant_provisioning", "auth checks", "auth_context_begin", "lifecycle policies",
    "entry points", "lifecycle readers", "lifecycle triggers", "sanitize_schema_privileges",
    "identity functions", "issuer functions", "identity internals", "portal functions",
    "password change functions", "portal internals"}
BY DEF Functions, FunctionSince

Internal == PROTECTED_TABLES \union INTERNAL_FUNCTIONS

LEMMA InternalObjects ==
  /\ PROTECTED_TABLES \subseteq SchemaTables
  /\ INTERNAL_FUNCTIONS \subseteq Functions \ {"entry points", "app_current_tenant_id"}
BY TheTables, TheFunctions DEF PROTECTED_TABLES, INTERNAL_FUNCTIONS, INTERNAL_AUTH_FUNCTIONS,
   INTERNAL_LIFECYCLE_FUNCTIONS, INTERNAL_MAINTENANCE_FUNCTIONS, IDENTITY_INTERNAL_FUNCTIONS,
   PORTAL_INTERNAL_FUNCTIONS

\* No protected table and no internal function is as old as revision 2, or newer
\* than 6.
LEMMA InternalSince ==
  /\ \A t \in PROTECTED_TABLES : TableSince[t] \in {3, 4, 5, 6}
  /\ \A f \in INTERNAL_FUNCTIONS : FunctionSince[f] \in {3, 4, 5, 6}
<1>1. /\ TableSince["auth tables"] = 3 /\ TableSince["lifecycle definitions"] = 4
      /\ TableSince["lifecycle_claim_provenance"] = 4 /\ TableSince["identity tables"] = 5
      /\ TableSince["identity_expected_workspace"] = 6
  BY DEF TableSince
<1>2. /\ FunctionSince["auth checks"] = 3 /\ FunctionSince["auth_context_begin"] = 3
      /\ FunctionSince["lifecycle readers"] = 4 /\ FunctionSince["lifecycle triggers"] = 4
      /\ FunctionSince["sanitize_schema_privileges"] = 4
      /\ FunctionSince["identity internals"] = 5 /\ FunctionSince["portal internals"] = 6
  BY DEF FunctionSince
<1>3. \A t \in PROTECTED_TABLES : TableSince[t] \in {3, 4, 5, 6}
  BY <1>1 DEF PROTECTED_TABLES
<1>4. \A f \in INTERNAL_FUNCTIONS : FunctionSince[f] \in {3, 4, 5, 6}
  BY <1>2 DEF INTERNAL_FUNCTIONS, INTERNAL_AUTH_FUNCTIONS, INTERNAL_LIFECYCLE_FUNCTIONS,
     INTERNAL_MAINTENANCE_FUNCTIONS, IDENTITY_INTERNAL_FUNCTIONS, PORTAL_INTERNAL_FUNCTIONS
<1> QED  BY <1>3, <1>4

LEMMA Distinct ==
  /\ SchemaTables \cap Functions = {}
  /\ {"schema", "database"} \cap (SchemaTables \cup Functions) = {}
BY TheTables, TheFunctions

-----------------------------------------------------------------------------
(* The sanitiser. *)

ColumnsOfTables(entries) == \A e \in entries : e.columns => e.on \in SchemaTables

\* Whatever was granted, what is left is on the database, or on entry points that
\* somebody else owns.
LEMMA SanitizedIs ==
  ASSUME NEW entries \in SUBSET Entry, ColumnsOfTables(entries), NEW owner,
         NEW e \in SanitizeSchemaPrivileges(entries, owner)
  PROVE  /\ e \in entries
         /\ e.on = "database" \/ (e.on = "entry points" /\ owner # "owner")
<1>1. /\ e \in entries /\ e \in RelationPass(entries)
      /\ e.on \in SchemaTables => ~e.columns
      /\ e.on \in Functions => e.on = "entry points" /\ owner # "owner"
      /\ e.on # "schema"
  BY DEF SanitizeSchemaPrivileges, SchemaPass, FunctionPass, ColumnPass, RelationPass
<1>2. e.on \notin SchemaTables
  BY <1>1 DEF RelationPass
<1>3. e.on \in Objects
  BY <1>1 DEF Entry
<1> QED  BY <1>1, <1>2, <1>3 DEF Objects

-----------------------------------------------------------------------------
(* The plans. *)

Unowned == Functions \ {"entry points"}
OnTables == SchemaTables \X Privileges
Plans == [
  common : SUBSET Unowned, provisioning : SUBSET Unowned, application : SUBSET Unowned,
  authenticator : SUBSET Unowned, authenticatorCommon : SUBSET Unowned,
  applicationGrants : SUBSET OnTables, applicationColumnGrants : SUBSET OnTables,
  provisioningGrants : SUBSET OnTables,
  writerFunctions : SUBSET Functions, writerHelpers : SUBSET Unowned,
  writerGrants : SUBSET OnTables, writerColumnGrants : SUBSET OnTables]

LEMMA M2_2_Type == M2_2_PLAN \in Plans /\ M2_2_PLAN.writerFunctions = {}
BY TheTables, TheFunctions
   DEF M2_2_PLAN, Plans, Unowned, OnTables, Privileges, LEGACY_TENANT_CONTEXT_FUNCTION

LEMMA Products ==
  ASSUME NEW A \in SUBSET SchemaTables, NEW B \in SUBSET Privileges
  PROVE  A \X B \in SUBSET OnTables
BY DEF OnTables

LEMMA M2_3_Type == M2_3_PLAN \in Plans /\ M2_3_PLAN.writerFunctions = {}
<1>1. RUNTIME_AUTH_FUNCTIONS \subseteq Unowned /\ PROVISIONING_AUTH_FUNCTIONS \subseteq Unowned
  BY TheFunctions DEF Unowned, RUNTIME_AUTH_FUNCTIONS, PROVISIONING_AUTH_FUNCTIONS
<1>2. {"audit_events"} \X {"SELECT"} \in SUBSET OnTables
  BY Products, TheTables DEF Privileges
<1> QED  BY <1>1, <1>2, M2_2_Type DEF M2_3_PLAN, Plans

LEMMA M2_4_Type == M2_4_PLAN \in Plans /\ M2_4_PLAN.writerFunctions # {}
<1>1. /\ APPLICATION_LIFECYCLE_FUNCTIONS \subseteq Unowned
      /\ LIFECYCLE_WRITER_FUNCTIONS \subseteq Functions /\ LIFECYCLE_WRITER_FUNCTIONS # {}
      /\ LIFECYCLE_WRITER_HELPER_FUNCTIONS \subseteq Unowned
  BY TheFunctions DEF Unowned, APPLICATION_LIFECYCLE_FUNCTIONS, LIFECYCLE_WRITER_FUNCTIONS,
                      LIFECYCLE_WRITER_HELPER_FUNCTIONS
<1>2. APPLICATION_COLUMN_GRANTS \in SUBSET OnTables
  BY Products, TheTables DEF Privileges, APPLICATION_COLUMN_GRANTS
<1>3. LIFECYCLE_WRITER_GRANTS \in SUBSET OnTables
  BY Products, TheTables DEF Privileges, LIFECYCLE_WRITER_GRANTS
<1>4. LIFECYCLE_WRITER_COLUMN_GRANTS \in SUBSET OnTables
  <2>1. {"lifecycle rows"} \X {"UPDATE"} \in SUBSET OnTables
    BY Products, TheTables DEF Privileges
  <2>2. {"lifecycle rows", "idempotency_records and outbox_events", "audit_events",
         "lifecycle_claim_provenance"} \X {"INSERT"} \in SUBSET OnTables
    BY Products, TheTables DEF Privileges
  <2> QED  BY <2>1, <2>2 DEF LIFECYCLE_WRITER_COLUMN_GRANTS
<1>5. {"lifecycle rows"} \X {"SELECT"} \in SUBSET OnTables
  BY Products, TheTables DEF Privileges
<1> QED  BY <1>1, <1>2, <1>3, <1>4, <1>5, M2_3_Type DEF M2_4_PLAN, Plans

LEMMA M3_1_Type == M3_1_PLAN \in Plans /\ M3_1_PLAN.writerFunctions # {}
BY ZenonT(40), M2_4_Type, TheFunctions
   DEF M3_1_PLAN, Plans, Unowned, IDENTITY_APPLICATION_FUNCTIONS,
       IDENTITY_AUTHENTICATOR_FUNCTIONS, AUTHENTICATOR_READ_FUNCTIONS

LEMMA M3_2_Type == M3_2_PLAN \in Plans /\ M3_2_PLAN.writerFunctions # {}
<1>1. PORTAL_APPLICATION_FUNCTIONS \subseteq Unowned /\ IDENTITY_PASSWORD_CHANGE_FUNCTIONS \subseteq Unowned
  BY TheFunctions DEF Unowned, PORTAL_APPLICATION_FUNCTIONS, IDENTITY_PASSWORD_CHANGE_FUNCTIONS
<1>2. {"workspace_preferences"} \X {"SELECT"} \in SUBSET OnTables
  BY Products, TheTables DEF Privileges
<1> QED  BY <1>1, <1>2, M3_1_Type DEF M3_2_PLAN, Plans

\* Each revision that can be wired has a plan, and from 4 on it has a writer.
LEMMA PlanType ==
  ASSUME NEW r \in 2..7
  PROVE  /\ REVISION_PLANS[r] \in Plans
         /\ REVISION_PLANS[r].writerFunctions = {} <=> r \in {2, 3}
<1>1. REVISION_PLANS[r] = CASE r = 2 -> M2_2_PLAN [] r = 3 -> M2_3_PLAN [] r = 4 -> M2_4_PLAN
                            [] r = 5 -> M3_1_PLAN [] OTHER -> M3_2_PLAN
  BY DEF REVISION_PLANS
<1>2. CASE r = 2
  BY <1>1, <1>2, M2_2_Type
<1>3. CASE r = 3
  BY <1>1, <1>3, M2_3_Type
<1>4. CASE r = 4
  BY <1>1, <1>4, M2_4_Type
<1>5. CASE r = 5
  BY <1>1, <1>5, M3_1_Type
<1>6. CASE r \notin {2, 3, 4, 5}
  BY <1>1, <1>6, M3_2_Type
<1> QED  BY <1>2, <1>3, <1>4, <1>5, <1>6

LEMMA Pairs ==
  ASSUME NEW A \in SUBSET Objects, NEW B \in SUBSET Privileges
  PROVE  A \X B \in SUBSET (Objects \X Privileges)
OBVIOUS

\* Entries made from pairs, from functions, and the schema's usage.
LEMMA EntriesType ==
  ASSUME NEW to \in Grantees, NEW pairs \in SUBSET (Objects \X Privileges), NEW columns \in BOOLEAN
  PROVE  /\ Entries(to, pairs, columns) \subseteq Entry
         /\ \A e \in Entries(to, pairs, columns) :
              e.to = to /\ <<e.on, e.priv>> \in pairs /\ e.columns = columns
BY DEF Entries, Entry

LEMMA ExecutesType ==
  ASSUME NEW to \in Grantees, NEW functions \in SUBSET Functions
  PROVE  /\ Executes(to, functions) \subseteq Entry
         /\ \A e \in Executes(to, functions) : e.to = to /\ e.on \in functions /\ ~e.columns
<1>1. functions \X {"EXECUTE"} \in SUBSET (Objects \X Privileges)
  BY DEF Objects, Privileges
<1>2. /\ Entries(to, functions \X {"EXECUTE"}, FALSE) \subseteq Entry
      /\ \A e \in Entries(to, functions \X {"EXECUTE"}, FALSE) :
           e.to = to /\ <<e.on, e.priv>> \in functions \X {"EXECUTE"} /\ e.columns = FALSE
  BY ZenonT(40), <1>1, EntriesType
<1> QED  BY <1>2 DEF Executes

LEMMA UsageType ==
  ASSUME NEW to \in Grantees
  PROVE  /\ Usage(to) \subseteq Entry
         /\ \A e \in Usage(to) : e.to = to /\ e.on = "schema" /\ ~e.columns
<1>1. {"schema"} \X {"USAGE"} = {<<"schema", "USAGE">>}
  OBVIOUS
<1>2. Usage(to) = {[to |-> to, on |-> "schema", priv |-> "USAGE", columns |-> FALSE]}
  BY <1>1 DEF Usage, Entries
<1> QED  BY <1>2 DEF Entry, Objects, Privileges

LEMMA OnTablesEntries ==
  ASSUME NEW to \in Grantees, NEW pairs \in SUBSET OnTables, NEW columns \in BOOLEAN
  PROVE  /\ Entries(to, pairs, columns) \subseteq Entry
         /\ \A e \in Entries(to, pairs, columns) : e.to = to /\ e.on \in SchemaTables
<1>1. pairs \in SUBSET (Objects \X Privileges)
  BY DEF OnTables, Objects
<1>2. \A p \in pairs : p[1] \in SchemaTables
  BY DEF OnTables
<1> QED  BY <1>1, <1>2, EntriesType DEF Entries

RuntimeGrantees == {"application", "provisioning", "authenticator"}

LEMMA GranteeNames == RuntimeGrantees \subseteq Grantees /\ "lifecycle writer" \in Grantees
BY DEF RuntimeGrantees, Grantees, Roles, Runtime

\* What an ACL entry of a plan is like.
Planned(e, grantees) ==
  /\ e \in Entry /\ e.to \in grantees
  /\ e.on = "schema" \/ e.on \in SchemaTables \/ e.on \in Unowned
  /\ e.columns => e.on \in SchemaTables

LEMMA PlannedUsage ==
  ASSUME NEW to \in Grantees, NEW e \in Usage(to)
  PROVE  Planned(e, {to})
BY UsageType DEF Planned

LEMMA PlannedExecutes ==
  ASSUME NEW to \in Grantees, NEW functions \in SUBSET Unowned, NEW e \in Executes(to, functions)
  PROVE  Planned(e, {to})
<1>1. functions \in SUBSET Functions
  BY DEF Unowned
<1> QED  BY <1>1, ExecutesType DEF Planned

LEMMA PlannedEntries ==
  ASSUME NEW to \in Grantees, NEW pairs \in SUBSET OnTables, NEW columns \in BOOLEAN,
         NEW e \in Entries(to, pairs, columns)
  PROVE  Planned(e, {to})
BY OnTablesEntries DEF Planned

LEMMA RuntimeGrants ==
  ASSUME NEW plan \in Plans, NEW e \in GrantRuntimeRoles(plan)
  PROVE  Planned(e, RuntimeGrantees)
<1> USE GranteeNames
<1>1. ASSUME e \in GrantCommon("application", plan) \/ e \in GrantCommon("provisioning", plan)
      PROVE  Planned(e, RuntimeGrantees)
  <2>1. plan.common \subseteq Unowned
    BY DEF Plans
  <2> QED  BY <1>1, <2>1, PlannedUsage, PlannedExecutes DEF GrantCommon, Planned, RuntimeGrantees
<1>2. ASSUME e \in GrantApplicationRole(plan) PROVE Planned(e, RuntimeGrantees)
  <2>1. /\ plan.application \subseteq Unowned /\ plan.applicationGrants \subseteq OnTables
        /\ plan.applicationColumnGrants \subseteq OnTables
    BY DEF Plans
  <2> QED  BY <1>1, <1>2, <2>1, PlannedExecutes, PlannedEntries
           DEF GrantApplicationRole, Planned, RuntimeGrantees
<1>3. ASSUME e \in GrantProvisioningRole(plan) PROVE Planned(e, RuntimeGrantees)
  <2>1. plan.provisioning \subseteq Unowned /\ plan.provisioningGrants \subseteq OnTables
    BY DEF Plans
  <2> QED  BY <1>1, <1>3, <2>1, PlannedExecutes, PlannedEntries
           DEF GrantProvisioningRole, Planned, RuntimeGrantees
<1>4. ASSUME e \in GrantAuthenticatorRole(plan) PROVE Planned(e, RuntimeGrantees)
  <2>1. plan.authenticator \subseteq Unowned /\ plan.authenticatorCommon \subseteq Unowned
    BY DEF Plans
  <2> QED  BY <1>4, <2>1, PlannedUsage, PlannedExecutes
           DEF GrantAuthenticatorRole, Planned, RuntimeGrantees
<1> QED  BY <1>2, <1>3, <1>4 DEF GrantRuntimeRoles

LEMMA WriterGrants ==
  ASSUME NEW plan \in Plans, NEW e \in GrantWriter(plan)
  PROVE  Planned(e, {"lifecycle writer"})
<1> USE GranteeNames
<1>1. /\ plan.writerHelpers \subseteq Unowned /\ plan.writerGrants \subseteq OnTables
      /\ plan.writerColumnGrants \subseteq OnTables
  BY DEF Plans
<1> QED  BY <1>1, PlannedUsage, PlannedExecutes, PlannedEntries DEF GrantWriter

-----------------------------------------------------------------------------
(* Creating objects. *)

LEMMA CreatedType ==
  ASSUME RolesTypeOK, NEW objects \in SUBSET Objects, NEW e \in Created(objects)
  PROVE  e \in Entry /\ ~e.columns /\ e.on \in objects
<1>0. "PUBLIC" \in Grantees
  BY DEF Grantees
<1>1. \A d \in defaults : d.to \in Grantees /\ d.priv \in Privileges
  BY OperatorAssumption DEF RolesTypeOK, OperatorAssumption
<1>2. objects \intersect Functions \in SUBSET Functions
  OBVIOUS
<1>3. ASSUME NEW to \in Grantees, e \in Executes(to, objects \intersect Functions)
      PROVE  e \in Entry /\ ~e.columns /\ e.on \in objects
  BY <1>2, <1>3, ExecutesType
<1>4. ASSUME NEW d \in defaults,
             e \in Entries(d.to, (objects \intersect SchemaTables) \X {d.priv}, FALSE)
      PROVE  e \in Entry /\ ~e.columns /\ e.on \in objects
  <2> DEFINE pairs == (objects \intersect SchemaTables) \X {d.priv}
  <2>1. pairs \in SUBSET (Objects \X Privileges)
    BY <1>1, Pairs
  <2>2. \A p \in pairs : p[1] \in objects
    OBVIOUS
  <2>3. e \in Entries(d.to, pairs, FALSE)
    BY <1>4
  <2> HIDE DEF pairs
  <2>4. e \in Entry /\ <<e.on, e.priv>> \in pairs /\ e.columns = FALSE
    BY <1>1, <2>1, <2>3, EntriesType
  <2> QED  BY <2>2, <2>4
<1> DEFINE public == Executes("PUBLIC", objects \intersect Functions)
           tables == UNION {Entries(d.to, (objects \intersect SchemaTables) \X {d.priv}, FALSE) :
                            d \in {x \in defaults : x.kind = "TABLES"}}
           functions == UNION {Executes(d.to, objects \intersect Functions) :
                               d \in {x \in defaults : x.kind = "FUNCTIONS"}}
<1>5. CASE e \in tables
  BY <1>4, <1>5
<1>6. CASE e \in functions
  BY <1>1, <1>3, <1>6
<1>7. CASE e \in public
  BY <1>0, <1>3, <1>7
<1>8. e \in public \union tables \union functions
  <2>1. Created(objects) = public \union tables \union functions
    BY Zenon DEF Created
  <2> HIDE DEF public, tables, functions
  <2> QED  BY <2>1
<1> HIDE DEF public, tables, functions
<1> QED  BY <1>5, <1>6, <1>7, <1>8

LEMMA ObjectsType == \A r \in Int : ObjectsAt(r) \subseteq Objects
BY DEF ObjectsAt, TablesAt, FunctionsAt, Objects

-----------------------------------------------------------------------------
(* The inductive invariant. *)

PlanGrants ==
  GrantRuntimeRoles(Plan) \union GrantWriter(Plan)
    \union (IF Plan.writerFunctions = {} THEN {} ELSE Executes("application", {"entry points"}))

OnlyTablesHaveColumns ==
  ColumnsOfTables(acl) /\ (Wiring => ColumnsOfTables(wiring.acl))

\* Before the revision that creates them nobody owns the entry points.
WriterSince ==
  revision < 4 => entryOwner = "owner" /\ (Wiring => wiring.owner = "owner")

\* What a wiring has not committed: the runtime roles' grants, and what was granted
\* meanwhile; once the writer is installed, the plan.
GrantedSoFar ==
  Wiring =>
    /\ revision \in 2..7
    /\ wiring.step \in {"granted", "lent"} =>
         /\ wiring.owner = entryOwner
         /\ GrantRuntimeRoles(Plan) \subseteq wiring.acl
         /\ \A e \in wiring.acl :
              \/ e \in GrantRuntimeRoles(Plan) \/ e \in wiring.meanwhile \/ e.on = "database"
              \/ e.on = "entry points" /\ wiring.owner # "owner"
    /\ wiring.step \in {"installed", "returned"} =>
         /\ PlanGrants \subseteq wiring.acl
         /\ \A e \in wiring.acl :
              e \in PlanGrants \/ e \in wiring.meanwhile \/ e.on = "database"

\* Who the writer is once it is installed, and who reaches it once it is returned.
WriterSoFar ==
  Wiring =>
    /\ wiring.step \in {"installed", "returned"} /\ Plan.writerFunctions # {} =>
         /\ wiring.owner = "lifecycle writer"
         /\ "lifecycle writer" \notin tainted \/ Altered("lifecycle writer") \in wiring.meanwhile
    /\ wiring.step = "returned" =>
         \A m \in members : m.of = "lifecycle writer" => m \in wiring.meanwhile

RolesInv == RolesTypeOK /\ OnlyTablesHaveColumns /\ WriterSince /\ GrantedSoFar /\ WriterSoFar

LEMMA RolesInitInv == RolesInit => RolesInv
<1> SUFFICES ASSUME RolesInit PROVE RolesInv
  OBVIOUS
<1>1. /\ acl \subseteq Entry
      /\ \A e \in acl : e.columns = FALSE
  <2>1. {"database"} \X {"TEMPORARY"} = {<<"database", "TEMPORARY">>}
    OBVIOUS
  <2>2. acl = {[to |-> "PUBLIC", on |-> "database", priv |-> "TEMPORARY", columns |-> FALSE]}
    BY <2>1 DEF RolesInit, Entries
  <2> QED  BY <2>2 DEF Entry, Objects, Privileges, Grantees
<1>2. RolesTypeOK
  <2>1. MaxActs \in Nat
    BY OperatorAssumption DEF OperatorAssumption
  <2>2. /\ revision \in 1..7 /\ entryOwner \in {"owner", "lifecycle writer"} /\ wiring = NoWiring
        /\ defaults = {} /\ members = {} /\ tainted = {} /\ acts \in 0..MaxActs
    BY <2>1 DEF RolesInit
  <2> QED  BY <1>1, <2>2 DEF RolesTypeOK
<1> QED  BY <1>1, <1>2 DEF RolesInit, RolesInv, OnlyTablesHaveColumns, ColumnsOfTables, WriterSince,
             GrantedSoFar, WriterSoFar, Wiring

LEMMA WiringType == RolesTypeOK /\ Wiring => wiring \in Uncommitted
BY DEF RolesTypeOK, Wiring

LEMMA UncommittedIs == \A w \in Uncommitted : w # NoWiring
<1>1. \A w \in Uncommitted : w.step \in Steps
  BY DEF Uncommitted
<1>2. NoWiring.step = "none" /\ "none" \notin Steps
  BY DEF NoWiring, Steps
<1> QED  BY <1>1, <1>2

\* What the operator adds to a wiring under way changes nothing else of it.
LEMMA NotedIs ==
  ASSUME RolesInv, Wiring, NEW what \in Entry \union Joinable \union [role : Roles]
  PROVE  /\ Noted(what) \in Uncommitted
         /\ Noted(what).step = wiring.step /\ Noted(what).acl = wiring.acl
         /\ Noted(what).owner = wiring.owner
         /\ Noted(what).meanwhile = wiring.meanwhile \union {what}
<1>1. wiring \in Uncommitted
  BY WiringType DEF RolesInv
<1> QED  BY <1>1 DEF Noted, Uncommitted

LEMMA HardenAndGrantKeeps == RolesInv /\ HardenAndGrant => RolesInv'
<1> SUFFICES ASSUME RolesInv, HardenAndGrant PROVE RolesInv'
  OBVIOUS
<1> DEFINE open == {e \in acl : ~ (e.on = "database" /\ e.to = "PUBLIC")}
           hardened == SanitizeSchemaPrivileges(open, entryOwner)
<1>1. /\ revision \in 2..7 /\ ~Wiring
      /\ wiring' = [step |-> "granted", acl |-> hardened \union GrantRuntimeRoles(Plan),
                    owner |-> entryOwner, meanwhile |-> {}]
      /\ UNCHANGED <<revision, acl, defaults, members, tainted, entryOwner, acts>>
  BY DEF HardenAndGrant, REVISION_PLANS
<1>2. open \in SUBSET Entry /\ ColumnsOfTables(open)
  BY DEF RolesInv, RolesTypeOK, OnlyTablesHaveColumns, ColumnsOfTables
<1> HIDE DEF open
<1>3. \A e \in hardened :
        /\ e \in open
        /\ e.on = "database" \/ (e.on = "entry points" /\ entryOwner # "owner")
  BY <1>2, SanitizedIs
<1> HIDE DEF hardened
<1>4. \A e \in GrantRuntimeRoles(Plan) : Planned(e, RuntimeGrantees)
  BY <1>1, PlanType, RuntimeGrants DEF Plan
<1>5. wiring' \in Uncommitted
  BY <1>1, <1>2, <1>3, <1>4 DEF Uncommitted, Planned, Steps, RolesInv, RolesTypeOK
<1>6. Plan' = Plan
  BY <1>1 DEF Plan
<1>7. RolesTypeOK' /\ WriterSince'
  BY <1>1, <1>5 DEF RolesInv, RolesTypeOK, WriterSince
<1>8. OnlyTablesHaveColumns'
  BY <1>1, <1>2, <1>3, <1>4 DEF RolesInv, OnlyTablesHaveColumns, ColumnsOfTables, Planned
<1>9. GrantedSoFar' /\ WriterSoFar'
  BY <1>1, <1>3, <1>6 DEF GrantedSoFar, WriterSoFar
<1> QED  BY <1>7, <1>8, <1>9 DEF RolesInv

LEMMA LendWriterKeeps == RolesInv /\ LendWriter => RolesInv'
<1> SUFFICES ASSUME RolesInv, LendWriter PROVE RolesInv'
  OBVIOUS
<1>1. wiring \in Uncommitted /\ wiring # NoWiring
  BY WiringType DEF RolesInv, LendWriter, Wiring
<1>2. /\ wiring.step = "granted" /\ wiring' = [wiring EXCEPT !.step = "lent"]
      /\ members' = members \union {Lent}
      /\ UNCHANGED <<revision, acl, defaults, tainted, entryOwner, acts>>
  BY DEF LendWriter
<1>3. /\ wiring' \in Uncommitted /\ wiring'.step = "lent" /\ wiring'.acl = wiring.acl
      /\ wiring'.owner = wiring.owner /\ wiring'.meanwhile = wiring.meanwhile
  BY <1>1, <1>2 DEF Uncommitted, Steps
<1>4. Plan' = Plan /\ PlanGrants' = PlanGrants
  BY <1>2 DEF Plan, PlanGrants
<1>5. RolesTypeOK' /\ WriterSince' /\ OnlyTablesHaveColumns'
  BY <1>1, <1>2, <1>3 DEF RolesInv, RolesTypeOK, WriterSince, OnlyTablesHaveColumns, ColumnsOfTables,
                          Wiring
<1>6. GrantedSoFar'
  BY <1>1, <1>2, <1>3, <1>4 DEF RolesInv, GrantedSoFar, Wiring
<1>7. WriterSoFar'
  BY <1>3 DEF WriterSoFar
<1> QED  BY <1>5, <1>6, <1>7 DEF RolesInv

\* Whoever may hold an entry point is granted it by the plan, once the writer is
\* installed.
LEMMA EntryPointsGrant ==
  \A e \in Executes("application", {"entry points"}) :
     e \in Entry /\ ~e.columns /\ e.on = "entry points" /\ e.to = "application"
<1>1. "application" \in Grantees /\ {"entry points"} \in SUBSET Functions
  BY GranteeNames, TheFunctions DEF RuntimeGrantees
<1> QED  BY <1>1, ExecutesType

LEMMA InstallLifecycleWriterKeeps == RolesInv /\ InstallLifecycleWriter => RolesInv'
<1> SUFFICES ASSUME RolesInv, InstallLifecycleWriter PROVE RolesInv'
  OBVIOUS
<1> DEFINE stripped == RevokeEverythingFrom("lifecycle writer", wiring.acl, wiring.owner)
           written == ResetEntryPoints(stripped \union GrantWriter(Plan))
<1>1. wiring \in Uncommitted /\ wiring # NoWiring
  BY WiringType DEF RolesInv, InstallLifecycleWriter, Wiring
<1>2. /\ wiring.step = "lent" /\ "lifecycle writer" \notin tainted
      /\ IF Plan.writerFunctions = {}
         THEN wiring' = [wiring EXCEPT !.step = "installed", !.acl = stripped]
         ELSE wiring' = [wiring EXCEPT !.step = "installed", !.owner = "lifecycle writer",
                                       !.acl = written]
      /\ UNCHANGED <<revision, acl, defaults, members, tainted, entryOwner, acts>>
  BY DEF InstallLifecycleWriter, LifecycleWriterAttributesHold
<1>3. /\ revision \in 2..7 /\ wiring.owner = entryOwner
      /\ GrantRuntimeRoles(Plan) \subseteq wiring.acl
      /\ \A e \in wiring.acl :
            \/ e \in GrantRuntimeRoles(Plan) \/ e \in wiring.meanwhile \/ e.on = "database"
            \/ e.on = "entry points" /\ wiring.owner # "owner"
  BY <1>1, <1>2 DEF RolesInv, GrantedSoFar, Wiring
<1>4. /\ Plan \in Plans
      /\ Plan.writerFunctions = {} => GrantWriter(Plan) = {}
      /\ Plan.writerFunctions = {} => wiring.owner = "owner"
      /\ revision < 4 => Plan.writerFunctions = {}
  <2>1. Plan \in Plans /\ (Plan.writerFunctions = {} <=> revision \in {2, 3})
    BY <1>3, PlanType DEF Plan
  <2>2. revision \in {2, 3} => entryOwner = "owner"
    BY DEF RolesInv, WriterSince
  <2>3. Plan.writerFunctions = {} => GrantWriter(Plan) = {}
    BY DEF GrantWriter
  <2>4. revision < 4 => revision \in {2, 3}
    <3>1. revision \in 2..7
      BY <1>3
    <3> QED  BY <3>1
  <2> QED  BY <1>3, <2>1, <2>2, <2>3, <2>4
<1>5. /\ \A e \in GrantRuntimeRoles(Plan) :
            /\ e \in Entry /\ e.to # "lifecycle writer" /\ e.on # "entry points"
            /\ e.columns => e.on \in SchemaTables
      /\ \A e \in GrantWriter(Plan) :
            e \in Entry /\ e.on # "entry points" /\ (e.columns => e.on \in SchemaTables)
  <2>1. "entry points" \notin SchemaTables /\ "entry points" \notin Unowned
    BY TheTables DEF Unowned
  <2> QED  BY <1>4, <2>1, RuntimeGrants, WriterGrants DEF Planned, RuntimeGrantees
<1>6. wiring.acl \subseteq Entry /\ \A e \in wiring.acl : e.columns => e.on \in SchemaTables
  BY <1>1 DEF Uncommitted, RolesInv, OnlyTablesHaveColumns, ColumnsOfTables, Wiring
<1>7. stripped \subseteq wiring.acl /\ GrantRuntimeRoles(Plan) \subseteq stripped
  BY <1>3, <1>5 DEF RevokeEverythingFrom
<1>8. /\ wiring' \in Uncommitted /\ wiring'.step = "installed"
      /\ wiring'.meanwhile = wiring.meanwhile
      /\ IF Plan.writerFunctions = {}
         THEN wiring'.acl = stripped /\ wiring'.owner = wiring.owner
         ELSE wiring'.acl = written /\ wiring'.owner = "lifecycle writer"
  <2>1. written \subseteq Entry
    BY <1>5, <1>6, <1>7, EntryPointsGrant DEF ResetEntryPoints
  <2>2. stripped \subseteq Entry
    BY <1>6, <1>7
  <2> HIDE DEF written, stripped
  <2> QED  BY <1>1, <1>2, <2>1, <2>2 DEF Uncommitted, Steps
<1>9. Plan' = Plan /\ PlanGrants' = PlanGrants
  BY <1>2 DEF Plan, PlanGrants
<1>10. RolesTypeOK'
  BY <1>2, <1>8 DEF RolesInv, RolesTypeOK
<1>11. \A e \in written :
         /\ e.columns => e.on \in SchemaTables
         /\ \/ e \in stripped /\ e.on # "entry points"
            \/ e \in GrantWriter(Plan) \/ e \in Executes("application", {"entry points"})
  BY <1>5, <1>6, <1>7, EntryPointsGrant DEF ResetEntryPoints
<1>12. Plan.writerFunctions # {} => PlanGrants \subseteq written
  BY <1>5, <1>7 DEF PlanGrants, ResetEntryPoints
<1> HIDE DEF written, stripped
<1>13. OnlyTablesHaveColumns'
  BY <1>2, <1>6, <1>7, <1>8, <1>11 DEF RolesInv, OnlyTablesHaveColumns, ColumnsOfTables
<1>14. GrantedSoFar'
  <2>1. PlanGrants \subseteq wiring'.acl
    BY <1>4, <1>7, <1>8, <1>12 DEF PlanGrants
  <2>2. ASSUME NEW e \in wiring'.acl
        PROVE  e \in PlanGrants \/ e \in wiring'.meanwhile \/ e.on = "database"
    <3>1. CASE Plan.writerFunctions = {}
      BY <1>3, <1>4, <1>7, <1>8, <3>1 DEF PlanGrants
    <3>2. CASE Plan.writerFunctions # {}
      BY <1>3, <1>7, <1>8, <1>11, <3>2 DEF PlanGrants
    <3> QED  BY <3>1, <3>2
  <2> QED  BY <1>2, <1>3, <1>8, <1>9, <2>1, <2>2 DEF GrantedSoFar
<1>15. WriterSoFar'
  BY <1>2, <1>8, <1>9 DEF WriterSoFar
<1>16. WriterSince'
  BY <1>2, <1>4, <1>8 DEF WriterSince, RolesInv
<1> QED  BY <1>10, <1>13, <1>14, <1>15, <1>16 DEF RolesInv

LEMMA ReturnWriterKeeps == RolesInv /\ ReturnWriter => RolesInv'
<1> SUFFICES ASSUME RolesInv, ReturnWriter PROVE RolesInv'
  OBVIOUS
<1>1. wiring \in Uncommitted /\ wiring # NoWiring
  BY WiringType DEF RolesInv, ReturnWriter, Wiring
<1>2. /\ wiring.step = "installed" /\ wiring' = [wiring EXCEPT !.step = "returned"]
      /\ members' = members \ {Lent} /\ ~ \E m \in members' : m.of = "lifecycle writer"
      /\ UNCHANGED <<revision, acl, defaults, tainted, entryOwner, acts>>
  BY DEF ReturnWriter, Released, WriterIsReached
<1>3. /\ wiring' \in Uncommitted /\ wiring'.step = "returned" /\ wiring'.acl = wiring.acl
      /\ wiring'.owner = wiring.owner /\ wiring'.meanwhile = wiring.meanwhile
  BY <1>1, <1>2 DEF Uncommitted, Steps
<1>4. Plan' = Plan /\ PlanGrants' = PlanGrants
  BY <1>2 DEF Plan, PlanGrants
<1>5. RolesTypeOK' /\ WriterSince' /\ OnlyTablesHaveColumns'
  BY <1>1, <1>2, <1>3 DEF RolesInv, RolesTypeOK, WriterSince, OnlyTablesHaveColumns, ColumnsOfTables,
                          Wiring
<1>6. GrantedSoFar'
  BY <1>1, <1>2, <1>3, <1>4 DEF RolesInv, GrantedSoFar, Wiring
<1>7. WriterSoFar'
  BY <1>1, <1>2, <1>3, <1>4 DEF RolesInv, WriterSoFar, Wiring, Altered
<1> QED  BY <1>5, <1>6, <1>7 DEF RolesInv

LEMMA EndsKeep == RolesInv /\ (CommitWiring \/ AbortWiring \/ KillWiring) => RolesInv'
<1> SUFFICES ASSUME RolesInv, CommitWiring \/ AbortWiring \/ KillWiring PROVE RolesInv'
  OBVIOUS
<1>1. wiring \in Uncommitted /\ wiring # NoWiring
  BY WiringType DEF RolesInv, CommitWiring, AbortWiring, KillWiring, Wiring
<1>2. /\ wiring' = NoWiring /\ members' \subseteq members
      /\ \/ acl' = wiring.acl /\ entryOwner' = wiring.owner
            /\ wiring.step = "returned"
         \/ UNCHANGED <<acl, entryOwner>>
      /\ UNCHANGED <<revision, defaults, tainted, acts>>
  BY DEF CommitWiring, AbortWiring, KillWiring
<1>3. RolesTypeOK'
  BY <1>1, <1>2 DEF Uncommitted, RolesInv, RolesTypeOK
<1>4. OnlyTablesHaveColumns'
  BY <1>1, <1>2 DEF RolesInv, OnlyTablesHaveColumns, Wiring, ColumnsOfTables
<1>5. WriterSince'
  BY <1>1, <1>2 DEF RolesInv, WriterSince, Wiring
<1>6. GrantedSoFar' /\ WriterSoFar'
  BY <1>2 DEF GrantedSoFar, WriterSoFar, Wiring
<1> QED  BY <1>3, <1>4, <1>5, <1>6 DEF RolesInv

LEMMA CountsActs ==
  ASSUME RolesInv, acts < MaxActs, acts' = acts + 1
  PROVE  acts' \in 0..MaxActs
<1>1. MaxActs \in Nat /\ acts \in 0..MaxActs
  BY OperatorAssumption DEF OperatorAssumption, RolesInv, RolesTypeOK
<1> QED  BY <1>1

LEMMA GrantByHandKeeps ==
  ASSUME RolesInv, NEW e \in Grantable, GrantByHand(e)
  PROVE  RolesInv'
<1>1. /\ e \in Entry /\ (e.columns => e.on \in SchemaTables)
      /\ acts' \in 0..MaxActs
      /\ acl' = acl \union {e} /\ (Wiring => e.columns)
      /\ UNCHANGED <<revision, defaults, members, tainted, entryOwner>>
  BY OperatorAssumption, CountsActs DEF GrantByHand, Acts, OperatorAssumption
<1>2. Plan' = Plan /\ PlanGrants' = PlanGrants
  BY <1>1 DEF Plan, PlanGrants
<1>3. CASE ~Wiring
  <2>1. wiring' = wiring /\ ~Wiring'
    BY <1>3 DEF GrantByHand, Wiring
  <2>2. RolesTypeOK'
    BY <1>1, <2>1 DEF RolesInv, RolesTypeOK
  <2>3. OnlyTablesHaveColumns' /\ WriterSince'
    BY <1>1, <2>1 DEF RolesInv, OnlyTablesHaveColumns, ColumnsOfTables, WriterSince
  <2> QED  BY <2>1, <2>2, <2>3 DEF RolesInv, GrantedSoFar, WriterSoFar
<1>4. CASE Wiring
  <2>1. /\ wiring' = [Noted(e) EXCEPT !.acl = @ \union {e}]
        /\ wiring \in Uncommitted
    BY <1>4, WiringType DEF GrantByHand, RolesInv
  <2>2. /\ wiring' \in Uncommitted /\ wiring'.step = wiring.step
        /\ wiring'.acl = wiring.acl \union {e} /\ wiring'.owner = wiring.owner
        /\ wiring'.meanwhile = wiring.meanwhile \union {e}
    BY <1>1, <1>4, <2>1, NotedIs DEF Uncommitted
  <2>3. RolesTypeOK' /\ WriterSince'
    <3>1. RolesTypeOK'
      BY <1>1, <2>2 DEF RolesInv, RolesTypeOK
    <3>2. WriterSince'
      BY <1>1, <1>4, <2>2 DEF RolesInv, WriterSince
    <3> QED  BY <3>1, <3>2
  <2>4. OnlyTablesHaveColumns'
    BY <1>1, <1>4, <2>2 DEF RolesInv, OnlyTablesHaveColumns, ColumnsOfTables
  <2>5. GrantedSoFar'
    BY <1>1, <1>2, <1>4, <2>2 DEF RolesInv, GrantedSoFar
  <2>6. WriterSoFar'
    BY <1>1, <1>2, <1>4, <2>2 DEF RolesInv, WriterSoFar, Altered
  <2> QED  BY <2>3, <2>4, <2>5, <2>6 DEF RolesInv
<1> QED  BY <1>3, <1>4

\* The operator's other acts: a wiring under way is only told of them.
LEMMA ActsKeep ==
  ASSUME RolesInv,
         NEW what \in Entry \union Joinable \union [role : Roles],
         acts < MaxActs, acts' = acts + 1, wiring' = Noted(what),
         members' \subseteq members \union {what}, tainted' \subseteq Roles,
         members' \subseteq Joinable \union {Lent},
         "lifecycle writer" \in tainted' =>
           "lifecycle writer" \in tainted \/ what = Altered("lifecycle writer"),
         UNCHANGED <<revision, acl, defaults, entryOwner>>
  PROVE  RolesInv'
<1>1. Plan' = Plan /\ PlanGrants' = PlanGrants /\ acts' \in 0..MaxActs
  BY CountsActs DEF Plan, PlanGrants
<1>2. CASE ~Wiring
  <2>1. wiring' = wiring /\ ~Wiring'
    BY <1>2 DEF Noted, Wiring
  <2>2. RolesTypeOK'
    BY <1>1, <2>1 DEF RolesInv, RolesTypeOK
  <2>3. OnlyTablesHaveColumns' /\ WriterSince'
    BY <1>1, <2>1 DEF RolesInv, OnlyTablesHaveColumns, ColumnsOfTables, WriterSince
  <2> QED  BY <2>1, <2>2, <2>3 DEF RolesInv, GrantedSoFar, WriterSoFar
<1>3. CASE Wiring
  <2>1. /\ wiring' \in Uncommitted /\ wiring'.step = wiring.step /\ wiring'.acl = wiring.acl
        /\ wiring'.owner = wiring.owner /\ wiring'.meanwhile = wiring.meanwhile \union {what}
    BY <1>3, NotedIs
  <2>2. RolesTypeOK' /\ WriterSince'
    <3>1. RolesTypeOK'
      BY <1>1, <2>1 DEF RolesInv, RolesTypeOK
    <3>2. WriterSince'
      BY <1>1, <1>3, <2>1 DEF RolesInv, WriterSince
    <3> QED  BY <3>1, <3>2
  <2>3. OnlyTablesHaveColumns'
    BY <1>3, <2>1 DEF RolesInv, OnlyTablesHaveColumns, ColumnsOfTables
  <2>4. GrantedSoFar'
    BY <1>1, <1>3, <2>1 DEF RolesInv, GrantedSoFar
  <2>5. WriterSoFar'
    <3>1. Altered("lifecycle writer")' = Altered("lifecycle writer")
      BY DEF Altered
    <3>2. ASSUME wiring'.step \in {"installed", "returned"}, Plan'.writerFunctions # {}
          PROVE  /\ wiring'.owner = "lifecycle writer"
                 /\ \/ "lifecycle writer" \notin tainted'
                    \/ Altered("lifecycle writer")' \in wiring'.meanwhile
      BY <1>1, <1>3, <2>1, <3>1, <3>2 DEF RolesInv, WriterSoFar
    <3>3. ASSUME wiring'.step = "returned", NEW m \in members', m.of = "lifecycle writer"
          PROVE  m \in wiring'.meanwhile
      BY <1>3, <2>1, <3>3 DEF RolesInv, WriterSoFar
    <3> QED  BY <3>2, <3>3 DEF WriterSoFar
  <2> QED  BY <2>2, <2>3, <2>4, <2>5 DEF RolesInv
<1> QED  BY <1>2, <1>3

LEMMA GrantMembershipKeeps ==
  ASSUME RolesInv, NEW m \in Joinable, GrantMembership(m)
  PROVE  RolesInv'
<1>1. /\ acts < MaxActs /\ acts' = acts + 1 /\ wiring' = Noted(m)
      /\ members' = members \union {m}
      /\ UNCHANGED <<revision, acl, defaults, tainted, entryOwner>>
  BY DEF GrantMembership, Acts
<1>2. members' \subseteq Joinable \union {Lent} /\ tainted' \subseteq Roles
  BY <1>1 DEF RolesInv, RolesTypeOK
<1> QED  BY <1>1, <1>2, ActsKeep

LEMMA AlterRoleKeeps ==
  ASSUME RolesInv, NEW r \in Taintable, AlterRole(r)
  PROVE  RolesInv'
<1>1. /\ acts < MaxActs /\ acts' = acts + 1 /\ wiring' = Noted(Altered(r))
      /\ tainted' \subseteq tainted \union {r}
      /\ UNCHANGED <<revision, acl, defaults, members, entryOwner>>
  BY DEF AlterRole, Acts
<1>2. /\ r \in Roles /\ tainted' \subseteq Roles /\ members' \subseteq Joinable \union {Lent}
      /\ Altered(r) \in Entry \union Joinable \union [role : Roles]
  BY <1>1, OperatorAssumption DEF OperatorAssumption, RolesInv, RolesTypeOK, Altered
<1>3. "lifecycle writer" \in tainted' =>
        "lifecycle writer" \in tainted \/ Altered(r) = Altered("lifecycle writer")
  BY <1>1
<1> QED  BY <1>1, <1>2, <1>3, ActsKeep

LEMMA OthersKeep ==
  ASSUME RolesInv,
         \/ \E d \in DefaultRules : AlterDefaultPrivileges(d)
         \/ \E m \in Joinable : RevokeMembership(m)
         \/ UNCHANGED rolesVars
  PROVE  RolesInv'
<1>1. /\ members' \subseteq members /\ defaults' \subseteq DefaultRules
      /\ acts' \in 0..MaxActs
      /\ UNCHANGED <<revision, acl, tainted, entryOwner, wiring>>
  <2>1. acts \in 0..MaxActs /\ defaults \subseteq DefaultRules
    BY DEF RolesInv, RolesTypeOK
  <2>2. CASE \E d \in DefaultRules : AlterDefaultPrivileges(d)
    BY <2>1, <2>2, CountsActs DEF AlterDefaultPrivileges, Acts
  <2>3. CASE (\E m \in Joinable : RevokeMembership(m)) \/ UNCHANGED rolesVars
    BY <2>1, <2>3 DEF RevokeMembership, rolesVars
  <2> QED  BY <2>2, <2>3
<1>2. Plan' = Plan /\ PlanGrants' = PlanGrants /\ (Wiring' <=> Wiring)
  BY <1>1 DEF Plan, PlanGrants, Wiring
<1>3. RolesTypeOK' /\ WriterSince' /\ OnlyTablesHaveColumns'
  BY <1>1, <1>2 DEF RolesInv, RolesTypeOK, WriterSince, OnlyTablesHaveColumns, ColumnsOfTables
<1>4. GrantedSoFar'
  BY <1>1, <1>2 DEF RolesInv, GrantedSoFar
<1>5. WriterSoFar'
  BY <1>1, <1>2 DEF RolesInv, WriterSoFar, Altered
<1> QED  BY <1>3, <1>4, <1>5 DEF RolesInv

-----------------------------------------------------------------------------
(* Migrations. *)

\* What a migration finds and creates, before it takes anything back.
Migrated(r) ==
  {e \in acl : e.on \in ObjectsAt(r)} \union Created(ObjectsAt(r) \ ObjectsAt(revision))

LEMMA MigratedType ==
  ASSUME RolesInv, NEW r \in Int
  PROVE  /\ Migrated(r) \in SUBSET Entry /\ ColumnsOfTables(Migrated(r))
         /\ \A e \in Migrated(r) : e \in acl \/ e.on \in ObjectsAt(r) \ ObjectsAt(revision)
<1> DEFINE new == ObjectsAt(r) \ ObjectsAt(revision)
<1>1. RolesTypeOK /\ new \in SUBSET Objects
  BY ObjectsType DEF RolesInv
<1> HIDE DEF new
<1>2. \A e \in Created(new) : e \in Entry /\ ~e.columns /\ e.on \in new
  BY <1>1, CreatedType
<1>3. Migrated(r) = {e \in acl : e.on \in ObjectsAt(r)} \union Created(new)
  BY DEF Migrated, new
<1>4. acl \subseteq Entry /\ ColumnsOfTables(acl)
  BY DEF RolesInv, RolesTypeOK, OnlyTablesHaveColumns
<1>5. \A e \in Migrated(r) : (e \in acl) \/ (e \in Entry /\ ~e.columns /\ e.on \in new)
  BY <1>2, <1>3
<1> QED  BY <1>4, <1>5 DEF ColumnsOfTables, new

LEMMA UpgradeIs ==
  ASSUME RolesInv, Upgrade
  PROVE  /\ revision \in 1..6 /\ revision' = revision + 1 /\ ~Wiring
         /\ acl' \subseteq Migrated(revision + 1)
         /\ revision + 1 \in 3..6 =>
              acl' = SanitizeSchemaPrivileges(Migrated(revision + 1), entryOwner)
         /\ UNCHANGED <<defaults, members, tainted, entryOwner, wiring, acts>>
<1>1. revision \in 1..6
  <2>1. revision \in 1..7 /\ revision < 7
    BY DEF RolesInv, RolesTypeOK, Upgrade
  <2> QED  BY <2>1
<1>2. \/ revision + 1 \in 3..6 /\ acl' = SanitizeSchemaPrivileges(Migrated(revision + 1), entryOwner)
      \/ revision + 1 \notin 3..6
         /\ acl' = FromPublicOn(Migrated(revision + 1), ObjectsAt(revision + 1) \ ObjectsAt(revision))
  BY DEF Upgrade, Migrated
<1>3. Migrated(revision + 1) \in SUBSET Entry /\ ColumnsOfTables(Migrated(revision + 1))
  BY <1>1, MigratedType
<1>4. acl' \subseteq Migrated(revision + 1)
  BY <1>2, <1>3, SanitizedIs DEF FromPublicOn
<1> QED  BY <1>1, <1>2, <1>4 DEF Upgrade

LEMMA DowngradeIs ==
  ASSUME RolesInv, Downgrade
  PROVE  /\ revision \in 2..7 /\ revision' = revision - 1 /\ ~Wiring
         /\ acl' \subseteq Migrated(revision - 1)
         /\ entryOwner' = IF revision = 4 THEN "owner" ELSE entryOwner
         /\ UNCHANGED <<defaults, members, tainted, wiring, acts>>
<1>1. revision \in 2..7
  <2>1. revision \in 1..7 /\ revision > 1
    BY DEF RolesInv, RolesTypeOK, Downgrade
  <2> QED  BY <2>1
<1>2. acl' \subseteq Migrated(revision - 1)
  BY DEF Downgrade, Migrated, FromPublicOn, WriterPrivilegesToRevoke
<1> QED  BY <1>1, <1>2 DEF Downgrade

LEMMA MigrationsKeep == RolesInv /\ (Upgrade \/ Downgrade) => RolesInv'
<1> SUFFICES ASSUME RolesInv, Upgrade \/ Downgrade PROVE RolesInv'
  OBVIOUS
<1>1. /\ ~Wiring /\ revision \in 1..7 /\ revision' \in 1..7
      /\ \E r \in Int : acl' \subseteq Migrated(r)
      /\ UNCHANGED <<defaults, members, tainted, wiring, acts>>
      /\ entryOwner' \in {"owner", entryOwner}
      /\ revision' < 4 => entryOwner' = "owner"
  <2>1. CASE Upgrade
    <3>1. revision' < 4 => revision < 4
      BY <2>1, UpgradeIs
    <3> QED  BY <2>1, <3>1, UpgradeIs DEF RolesInv, WriterSince
  <2>2. CASE Downgrade
    <3>1. revision' < 4 => revision < 4 \/ revision = 4
      BY <2>2, DowngradeIs
    <3> QED  BY <2>2, <3>1, DowngradeIs DEF RolesInv, WriterSince
  <2> QED  BY <2>1, <2>2
<1>2. acl' \subseteq Entry /\ ColumnsOfTables(acl')
  BY <1>1, MigratedType DEF ColumnsOfTables
<1>3. ~Wiring'
  BY <1>1 DEF Wiring
<1>4. RolesTypeOK'
  BY <1>1, <1>2 DEF RolesInv, RolesTypeOK
<1> QED  BY <1>1, <1>2, <1>3, <1>4 DEF RolesInv, OnlyTablesHaveColumns, WriterSince, GrantedSoFar,
             WriterSoFar, ColumnsOfTables

LEMMA NextKeepsRolesInv == RolesInv /\ [RolesNext]_rolesVars => RolesInv'
BY MigrationsKeep, HardenAndGrantKeeps, LendWriterKeeps, InstallLifecycleWriterKeeps,
   ReturnWriterKeeps, EndsKeep, GrantByHandKeeps, GrantMembershipKeeps, AlterRoleKeeps, OthersKeep
   DEF RolesNext

LEMMA RolesInvariant == RolesSpec => []RolesInv
BY RolesInitInv, NextKeepsRolesInv, PTL DEF RolesSpec

-----------------------------------------------------------------------------
(* The theorems. *)

\* Every variable keeps its type, whatever an operator may grant.
THEOREM RolesTypeCorrect == RolesSpec => []RolesTypeOK
<1>1. RolesInv => RolesTypeOK
  BY DEF RolesInv
<1> QED  BY <1>1, RolesInvariant, PTL

\* No protected table and no internal function is new at a revision the sanitiser
\* does not end, nor on the way down.
LEMMA NoNewInternals ==
  ASSUME NEW from \in 1..7, NEW to \in 1..7,
         to = from - 1 \/ (to = from + 1 /\ to \in {2, 7}),
         NEW x \in Internal, x \in ObjectsAt(to)
  PROVE  x \in ObjectsAt(from)
<1>1. CASE x \in PROTECTED_TABLES
  <2>1. x \in SchemaTables /\ TableSince[x] \in {3, 4, 5, 6}
    BY <1>1, InternalObjects, InternalSince
  <2>2. TableSince[x] <= to
    BY <2>1, Distinct DEF ObjectsAt, TablesAt, FunctionsAt
  <2>3. TableSince[x] <= from
    BY <2>1, <2>2
  <2> QED  BY <2>1, <2>3 DEF ObjectsAt, TablesAt
<1>2. CASE x \in INTERNAL_FUNCTIONS
  <2>1. x \in Functions /\ x # "app_current_tenant_id" /\ FunctionSince[x] \in {3, 4, 5, 6}
    BY <1>2, InternalObjects, InternalSince
  <2>2. FunctionSince[x] <= to
    BY <2>1, Distinct DEF ObjectsAt, TablesAt, FunctionsAt
  <2>3. FunctionSince[x] <= from
    BY <2>1, <2>2
  <2> QED  BY <2>1, <2>3 DEF ObjectsAt, FunctionsAt
<1> QED  BY <1>1, <1>2 DEF Internal

\* Whatever the defaults say, no migration gives anyone a privilege on what nobody
\* is to hold one on: those of 3 to 6 end with the sanitiser, and the others
\* create nothing of the kind.
THEOREM NoMigrationGrants == RolesSpec => MigrationsGrantNothing
<1> DEFINE Kept == revision' # revision =>
             \A e \in acl' : e.on \in PROTECTED_TABLES \union INTERNAL_FUNCTIONS => e \in acl
<1>1. RolesInv /\ [RolesNext]_rolesVars => [Kept]_rolesVars
  <2> SUFFICES ASSUME RolesInv, RolesNext, revision' # revision,
                      NEW e \in acl', e.on \in Internal
               PROVE  e \in acl
    BY DEF Internal
  <2>1. CASE Upgrade
    <3>1. /\ revision \in 1..6 /\ revision + 1 \in 1..7 /\ e \in Migrated(revision + 1)
      BY <2>1, UpgradeIs
    <3>2. /\ Migrated(revision + 1) \in SUBSET Entry /\ ColumnsOfTables(Migrated(revision + 1))
          /\ e \in acl \/ e.on \in ObjectsAt(revision + 1) \ ObjectsAt(revision)
      BY <3>1, MigratedType
    <3>3. CASE revision + 1 \in 3..6
      <4>1. e \in SanitizeSchemaPrivileges(Migrated(revision + 1), entryOwner)
        BY <2>1, <3>3, UpgradeIs
      <4>2. e.on = "database" \/ e.on = "entry points"
        BY <3>2, <4>1, SanitizedIs
      <4> QED  BY <4>2, InternalObjects, TheTables, TheFunctions DEF Internal
    <3>4. CASE revision + 1 \in {2, 7}
      BY <3>1, <3>2, <3>4, NoNewInternals
    <3>5. revision + 1 \in 3..6 \/ revision + 1 \in {2, 7}
      BY <3>1
    <3> QED  BY <3>3, <3>4, <3>5
  <2>2. CASE Downgrade
    <3>1. /\ revision \in 2..7 /\ revision - 1 \in 1..7 /\ e \in Migrated(revision - 1)
      BY <2>2, DowngradeIs
    <3>2. e \in acl \/ e.on \in ObjectsAt(revision - 1) \ ObjectsAt(revision)
      BY <3>1, MigratedType
    <3> QED  BY <3>1, <3>2, NoNewInternals
  <2>3. CASE ~Upgrade /\ ~Downgrade
    BY <2>3 DEF RolesNext, HardenAndGrant, LendWriter, InstallLifecycleWriter, ReturnWriter,
                CommitWiring, AbortWiring, KillWiring, GrantByHand, AlterDefaultPrivileges,
                GrantMembership, RevokeMembership, AlterRole
  <2> QED  BY <2>1, <2>2, <2>3
<1> QED  BY <1>1, RolesInvariant, PTL DEF RolesSpec, MigrationsGrantNothing

-----------------------------------------------------------------------------
(* The check of a pooled connection. *)

\* A role that reaches nobody is where no membership leads out of.
LEMMA ReachesNobody ==
  ASSUME NEW r \in Roles, NEW ms, \A m \in ms : m.of \in Roles, Closure({r}, ms) = {r}
  PROVE  ClosedUnder({r}, ms)
<1> SUFFICES ASSUME NEW m \in ms, m.member = r PROVE m.of = r
  BY DEF ClosedUnder
<1>1. \A some \in SUBSET ms :
        ClosedUnder({r} \union {n.of : n \in some}, ms) => m.of \in {r} \union {n.of : n \in some}
  BY DEF ClosedUnder
<1>2. m.of \in Closure({r}, ms)
  BY <1>1 DEF Closure
<1> QED  BY <1>2

LEMMA StaysWhereNothingLeads ==
  ASSUME NEW r \in Roles, NEW ms, ClosedUnder({r}, ms)
  PROVE  Closure({r}, ms) = {r}
<1>1. {r} \union {m.of : m \in {}} = {r}
  OBVIOUS
<1>2. r \in Closure({r}, ms)
  BY DEF Closure
<1>3. \A x \in Closure({r}, ms) : x = r
  BY <1>1 DEF Closure
<1> QED  BY <1>2, <1>3

\* A connection that the check admits can do nothing with a protected table or an
\* internal function, in any role it can become and with what that role inherits.
THEOREM AdmissionIsEnough == RolesSpec => []AdmittedReachNothing
<1>1. RolesInv => AdmittedReachNothing
  <2> SUFFICES ASSUME RolesInv, NEW r \in Runtime, IsSafe(r), NEW p \in Powers(r)
               PROVE  /\ p \notin tainted /\ p # "owner"
                      /\ ~ \E e \in acl : e.on \in Internal /\ e.to \in {p, "PUBLIC"}
    BY DEF AdmittedReachNothing, Internal
  <2>1. r \in Roles /\ r # "owner" /\ \A m \in members : m.of \in Roles
    <3>1. \A m \in members : m \in Joinable \/ m = Lent
      BY DEF RolesInv, RolesTypeOK
    <3>2. \A m \in Joinable : m.of \in Roles
      BY OperatorAssumption DEF OperatorAssumption, Membership
    <3>3. r \in Roles /\ r # "owner"
      BY DEF Runtime, Roles
    <3>4. Lent.of \in Roles
      BY DEF Lent, Roles
    <3> QED  BY <3>1, <3>2, <3>3, <3>4
  <2>2. /\ Closure({r}, members) = {r} /\ r \notin tainted
        /\ PrivilegedObjects({r}) = {} /\ PrivilegedColumns({r}) = {}
    BY DEF IsSafe, Reachable
  <2>3. ClosedUnder({r}, members)
    BY <2>1, <2>2, ReachesNobody
  <2>4. Powers(r) = {r}
    <3>1. \A ms \in SUBSET members : ClosedUnder({r}, ms)
      BY <2>3 DEF ClosedUnder
    <3>2. \A ms \in SUBSET members : Closure({r}, ms) = {r}
      BY <2>1, <3>1, StaysWhereNothingLeads
    <3> QED  BY <3>2 DEF Powers
  <2>5. ASSUME NEW e \in acl, e.on \in Internal, e.to \in {r, "PUBLIC"}
        PROVE  FALSE
    <3>1. e.columns => e.on \in PROTECTED_TABLES
      BY <2>5, InternalObjects, Distinct DEF RolesInv, OnlyTablesHaveColumns, ColumnsOfTables, Internal
    <3> QED  BY <2>2, <2>5, <3>1 DEF PrivilegedObjects, PrivilegedColumns, ACLOf, Internal
  <2> QED  BY <2>1, <2>2, <2>4, <2>5
<1> QED  BY <1>1, RolesInvariant, PTL

-----------------------------------------------------------------------------
(* What a wiring leaves. *)

\* Once a wiring has committed the schema's ACLs are the plan of its revision, and
\* the writer is one nobody can become, but for what was granted while it ran.
THEOREM WiringMakesThePlan == RolesSpec => WiringIsExact
<1>1. RolesInv /\ [RolesNext]_rolesVars => [Commits => GrantsAreThePlan /\ WriterIsNobody]_rolesVars
  <2> SUFFICES ASSUME RolesInv, RolesNext, Commits PROVE GrantsAreThePlan /\ WriterIsNobody
    OBVIOUS
  <2>1. /\ Wiring /\ wiring.step = "returned" /\ wiring' = NoWiring
        /\ acl' = wiring.acl /\ entryOwner' = wiring.owner
    BY DEF Commits
  <2>2. members' \subseteq members /\ tainted' = tainted
    <3>1. CASE CommitWiring \/ AbortWiring \/ KillWiring
      BY <3>1 DEF CommitWiring, AbortWiring, KillWiring
    <3>2. \A what \in Entry \union Joinable \union [role : Roles] : Noted(what) # NoWiring
      BY <2>1, NotedIs, UncommittedIs
    <3>3. \A r \in Taintable : ~AlterRole(r)
      BY <2>1, <3>2, OperatorAssumption DEF AlterRole, Altered, OperatorAssumption
    <3>4. \A m \in Joinable : ~GrantMembership(m)
      BY <2>1, <3>2 DEF GrantMembership
    <3> QED  BY <2>1, <3>1, <3>3, <3>4 DEF RolesNext, Upgrade, Downgrade, HardenAndGrant, LendWriter,
                 InstallLifecycleWriter, ReturnWriter, GrantByHand, AlterDefaultPrivileges,
                 RevokeMembership
  <2>3. /\ PlanGrants \subseteq wiring.acl
        /\ \A e \in wiring.acl :
              e \in PlanGrants \/ e \in wiring.meanwhile \/ e.on = "database"
        /\ revision \in 2..7
    BY <2>1 DEF RolesInv, GrantedSoFar
  <2>4. \A e \in PlanGrants : e.on # "database"
    <3>1. Plan \in Plans
      BY <2>3, PlanType DEF Plan
    <3>2. \A e \in GrantRuntimeRoles(Plan) \union GrantWriter(Plan) :
            e.on = "schema" \/ e.on \in SchemaTables \/ e.on \in Functions
      BY <3>1, RuntimeGrants, WriterGrants DEF Planned, Unowned
    <3> QED  BY <3>2, Distinct, EntryPointsGrant DEF PlanGrants
  <2>5. GrantsAreThePlan
    <3>1. {e \in acl' : e.on # "database"} \ wiring.meanwhile = PlanGrants \ wiring.meanwhile
      BY <2>1, <2>3, <2>4
    <3> QED  BY <3>1 DEF GrantsAreThePlan, PlanGrants
  <2>6. WriterIsNobody
    BY <2>1, <2>2 DEF WriterIsNobody, RolesInv, WriterSoFar, LifecycleWriterRole
  <2> QED  BY <2>5, <2>6
<1> QED  BY <1>1, RolesInvariant, PTL DEF RolesSpec, WiringIsExact

-----------------------------------------------------------------------------
(* A disposable database. *)

\* An object of this process's is under that name.
Left(n) == server[n].oid \in made

\* Every OID in use has been given out.
Issued ==
  /\ \A n \in Names : server[n].oid <= lastOid
  /\ \A o \in created : o.oid <= lastOid
  /\ \A i \in made : i <= lastOid

\* A role is created only while one is missing.
RolesToCreate ==
  /\ At("attest") => created = {}
  /\ At("roles") => IsFiniteSet(created) /\ Cardinality(created) <= 2

\* What was created is known, and what is known by its OID is what was created; a
\* record of the database may be of another's, until it is found to be the owner's.
RolesAreRecorded == \A n \in RoleSet : Left(n) => Recorded(n)
RoleRecordsAreOurs ==
  \A o \in created : o.name # Database =>
    \A n \in Names : server[n].oid = o.oid => o.oid \in made
DatabaseIsOurs ==
  There(Database) /\ server[Database].owner # 0 =>
    \/ Left(Database)
    \/ /\ stage[1] \notin Setup \union {"release", "drop database"}
       /\ \A o \in created : o.name = Database => o.oid # server[Database].oid

\* The owner outlives its database.
DatabaseHoldsItsOwner ==
  Left(Database) =>
    There(OwnerRole) /\ OwnerOid \in server[Database].uses /\ Recorded(OwnerRole)

Later == {"create", "record", "comment", "reread", "configure", "prepare"}
WhatIsRecorded ==
  /\ stage[1] \in Later => Recorded(OwnerRole)
  /\ stage[1] \in {"comment", "reread"} => Recorded(Database)

Reported(n) == n \in problems \/ (n = Database /\ OwnerRole \in problems)

\* The cleanup has been at this name and has gone on.
Passed(n) ==
  \/ n = Database /\ target # OwnerRole
  \/ n # Database /\ NextTarget(n) < NextTarget(target)

\* What was passed is gone or reported; outside the cleanup nothing was passed.
WhatIsReported ==
  /\ stage[1] \in {"drop roles", "rename"} =>
       /\ \A n \in Names : Passed(n) /\ Left(n) => Reported(n)
       /\ target # OwnerRole => RolesRecorded # {}
       /\ At("rename") => target \in RolesRecorded
  /\ stage[1] \notin {"drop roles", "rename", "interrupted"} => target = OwnerRole

DispInv ==
  /\ DisposableTypeOK /\ Issued /\ RolesToCreate /\ RolesAreRecorded /\ RoleRecordsAreOurs
  /\ DatabaseIsOurs /\ DatabaseHoldsItsOwner /\ WhatIsRecorded /\ WhatIsReported
  /\ NothingIsLeftSilently

-----------------------------------------------------------------------------
(* The names, and the stages. *)

LEMMA TheRoles ==
  /\ Len(RoleNames) = 3 /\ RoleNames[1] = OwnerRole
  /\ RoleNames[2] = "application role" /\ RoleNames[3] = "writer role"
  /\ RoleSet = {OwnerRole, "application role", "writer role"}
  /\ Database \notin RoleSet /\ OwnerRole \in RoleSet
<1>1. /\ Len(RoleNames) = 3 /\ RoleNames[1] = OwnerRole
      /\ RoleNames[2] = "application role" /\ RoleNames[3] = "writer role"
  BY DEF RoleNames
<1>2. 1..3 = {1, 2, 3}
  OBVIOUS
<1>3. RoleSet = {RoleNames[1], RoleNames[2], RoleNames[3]}
  BY <1>1, <1>2 DEF RoleSet
<1> QED  BY <1>1, <1>3 DEF OwnerRole, Database

LEMMA Positions ==
  /\ NextTarget(OwnerRole) = 1 /\ NextTarget("application role") = 2
  /\ NextTarget("writer role") = 3
<1>1. \A n \in RoleSet : NextTarget(n) = CHOOSE i \in 1..3 : RoleNames[i] = n
  BY TheRoles DEF NextTarget
<1>2. \A i \in 1..3 : i = 1 \/ i = 2 \/ i = 3
  OBVIOUS
<1>3. OwnerRole # "application role" /\ OwnerRole # "writer role"
  BY DEF OwnerRole
<1>4. /\ \A i \in 1..3 : RoleNames[i] = OwnerRole <=> i = 1
      /\ \A i \in 1..3 : RoleNames[i] = "application role" <=> i = 2
      /\ \A i \in 1..3 : RoleNames[i] = "writer role" <=> i = 3
  BY <1>2, <1>3, TheRoles
<1>5. 1 \in 1..3 /\ 2 \in 1..3 /\ 3 \in 1..3
  OBVIOUS
<1>6. NextTarget(OwnerRole) = 1
  BY <1>1, <1>4, <1>5, TheRoles
<1>7. NextTarget("application role") = 2
  BY <1>1, <1>4, <1>5, TheRoles
<1>8. NextTarget("writer role") = 3
  BY <1>1, <1>4, <1>5, TheRoles
<1> QED  BY <1>6, <1>7, <1>8

\* The order in which the roles are dropped.
LEMMA InOrder ==
  /\ \A n \in RoleSet : NextTarget(n) \in 1..3 /\ ~ (NextTarget(n) < NextTarget(OwnerRole))
  /\ \A i \in 1..3 : RoleNames[i] \in RoleSet /\ NextTarget(RoleNames[i]) = i
  /\ \A m, n \in RoleSet : NextTarget(n) <= NextTarget(m) => NextTarget(n) < NextTarget(m) \/ n = m
  /\ \A m, n \in RoleSet : NextTarget(n) < NextTarget(m) + 1 => NextTarget(n) < NextTarget(m) \/ n = m
  /\ \A m, n \in RoleSet : ~ (NextTarget(m) <= NextTarget(n)) => NextTarget(n) + 1 \in 1..3
<1>1. \A n \in RoleSet : n = OwnerRole \/ n = "application role" \/ n = "writer role"
  BY TheRoles
<1>2. \A n \in RoleSet : NextTarget(n) \in 1..3 /\ ~ (NextTarget(n) < NextTarget(OwnerRole))
  <2>1. \A n \in RoleSet : NextTarget(n) = 1 \/ NextTarget(n) = 2 \/ NextTarget(n) = 3
    BY <1>1, Positions
  <2>2. \A i : i = 1 \/ i = 2 \/ i = 3 => i \in 1..3 /\ ~ (i < 1)
    OBVIOUS
  <2> QED  BY <2>1, <2>2, Positions
<1>3. \A i \in 1..3 : RoleNames[i] \in RoleSet /\ NextTarget(RoleNames[i]) = i
  <2>1. \A i \in 1..3 : i = 1 \/ i = 2 \/ i = 3
    OBVIOUS
  <2> QED  BY <2>1, TheRoles, Positions
<1>4. \A m, n \in RoleSet : NextTarget(m) = NextTarget(n) => m = n
  <2>1. \A n \in RoleSet : RoleNames[NextTarget(n)] = n
    BY <1>1, Positions, TheRoles
  <2> QED  BY <2>1
<1>5. \A i, j \in 1..3 : /\ i <= j => i < j \/ i = j
                         /\ i < j + 1 => i < j \/ i = j
                         /\ ~ (i <= j) => j + 1 \in 1..3
  OBVIOUS
<1> QED  BY <1>2, <1>3, <1>4, <1>5

LEMMA StageType ==
  /\ \A s \in Setup : <<s, "setup">> \in Stages
  /\ \A s \in Cleanup, p \in {"setup", "teardown"} : <<s, p>> \in Stages
  /\ \A s \in {"ready", "failed", "gone", "interrupted"} : <<s, "end">> \in Stages
  /\ \A s \in Stages :
       /\ s[1] \in Setup => s[2] = "setup"
       /\ s[1] \in Cleanup => s[2] \in {"setup", "teardown"}
BY DEF Stages, Setup, Cleanup

\* Where a step of the setup may go.
LEMMA SetupGoes ==
  ASSUME DispInv, stage[1] \in Setup, NEW s \in Setup \union {"clean up"},
         stage' = <<s, stage[2]>> \/ stage' = <<s, "setup">>
  PROVE  stage' \in Stages /\ stage'[1] = s
<1>1. stage[2] = "setup"
  BY StageType DEF DispInv, DisposableTypeOK
<1>2. stage' = <<s, "setup">>
  BY <1>1
<1>3. <<s, "setup">> \in Stages
  BY StageType DEF Cleanup
<1> QED  BY <1>2, <1>3

LEMMA Chooses ==
  ASSUME NEW A, NEW t \in A \X {"setup"} PROVE \E s \in A : t = <<s, "setup">>
OBVIOUS

LEMMA SetupChooses ==
  ASSUME NEW A \in SUBSET (Setup \union {"clean up"}), stage' \in A \X {"setup"}
  PROVE  stage' \in Stages /\ stage'[1] \in A
<1>1. PICK s \in A : stage' = <<s, "setup">>
  BY Chooses
<1>2. <<s, "setup">> \in Stages
  BY StageType DEF Cleanup
<1> QED  BY <1>1, <1>2

LEMMA NewObjectType ==
  ASSUME NEW marker \in Markers, NEW owner \in 0..MaxOids, lastOid \in 0..MaxOids, lastOid < MaxOids
  PROVE  /\ NewObject(marker, owner) \in Object
         /\ NewObject(marker, owner).oid = lastOid + 1
         /\ NewObject(marker, owner).owner = owner
         /\ NewObject(marker, owner).uses = {owner} \ {0}
         /\ lastOid + 1 \in 1..MaxOids
<1>1. lastOid + 1 \in 1..MaxOids /\ {owner} \ {0} \subseteq 1..MaxOids
  BY OidsAssumption DEF OidsAssumption
<1> QED  BY <1>1 DEF NewObject, Object

LEMMA ServerType ==
  ASSUME DispInv, NEW n \in Names
  PROVE  /\ There(n) => server[n] \in Object
         /\ server[n].oid \in 0..MaxOids
         /\ Left(n) => There(n)
         /\ lastOid + 1 \notin made /\ 0 \notin made
         /\ ~There(n) <=> server[n] = NoObject
         /\ OwnerRole \in Names /\ Database \in Names
<1>1. /\ server[n] \in Object \union {NoObject} /\ made \subseteq 1..MaxOids
      /\ lastOid \in 0..MaxOids /\ \A i \in made : i <= lastOid
  BY DEF DispInv, DisposableTypeOK, Issued
<1>2. NoObject.oid = 0 /\ MaxOids \in Nat
  BY OidsAssumption DEF NoObject, OidsAssumption
<1>3. lastOid + 1 \notin made /\ 0 \notin made
  BY <1>1, <1>2
<1>4. \A x \in Object : x.oid \in 1..MaxOids
  BY DEF Object
<1>5. There(n) => server[n] \in Object
  BY <1>1 DEF There
<1>6. server[n].oid \in 0..MaxOids
  BY <1>1, <1>2, <1>4
<1>7. Left(n) => There(n)
  BY <1>2, <1>3 DEF Left, There
<1>8. OwnerRole \in Names /\ Database \in Names
  BY TheRoles DEF Names
<1> QED  BY <1>3, <1>5, <1>6, <1>7, <1>8 DEF There

LEMMA InitInv == DisposableInit => DispInv
<1> SUFFICES ASSUME DisposableInit PROVE DispInv
  OBVIOUS
<1>1. /\ server \in [Names -> Object \union {NoObject}]
      /\ \A n \in Names : server[n] = NoObject
      /\ lastOid = 0 /\ stage = <<"attest", "setup">> /\ created = {} /\ target = OwnerRole
      /\ problems = {} /\ made = {} /\ others = 0
  BY DEF DisposableInit
<1>2. DisposableTypeOK
  <2>1. stage \in Stages
    BY <1>1, StageType DEF Setup
  <2>2. lastOid \in 0..MaxOids /\ others \in 0..MaxOthers
    BY <1>1, OidsAssumption DEF OidsAssumption
  <2> QED  BY <1>1, <2>1, <2>2, TheRoles DEF DisposableTypeOK
<1>3. stage[1] = "attest" /\ stage[1] \notin Later /\ NoObject.oid = 0
  BY <1>1 DEF Later, NoObject
<1>4. Issued /\ RolesAreRecorded /\ DatabaseHoldsItsOwner /\ NothingIsLeftSilently
  <2>1. \A n \in Names : server[n].oid = 0 /\ ~Left(n)
    BY <1>1, <1>3 DEF Left
  <2>2. RoleSet \subseteq Names /\ Database \in Names
    BY DEF Names
  <2> QED  BY <1>1, <2>1, <2>2 DEF Issued, RolesAreRecorded, DatabaseHoldsItsOwner,
               NothingIsLeftSilently, Left
<1>5. RolesToCreate /\ RoleRecordsAreOurs /\ WhatIsRecorded /\ WhatIsReported /\ DatabaseIsOurs
  BY <1>1, <1>3, TheRoles DEF RolesToCreate, RoleRecordsAreOurs, WhatIsRecorded, WhatIsReported,
     DatabaseIsOurs, At, There, Names
<1> QED  BY <1>2, <1>4, <1>5 DEF DispInv

-----------------------------------------------------------------------------
(* What most steps leave as it was. *)

\* What is not created anew is who it was, if it is there.
LEMMA ServerKeeps ==
  ASSUME DispInv, UNCHANGED <<lastOid, created, made>>,
         server' \in [Names -> Object \union {NoObject}],
         \A n \in Names :
           \/ server'[n] = NoObject
           \/ There(n) /\ server'[n].oid = server[n].oid /\ server'[n].owner = server[n].owner,
         server'[OwnerRole] = server[OwnerRole] \/ ~InUse(OwnerRole),
         OwnerOid \in server[Database].uses =>
           server'[Database] = NoObject \/ OwnerOid \in server'[Database].uses
  PROVE  /\ Issued' /\ RolesAreRecorded' /\ RoleRecordsAreOurs' /\ DatabaseHoldsItsOwner'
         /\ \A n \in Names : Left(n)' => Left(n)
         /\ There(Database)' => /\ There(Database) /\ server'[Database].oid = server[Database].oid
                               /\ server'[Database].owner = server[Database].owner
<1>1. NoObject.oid = 0 /\ 0 \notin made /\ lastOid \in 0..MaxOids
  BY ServerType, TheRoles DEF NoObject, DispInv, DisposableTypeOK, Names
<1>2. \A n \in Names : server'[n].oid = 0 \/ (There(n) /\ server'[n].oid = server[n].oid)
  BY <1>1
<1>3. \A n \in Names : Left(n)' => Left(n) /\ server'[n] # NoObject
  BY <1>1, <1>2 DEF Left
<1>4. Issued'
  BY <1>1, <1>2 DEF DispInv, Issued
<1>5. RoleSet \subseteq Names /\ Database \in Names /\ OwnerRole \in Names
  BY TheRoles DEF Names
<1>6. RolesAreRecorded'
  BY <1>3, <1>5 DEF DispInv, RolesAreRecorded, Recorded
<1>7. RoleRecordsAreOurs'
  <2>1. \A o \in created : o.oid # 0
    BY OidsAssumption DEF DispInv, DisposableTypeOK, ObjectIdentity, OidsAssumption
  <2> QED  BY <1>2, <2>1 DEF DispInv, RoleRecordsAreOurs
<1>8. DatabaseHoldsItsOwner'
  <2> SUFFICES ASSUME Left(Database)'
               PROVE  (There(OwnerRole) /\ OwnerOid \in server[Database].uses /\ Recorded(OwnerRole))'
    BY DEF DatabaseHoldsItsOwner
  <2>1. /\ Left(Database) /\ server'[Database] # NoObject /\ There(Database)
        /\ There(OwnerRole) /\ OwnerOid \in server[Database].uses /\ Recorded(OwnerRole)
    BY <1>3, <1>5, ServerType DEF DispInv, DatabaseHoldsItsOwner
  <2>2. InUse(OwnerRole)
    BY <2>1 DEF InUse, OwnerOid
  <2>3. server'[OwnerRole] = server[OwnerRole]
    BY <2>2
  <2> QED  BY <2>1, <2>3 DEF There, OwnerOid, Recorded
<1>9. There(Database)' => server'[Database] # NoObject
  BY DEF There
<1> QED  BY <1>3, <1>4, <1>5, <1>6, <1>7, <1>8, <1>9

\* A step that changes none of the objects.
LEMMA Kept ==
  ASSUME DispInv, UNCHANGED <<server, lastOid, created, made>>
  PROVE  /\ Issued' /\ RolesAreRecorded' /\ RoleRecordsAreOurs' /\ DatabaseHoldsItsOwner'
         /\ \A n \in Names : Left(n)' <=> Left(n)
BY DEF DispInv, Issued, RolesAreRecorded, RoleRecordsAreOurs, DatabaseHoldsItsOwner, Left, Recorded,
       There, OwnerOid

\* The setup has nothing to report yet.
LEMMA NothingReported ==
  ASSUME DispInv, stage[1] \in Setup, stage'[1] \in Setup \union {"clean up"}, target' = target
  PROVE  WhatIsReported' /\ NothingIsLeftSilently'
<1>1. target = OwnerRole
  BY DEF DispInv, WhatIsReported, Setup
<1>2. stage'[1] \notin {"drop roles", "rename", "gone", "failed"}
  BY DEF Setup
<1> QED  BY <1>1, <1>2 DEF WhatIsReported, NothingIsLeftSilently, At

LEMMA RaiseKeeps == DispInv /\ (Attest \/ VerifyOwnerAuthority \/ Raise) => DispInv'
<1> SUFFICES ASSUME DispInv, Attest \/ VerifyOwnerAuthority \/ Raise PROVE DispInv'
  OBVIOUS
<1>1. /\ stage[1] \in Setup /\ UNCHANGED <<server, lastOid, created, target, problems, made, others>>
      /\ \/ stage' = <<"clean up", stage[2]>>
         \/ stage[1] = "attest" /\ stage' = <<"roles", stage[2]>>
         \/ stage[1] = "verify" /\ OwnerLogsIn /\ stage' = <<"create", stage[2]>>
  BY DEF Attest, VerifyOwnerAuthority, Raise, At, Goes, Setup
<1>2. "roles" \in Setup /\ "create" \in Setup /\ "clean up" \notin Setup
  BY DEF Setup
<1>3. /\ stage' \in Stages /\ stage'[1] \in {"clean up", "roles", "create"}
      /\ stage'[1] = "roles" => stage[1] = "attest"
      /\ stage'[1] = "create" => OwnerLogsIn
  <2>1. CASE stage' = <<"clean up", stage[2]>>
    BY <1>1, <2>1, SetupGoes
  <2>2. CASE stage[1] = "attest" /\ stage' = <<"roles", stage[2]>>
    BY <1>1, <1>2, <2>2, SetupGoes
  <2>3. CASE stage[1] = "verify" /\ OwnerLogsIn /\ stage' = <<"create", stage[2]>>
    BY <1>1, <1>2, <2>3, SetupGoes
  <2> QED  BY <1>1, <2>1, <2>2, <2>3
<1>4. DisposableTypeOK'
  BY <1>1, <1>3 DEF DispInv, DisposableTypeOK
<1>5. RolesToCreate'
  <2>1. IsFiniteSet({}) /\ Cardinality({}) = 0
    BY FS_EmptySet
  <2>2. created' = created /\ (stage[1] = "attest" => created = {}) /\ stage'[1] # "attest"
    BY <1>1, <1>3 DEF DispInv, RolesToCreate, At
  <2>3. stage'[1] = "roles" => created' = {}
    BY <1>3, <2>2
  <2>4. stage'[1] = "roles" => IsFiniteSet(created') /\ Cardinality(created') <= 2
    BY <2>1, <2>3
  <2> QED  BY <2>2, <2>4 DEF RolesToCreate, At
<1>6. DatabaseIsOurs'
  BY <1>1 DEF DispInv, DatabaseIsOurs, There, Left
<1>7. WhatIsRecorded'
  <2>1. OwnerLogsIn => Recorded(OwnerRole)
    BY TheRoles DEF DispInv, RolesAreRecorded, OwnerLogsIn, OwnerOid, Left
  <2> QED  BY <1>1, <1>3, <2>1 DEF WhatIsRecorded, Recorded, Later
<1>8. WhatIsReported' /\ NothingIsLeftSilently'
  BY <1>1, <1>3, NothingReported DEF Setup
<1> QED  BY <1>1, <1>4, <1>5, <1>6, <1>7, <1>8, Kept DEF DispInv

LEMMA CreateRoleKeeps == DispInv /\ CreateRole => DispInv'
<1> SUFFICES ASSUME DispInv, CreateRole PROVE DispInv'
  OBVIOUS
<1> DEFINE record == [name |-> NextRole, oid |-> lastOid + 1, marker |-> "ours"]
           object == NewObject("ours", 0)
<1>1. /\ stage[1] = "roles" /\ ~There(NextRole) /\ lastOid < MaxOids /\ lastOid' = lastOid + 1
      /\ created' = created \union {record} /\ UNCHANGED <<target, problems, others>>
      /\ \/ /\ server' = [server EXCEPT ![NextRole] = object]
            /\ made' = made \union {lastOid + 1}
         \/ UNCHANGED <<server, made>>
  BY DEF CreateRole, RecordRole, At
<1>1a. \/ stage' = <<"verify", "setup">>
       \/ stage' = <<"clean up", "setup">> \/ stage' = <<"clean up", stage[2]>>
       \/ stage' = <<"roles", "setup">> /\ NextRole # RoleNames[Len(RoleNames)]
  BY DEF CreateRole, Goes
<1> HIDE DEF record, object
<1>2. stage[1] \in Setup /\ lastOid \in 0..MaxOids /\ lastOid \in Nat /\ MaxOids \in Nat
  <2>1. stage[1] \in Setup
    BY <1>1 DEF Setup
  <2>2. lastOid \in 0..MaxOids /\ MaxOids \in Nat
    BY OidsAssumption DEF OidsAssumption, DispInv, DisposableTypeOK
  <2> QED  BY <2>1, <2>2
<1>2a. /\ stage' \in Stages /\ stage'[1] \in {"roles", "verify", "clean up"}
       /\ stage'[1] = "roles" => NextRole # RoleNames[3]
  <2>1. "roles" \in Setup /\ "verify" \in Setup
    BY DEF Setup
  <2>2. CASE stage' = <<"roles", "setup">> /\ NextRole # RoleNames[Len(RoleNames)]
    BY <1>2, <2>1, <2>2, SetupGoes, TheRoles
  <2>3. CASE stage' = <<"verify", "setup">>
    BY <1>2, <2>1, <2>3, SetupGoes
  <2>4. CASE stage' = <<"clean up", "setup">>
    BY <1>2, <2>4, SetupGoes
  <2>5. CASE stage' = <<"clean up", stage[2]>>
    BY <1>2, <2>5, SetupGoes
  <2> QED  BY <1>1a, <2>2, <2>3, <2>4, <2>5
<1>3. /\ IsFiniteSet(created) /\ Cardinality(created) \in 0..2
      /\ NextRole = RoleNames[Cardinality(created) + 1]
      /\ NextRole \in RoleSet /\ NextRole \in Names /\ NextRole # Database
  <2>1. IsFiniteSet(created) /\ Cardinality(created) \in 0..2
    <3>1. IsFiniteSet(created) /\ Cardinality(created) <= 2
      BY <1>1 DEF DispInv, RolesToCreate, At
    <3>2. Cardinality(created) \in Nat
      BY <3>1, FS_CardinalityType
    <3> QED  BY <3>1, <3>2
  <2>2. Cardinality(created) + 1 \in {1, 2, 3}
    BY <2>1
  <2>3. NextRole \in RoleSet
    BY <2>2, TheRoles DEF NextRole
  <2> QED  BY <2>1, <2>3, TheRoles DEF NextRole, Names
<1>4. /\ object \in Object /\ object.oid = lastOid + 1 /\ object.owner = 0
      /\ lastOid + 1 \in 1..MaxOids
  <2>1. 0 \in 0..MaxOids /\ "ours" \in Markers
    BY OidsAssumption DEF OidsAssumption, Markers
  <2> QED  BY <1>1, <1>2, <2>1, NewObjectType DEF object
<1>5. record \in ObjectIdentity /\ record.oid = lastOid + 1 /\ record.name = NextRole
  BY <1>3, <1>4 DEF ObjectIdentity, Markers, record
<1>6. \A n \in Names :
        \/ server'[n] = server[n]
        \/ n = NextRole /\ server'[n] = object /\ lastOid + 1 \in made'
  <2>1. server \in [Names -> Object \union {NoObject}]
    BY DEF DispInv, DisposableTypeOK
  <2> QED  BY <1>1, <1>3, <2>1
<1>7. /\ made \subseteq made' /\ made' \subseteq made \union {lastOid + 1}
      /\ \A n \in Names : server[n].oid # lastOid + 1 /\ server[n].oid \in 0..MaxOids
  <2>1. \A n \in Names : server[n].oid <= lastOid /\ server[n].oid \in 0..MaxOids
    BY ServerType DEF DispInv, Issued
  <2>2. \A n \in Names : server[n].oid # lastOid + 1
    BY <1>2, <2>1
  <2> QED  BY <1>1, <2>1, <2>2
<1>8. DisposableTypeOK'
  <2>2. server' \in [Names -> Object \union {NoObject}]
    BY <1>1, <1>3, <1>4 DEF DispInv, DisposableTypeOK
  <2>3. lastOid' \in 0..MaxOids
    <3>1. lastOid + 1 \in 0..MaxOids
      BY <1>4
    <3> QED  BY <1>1, <3>1
  <2>4. made' \subseteq 1..MaxOids
    BY <1>4, <1>7 DEF DispInv, DisposableTypeOK
  <2> QED  BY <1>1, <1>2a, <1>5, <2>2, <2>3, <2>4 DEF DispInv, DisposableTypeOK
<1>9. Issued'
  <2>1. \A i \in Int : (i <= lastOid \/ i = lastOid + 1) => i <= lastOid'
    <3>1. lastOid' = lastOid + 1 /\ lastOid \in Int
      BY <1>1, <1>2
    <3> QED  BY <3>1
  <2>2. \A n \in Names : server'[n].oid <= lastOid'
    <3>1. \A n \in Names : server'[n].oid \in Int /\ (server'[n].oid <= lastOid \/ server'[n].oid = lastOid + 1)
      BY <1>2, <1>4, <1>6, <1>7 DEF DispInv, Issued
    <3> QED  BY <2>1, <3>1
  <2>3. \A o \in created' : o.oid <= lastOid'
    <3>1. \A o \in created' : o.oid \in Int /\ (o.oid <= lastOid \/ o.oid = lastOid + 1)
      <4>1. \A o \in created : o.oid \in Int /\ o.oid <= lastOid
        BY DEF DispInv, Issued, DisposableTypeOK, ObjectIdentity
      <4>2. lastOid + 1 \in Int
        BY <1>2
      <4> QED  BY <1>1, <1>5, <4>1, <4>2
    <3> QED  BY <2>1, <3>1
  <2>4. \A i \in made' : i <= lastOid'
    <3>1. \A i \in made' : i \in Int /\ (i <= lastOid \/ i = lastOid + 1)
      BY <1>2, <1>7 DEF DispInv, Issued, DisposableTypeOK
    <3> QED  BY <2>1, <3>1
  <2> QED  BY <2>2, <2>3, <2>4 DEF Issued
<1>10. RolesToCreate'
  <2>1. ASSUME stage'[1] = "roles"
        PROVE  IsFiniteSet(created') /\ Cardinality(created') <= 2
    <3>1. Cardinality(created) + 1 # 3
      BY <1>2a, <1>3, <2>1
    <3>2. record \notin created
      <4>1. \A o \in created : o.oid <= lastOid
        BY DEF DispInv, Issued
      <4>2. ~ (lastOid + 1 <= lastOid)
        BY <1>2
      <4> QED  BY <1>5, <4>1, <4>2
    <3>3. IsFiniteSet(created') /\ Cardinality(created') = Cardinality(created) + 1
      BY <1>1, <1>3, <3>2, FS_AddElement
    <3> QED  BY <1>3, <3>1, <3>3
  <2>2. stage'[1] # "attest"
    BY <1>2a
  <2> QED  BY <2>1, <2>2 DEF RolesToCreate, At
<1>11. RolesAreRecorded'
  <2>1. \A n \in RoleSet : n = NextRole \/ (Left(n)' => Left(n))
    BY <1>6, <1>7 DEF Left, Names
  <2> QED  BY <1>1, <1>5, <2>1 DEF DispInv, RolesAreRecorded, Recorded
<1>12. RoleRecordsAreOurs'
  <2> SUFFICES ASSUME NEW o \in created', o.name # Database, NEW n \in Names, server'[n].oid = o.oid
               PROVE  o.oid \in made'
    BY DEF RoleRecordsAreOurs
  <2>1. CASE server'[n] = server[n] /\ o \in created
    BY <1>7, <2>1 DEF DispInv, RoleRecordsAreOurs
  <2>2. CASE server'[n] = server[n] /\ o = record
    BY <1>5, <1>7, <2>2
  <2>3. CASE server'[n] = object /\ lastOid + 1 \in made'
    BY <1>4, <2>3
  <2> QED  BY <1>1, <1>6, <2>1, <2>2, <2>3
<1>13. server'[Database] = server[Database] /\ Database \in Names
  BY <1>3, <1>6 DEF Names
<1>14. DatabaseIsOurs'
  BY <1>2, <1>7, <1>13 DEF DispInv, DatabaseIsOurs, There, Left
<1>15. DatabaseHoldsItsOwner'
  <2> SUFFICES ASSUME Left(Database)' PROVE (There(OwnerRole) /\ OwnerOid \in server[Database].uses /\ Recorded(OwnerRole))'
    BY DEF DatabaseHoldsItsOwner
  <2>1. There(OwnerRole) /\ OwnerOid \in server[Database].uses /\ Recorded(OwnerRole)
    BY <1>7, <1>13 DEF DispInv, DatabaseHoldsItsOwner, Left
  <2>2. server'[OwnerRole] = server[OwnerRole]
    BY <1>1, <1>6, <2>1, TheRoles DEF Names
  <2> QED  BY <1>1, <1>13, <2>1, <2>2 DEF There, OwnerOid, Recorded
<1>16. WhatIsRecorded'
  BY <1>2a DEF WhatIsRecorded, Later
<1>17. WhatIsReported' /\ NothingIsLeftSilently'
  BY <1>1, <1>2, <1>2a, NothingReported DEF Setup
<1> QED  BY <1>8, <1>9, <1>10, <1>11, <1>12, <1>14, <1>15, <1>16, <1>17 DEF DispInv

LEMMA CreateDatabaseKeeps == DispInv /\ CreateDatabase => DispInv'
<1> SUFFICES ASSUME DispInv, CreateDatabase PROVE DispInv'
  OBVIOUS
<1> DEFINE object == NewObject("", OwnerOid)
<1>1. /\ stage[1] = "create" /\ ~There(Database) /\ There(OwnerRole)
      /\ lastOid < MaxOids /\ lastOid' = lastOid + 1
      /\ server' = [server EXCEPT ![Database] = object] /\ made' = made \union {lastOid + 1}
      /\ UNCHANGED <<created, target, problems, others>>
  BY DEF CreateDatabase, At
<1>2. /\ OwnerRole \in Names /\ Database \in Names /\ OwnerRole # Database
      /\ RoleSet \subseteq Names /\ Database \notin RoleSet
  BY TheRoles DEF Names
<1>3. /\ lastOid \in 0..MaxOids /\ lastOid \in Nat /\ MaxOids \in Nat
      /\ OwnerOid \in 0..MaxOids /\ OwnerOid \in 1..MaxOids
  <2>1. server[OwnerRole] \in Object
    BY <1>1, <1>2, ServerType
  <2>2. lastOid \in 0..MaxOids /\ MaxOids \in Nat
    BY OidsAssumption DEF OidsAssumption, DispInv, DisposableTypeOK
  <2> QED  BY <2>1, <2>2 DEF OwnerOid, Object
<1>4. /\ object \in Object /\ object.oid = lastOid + 1 /\ object.owner = OwnerOid
      /\ OwnerOid \in object.uses /\ lastOid + 1 \in 1..MaxOids
  <2>1. "" \in Markers
    BY DEF Markers
  <2>2. OwnerOid \in {OwnerOid} \ {0}
    BY <1>3
  <2> QED  BY <1>1, <1>3, <2>1, <2>2, NewObjectType
<1> HIDE DEF object
<1>5. /\ server' \in [Names -> Object \union {NoObject}]
      /\ server'[Database] = object /\ \A n \in Names \ {Database} : server'[n] = server[n]
  BY <1>1, <1>2, <1>4 DEF DispInv, DisposableTypeOK
<1>6. /\ stage' \in Stages /\ stage[1] \in Setup /\ stage'[1] \in {"record", "clean up"}
      /\ "record" \in Setup
  <2>1. stage[1] \in Setup /\ "record" \in Setup
    BY <1>1 DEF Setup
  <2>2. stage' \in {"record", "clean up"} \X {"setup"}
    BY DEF CreateDatabase
  <2>3. {"record", "clean up"} \in SUBSET (Setup \union {"clean up"})
    BY <2>1
  <2> QED  BY <2>1, <2>2, <2>3, SetupChooses
<1>7. /\ \A n \in Names : server[n].oid \in Int /\ server[n].oid <= lastOid
      /\ \A o \in created : o.oid \in Int /\ o.oid <= lastOid
      /\ \A i \in made : i \in Int /\ i <= lastOid
  <2>1. \A n \in Names : server[n].oid \in 0..MaxOids
    BY ServerType
  <2> QED  BY <2>1 DEF DispInv, Issued, DisposableTypeOK, ObjectIdentity
<1>8. DisposableTypeOK'
  <2>1. lastOid' \in 0..MaxOids /\ made' \subseteq 1..MaxOids
    <3>1. lastOid + 1 \in 0..MaxOids
      BY <1>4
    <3>2. made \subseteq 1..MaxOids
      BY DEF DispInv, DisposableTypeOK
    <3> QED  BY <1>1, <1>4, <3>1, <3>2
  <2> QED  BY <1>1, <1>5, <1>6, <2>1 DEF DispInv, DisposableTypeOK
<1>9. Issued'
  <2>1. \A i \in Int : (i <= lastOid \/ i = lastOid + 1) => i <= lastOid'
    <3>1. lastOid' = lastOid + 1 /\ lastOid \in Int
      BY <1>1, <1>3
    <3> QED  BY <3>1
  <2>2. lastOid + 1 \in Int
    BY <1>3
  <2>3. /\ \A n \in Names : server'[n].oid = lastOid + 1 \/ server'[n].oid = server[n].oid
        /\ created' = created /\ made' = made \union {lastOid + 1}
    BY <1>1, <1>4, <1>5
  <2> QED  BY <1>7, <2>1, <2>2, <2>3 DEF Issued
<1>10. RolesToCreate'
  BY <1>6 DEF RolesToCreate, At
<1>11. Recorded(OwnerRole)
  BY <1>1 DEF DispInv, WhatIsRecorded, Later
<1>12. RolesAreRecorded'
  <2>1. \A n \in RoleSet : Left(n)' => Left(n)
    <3>1. \A n \in RoleSet : server'[n] = server[n] /\ server[n].oid # lastOid + 1
      BY <1>2, <1>3, <1>5, <1>7
    <3> QED  BY <1>1, <3>1 DEF Left
  <2> QED  BY <1>1, <2>1 DEF DispInv, RolesAreRecorded, Recorded
<1>13. RoleRecordsAreOurs'
  <2> SUFFICES ASSUME NEW o \in created, o.name # Database, NEW n \in Names, server'[n].oid = o.oid
               PROVE  o.oid \in made'
    BY <1>1 DEF RoleRecordsAreOurs
  <2>1. o.oid # lastOid + 1
    BY <1>3, <1>7
  <2>2. server'[n] = server[n]
    BY <1>4, <1>5, <2>1
  <2> QED  BY <1>1, <2>2 DEF DispInv, RoleRecordsAreOurs
<1>14. Left(Database)'
  BY <1>1, <1>4, <1>5 DEF Left
<1>15. DatabaseIsOurs' /\ DatabaseHoldsItsOwner'
  <2>1. server'[OwnerRole] = server[OwnerRole]
    BY <1>2, <1>5
  <2> QED  BY <1>1, <1>4, <1>5, <1>11, <1>14, <2>1
           DEF DatabaseIsOurs, DatabaseHoldsItsOwner, There, OwnerOid, Recorded
<1>16. WhatIsRecorded'
  BY <1>1, <1>6, <1>11 DEF WhatIsRecorded, Recorded
<1>17. WhatIsReported' /\ NothingIsLeftSilently'
  BY <1>1, <1>6, NothingReported
<1> QED  BY <1>8, <1>9, <1>10, <1>12, <1>13, <1>15, <1>16, <1>17 DEF DispInv

\* The identity recorded of a database is that of what has its name.
LEMMA RecordKeeps == DispInv /\ (RecordDatabase \/ RereadDatabase) => DispInv'
<1> SUFFICES ASSUME DispInv, RecordDatabase \/ RereadDatabase PROVE DispInv'
  OBVIOUS
<1>1. There(Database) /\ stage[1] \in Setup /\ stage[1] \in {"record", "reread"}
      /\ UNCHANGED <<server, lastOid, target, problems, made, others>>
  BY DEF RecordDatabase, RereadDatabase, At, Setup
<1>2. /\ stage' \in Stages /\ stage'[1] \in {"comment", "configure"}
      /\ stage'[1] \in Setup
  <2>1. "comment" \in Setup /\ "configure" \in Setup
    BY DEF Setup
  <2>2. CASE stage' = <<"comment", stage[2]>>
    BY <1>1, <2>1, <2>2, SetupGoes
  <2>3. CASE stage' = <<"configure", stage[2]>>
    BY <1>1, <2>1, <2>3, SetupGoes
  <2> QED  BY <2>2, <2>3 DEF RecordDatabase, RereadDatabase, Goes
<1>3. PICK record \in ObjectIdentity :
        /\ record.name = Database /\ record.oid = server[Database].oid
        /\ record \in created' /\ created' \subseteq created \union {record}
        /\ \A o \in created : o.name # Database => o \in created'
  <2>1. server[Database] \in Object /\ Database \in Names
    BY <1>1, ServerType, TheRoles DEF Names
  <2>2. /\ Identity(Database) \in ObjectIdentity /\ Identity(Database).name = Database
        /\ Identity(Database).oid = server[Database].oid
    BY <2>1 DEF Identity, ObjectIdentity, Object
  <2>3. CASE RecordDatabase
    BY <2>2, <2>3 DEF RecordDatabase
  <2>4. CASE RereadDatabase
    <3> DEFINE record == [Identity(Database) EXCEPT !.marker = "ours"]
    <3>1. record \in ObjectIdentity /\ record.name = Database /\ record.oid = server[Database].oid
      BY <2>2 DEF ObjectIdentity, Markers
    <3>2. RecordOf(Database).name = Database
      BY <2>4 DEF RereadDatabase, DispInv, WhatIsRecorded, Recorded, RecordOf, At
    <3>3. created' = (created \ {RecordOf(Database)}) \union {record}
      BY <2>4 DEF RereadDatabase
    <3> HIDE DEF record
    <3> QED  BY <3>1, <3>2, <3>3
  <2> QED  BY <2>3, <2>4
<1>4. \A n \in RoleSet : Recorded(n) => Recorded(n)'
  BY <1>3, TheRoles DEF Recorded
<1>5. DisposableTypeOK'
  BY <1>1, <1>2, <1>3 DEF DispInv, DisposableTypeOK
<1>6. Issued'
  <2>1. server[Database].oid <= lastOid
    BY TheRoles DEF DispInv, Issued, Names
  <2> QED  BY <1>1, <1>3, <2>1 DEF DispInv, Issued
<1>7. RolesToCreate'
  BY <1>2 DEF RolesToCreate, At
<1>8. RolesAreRecorded' /\ RoleRecordsAreOurs'
  BY <1>1, <1>3, <1>4 DEF DispInv, RolesAreRecorded, RoleRecordsAreOurs, Left
<1>9. DatabaseIsOurs'
  BY <1>1 DEF DispInv, DatabaseIsOurs, There, Left
<1>10. DatabaseHoldsItsOwner'
  BY <1>1, <1>4, TheRoles DEF DispInv, DatabaseHoldsItsOwner, Left, There, OwnerOid
<1>11. WhatIsRecorded'
  <2>1. Recorded(Database)'
    BY <1>3 DEF Recorded
  <2>2. Recorded(OwnerRole)'
    BY <1>1, <1>4, TheRoles DEF DispInv, WhatIsRecorded, Later
  <2> QED  BY <2>1, <2>2 DEF WhatIsRecorded
<1>12. WhatIsReported' /\ NothingIsLeftSilently'
  BY <1>1, <1>2, NothingReported
<1> QED  BY <1>5, <1>6, <1>7, <1>8, <1>9, <1>10, <1>11, <1>12 DEF DispInv

\* The owner's statements on its database.
LEMMA AlterKeeps == DispInv /\ (CommentOn \/ ConfigureDatabase) => DispInv'
<1> SUFFICES ASSUME DispInv, CommentOn \/ ConfigureDatabase PROVE DispInv'
  OBVIOUS
<1>1. /\ OwnsDatabase /\ stage[1] \in {"comment", "configure"}
      /\ UNCHANGED <<lastOid, created, target, problems, made, others>>
  BY DEF CommentOn, ConfigureDatabase, At
<1>2. /\ There(Database) /\ There(OwnerRole) /\ server[Database] \in Object
      /\ Database \in Names /\ OwnerRole \in Names /\ Database # OwnerRole
      /\ \A n \in RoleSet : n \in Names
  BY <1>1, ServerType, TheRoles DEF OwnsDatabase, Names
<1>3. /\ stage[1] \in Setup /\ stage' \in Stages /\ stage'[1] \in {"reread", "prepare", "clean up"}
      /\ stage'[1] = "reread" => stage[1] = "comment"
  <2>1. stage[1] \in Setup /\ "reread" \in Setup /\ "prepare" \in Setup
    BY <1>1 DEF Setup
  <2>2. CASE CommentOn
    <3>1. stage' \in {"reread", "clean up"} \X {"setup"} /\ stage[1] = "comment"
      BY <2>2 DEF CommentOn, At
    <3>2. {"reread", "clean up"} \in SUBSET (Setup \union {"clean up"})
      BY <2>1
    <3> QED  BY <2>1, <3>1, <3>2, SetupChooses
  <2>3. CASE ConfigureDatabase
    <3>1. stage' \in {"prepare", "clean up"} \X {"setup"}
      BY <2>3 DEF ConfigureDatabase
    <3>2. {"prepare", "clean up"} \in SUBSET (Setup \union {"clean up"})
      BY <2>1
    <3> QED  BY <2>1, <3>1, <3>2, SetupChooses
  <2> QED  BY <2>2, <2>3
<1>4. PICK object \in Object :
        /\ server' = [server EXCEPT ![Database] = object]
        /\ object.oid = server[Database].oid /\ object.owner = server[Database].owner
        /\ server[Database].uses \subseteq object.uses
  <2>1. CASE CommentOn
    <3> DEFINE object == [server[Database] EXCEPT !.marker = "ours"]
    <3>1. /\ object \in Object /\ object.oid = server[Database].oid
          /\ object.owner = server[Database].owner /\ object.uses = server[Database].uses
      BY <1>2 DEF Object, Markers
    <3>2. server' = [server EXCEPT ![Database] = object]
      BY <2>1 DEF CommentOn
    <3> HIDE DEF object
    <3> QED  BY <3>1, <3>2
  <2>2. CASE ConfigureDatabase
    <3> DEFINE oids == {server[n].oid : n \in RoleSet}
               object == [server[Database] EXCEPT !.uses = @ \union oids]
    <3>1. oids \subseteq 1..MaxOids
      <4>1. \A n \in RoleSet : server[n] \in Object
        BY <1>2, <2>2, ServerType DEF ConfigureDatabase
      <4> QED  BY <4>1 DEF Object
    <3>2. server' = [server EXCEPT ![Database] = object]
      BY <2>2 DEF ConfigureDatabase
    <3> HIDE DEF oids
    <3>3. /\ object \in Object /\ object.oid = server[Database].oid
          /\ object.owner = server[Database].owner /\ server[Database].uses \subseteq object.uses
      BY <1>2, <3>1 DEF Object
    <3> HIDE DEF object
    <3> QED  BY <3>2, <3>3
  <2> QED  BY <2>1, <2>2
<1>5. /\ server' \in [Names -> Object \union {NoObject}]
      /\ server'[Database] = object /\ \A n \in Names \ {Database} : server'[n] = server[n]
  BY <1>2, <1>4 DEF DispInv, DisposableTypeOK
<1>6. \A n \in Names :
        \/ server'[n] = NoObject
        \/ There(n) /\ server'[n].oid = server[n].oid /\ server'[n].owner = server[n].owner
  BY <1>2, <1>4, <1>5 DEF There
<1>7. /\ Issued' /\ RolesAreRecorded' /\ RoleRecordsAreOurs' /\ DatabaseHoldsItsOwner'
  BY <1>1, <1>2, <1>4, <1>5, <1>6, ServerKeeps
<1>8. DisposableTypeOK'
  BY <1>1, <1>3, <1>5 DEF DispInv, DisposableTypeOK
<1>9. RolesToCreate'
  BY <1>3 DEF RolesToCreate, At
<1>10. DatabaseIsOurs'
  BY <1>1, <1>2, <1>3, <1>4, <1>5 DEF DispInv, DatabaseIsOurs, Left
<1>11. WhatIsRecorded'
  BY <1>1, <1>3, TheRoles DEF DispInv, WhatIsRecorded, Recorded, Later
<1>12. WhatIsReported' /\ NothingIsLeftSilently'
  BY <1>1, <1>3, NothingReported DEF Setup
<1> QED  BY <1>7, <1>8, <1>9, <1>10, <1>11, <1>12 DEF DispInv

\* From here on nothing is created or recorded.
LEMMA FinishKeeps == DispInv /\ (Prepare \/ Interrupt \/ Teardown) => DispInv'
<1> SUFFICES ASSUME DispInv, Prepare \/ Interrupt \/ Teardown PROVE DispInv'
  OBVIOUS
<1>1. /\ UNCHANGED <<server, lastOid, created, target, made, others>>
      /\ problems' \subseteq problems
      /\ stage' \in Stages /\ stage'[1] \in {"ready", "interrupted", "clean up"}
      /\ stage'[1] # "interrupted" => stage[1] \in {"prepare", "ready"}
  <2>1. CASE Prepare
    BY <2>1, StageType DEF Prepare, At
  <2>2. CASE Interrupt
    BY <2>2, StageType DEF Interrupt
  <2>3. CASE Teardown
    BY <2>3, StageType DEF Teardown, Cleanup, At
  <2> QED  BY <2>1, <2>2, <2>3
<1>2. DisposableTypeOK'
  BY <1>1 DEF DispInv, DisposableTypeOK
<1>3. RolesToCreate' /\ WhatIsRecorded' /\ NothingIsLeftSilently'
  BY <1>1 DEF RolesToCreate, WhatIsRecorded, Later, NothingIsLeftSilently, At
<1>4. DatabaseIsOurs'
  BY <1>1 DEF DispInv, DatabaseIsOurs, There, Left, Setup
<1>5. WhatIsReported'
  <2>1. stage'[1] # "interrupted" => target = OwnerRole
    BY <1>1 DEF DispInv, WhatIsReported
  <2> QED  BY <1>1, <2>1 DEF WhatIsReported, At
<1> QED  BY <1>1, <1>2, <1>3, <1>4, <1>5, Kept DEF DispInv

-----------------------------------------------------------------------------
(* The cleanup. *)

LEMMA CleanupGoes ==
  ASSUME DispInv, stage[1] \in Cleanup, NEW s \in Cleanup, Goes(s)
  PROVE  stage' \in Stages /\ stage'[1] = s
<1>1. stage[2] \in {"setup", "teardown"}
  BY StageType DEF DispInv, DisposableTypeOK
<1>2. stage' = <<s, stage[2]>>
  BY DEF Goes
<1>3. <<s, stage[2]>> \in Stages
  BY <1>1, StageType
<1> QED  BY <1>2, <1>3

LEMMA CleanupEndsAt ==
  ASSUME DispInv, stage[1] \in Cleanup, NEW reported, CleanupEnds(reported)
  PROVE  /\ stage' \in Stages /\ stage'[1] \in {"failed", "gone", "ready"}
         /\ stage'[1] = "gone" => reported = {}
<1> DEFINE s == CASE stage[2] = "setup" -> "failed" [] reported = {} -> "gone" [] OTHER -> "ready"
<1>1. stage[2] \in {"setup", "teardown"}
  BY StageType DEF DispInv, DisposableTypeOK
<1>2. stage' = <<s, "end">>
  BY DEF CleanupEnds
<1>3. s \in {"failed", "gone", "ready"} /\ (s = "gone" => reported = {})
  BY <1>1
<1> HIDE DEF s
<1>4. <<s, "end">> \in Stages
  BY <1>3, StageType
<1> QED  BY <1>2, <1>3, <1>4

\* A cleanup ends with what is left of this process's reported.
LEMMA Ends ==
  ASSUME DispInv, stage[1] \in Cleanup, CleanupEnds(problems'), target' = OwnerRole,
         \A n \in Names : Left(n)' => Reported(n)'
  PROVE  /\ stage' \in Stages /\ stage'[1] \in {"failed", "gone", "ready"}
         /\ RolesToCreate' /\ WhatIsRecorded' /\ WhatIsReported' /\ NothingIsLeftSilently'
<1>1. /\ stage' \in Stages /\ stage'[1] \in {"failed", "gone", "ready"}
      /\ stage'[1] = "gone" => problems' = {}
  BY CleanupEndsAt
<1>2. RolesToCreate' /\ WhatIsRecorded' /\ WhatIsReported'
  BY <1>1 DEF RolesToCreate, WhatIsRecorded, Later, WhatIsReported, At
<1>3. NothingIsLeftSilently'
  BY <1>1 DEF NothingIsLeftSilently, At, Left, Reported
<1> QED  BY <1>1, <1>2, <1>3

\* It goes on to the roles with none of them passed.
LEMMA GoesToRoles ==
  ASSUME DispInv, stage[1] \in Cleanup \ {"drop roles", "rename"},
         target' = target, Goes("drop roles")
  PROVE  /\ stage' \in Stages /\ stage'[1] = "drop roles"
         /\ RolesToCreate' /\ WhatIsRecorded' /\ WhatIsReported' /\ NothingIsLeftSilently'
<1>1. stage' \in Stages /\ stage'[1] = "drop roles"
  BY CleanupGoes DEF Cleanup
<1>2. target = OwnerRole
  BY DEF DispInv, WhatIsReported, Cleanup
<1>3. \A n \in Names : ~Passed(n)'
  <2>2. \A n \in RoleSet : ~ (NextTarget(n) < NextTarget(OwnerRole))
    BY InOrder
  <2>3. \A n : Passed(n)' => \/ n = Database /\ target' # OwnerRole
                             \/ n # Database /\ NextTarget(n) < NextTarget(target')
    BY DEF Passed
  <2> QED  BY <1>2, <2>2, <2>3 DEF Names
<1>4. WhatIsReported'
  BY <1>1, <1>2, <1>3 DEF WhatIsReported, At
<1> QED  BY <1>1, <1>4 DEF RolesToCreate, WhatIsRecorded, Later, NothingIsLeftSilently, At

LEMMA AttestCleanupKeeps == DispInv /\ AttestCleanup => DispInv'
<1> SUFFICES ASSUME DispInv, AttestCleanup PROVE DispInv'
  OBVIOUS
<1>1. /\ stage[1] = "clean up" /\ stage[1] \in Cleanup /\ "dispose" \in Cleanup
      /\ UNCHANGED <<server, lastOid, created, target, made, others>>
  BY DEF AttestCleanup, At, Cleanup
<1>2. target = OwnerRole
  BY <1>1 DEF DispInv, WhatIsReported
<1>3. /\ stage' \in Stages /\ stage'[1] \in {"dispose", "failed", "gone", "ready"}
      /\ RolesToCreate' /\ WhatIsRecorded' /\ WhatIsReported' /\ NothingIsLeftSilently'
      /\ problems' \subseteq Names
  <2>1. CASE Goes("dispose") /\ UNCHANGED problems
    <3>1. stage' \in Stages /\ stage'[1] = "dispose"
      BY <1>1, <2>1, CleanupGoes
    <3> QED  BY <1>1, <1>2, <2>1, <3>1 DEF RolesToCreate, WhatIsRecorded, Later, WhatIsReported,
                 NothingIsLeftSilently, At, DispInv, DisposableTypeOK
  <2>2. CASE problems' = Names /\ CleanupEnds(problems')
    <3>1. \A n \in Names : Left(n)' => Reported(n)'
      BY <2>2 DEF Reported
    <3> QED  BY <1>1, <1>2, <2>2, <3>1, Ends
  <2> QED  BY <2>1, <2>2 DEF AttestCleanup
<1>4. DisposableTypeOK'
  BY <1>1, <1>3 DEF DispInv, DisposableTypeOK
<1>5. DatabaseIsOurs'
  BY <1>1, <1>3 DEF DispInv, DatabaseIsOurs, There, Left, Setup
<1> QED  BY <1>1, <1>3, <1>4, <1>5, Kept DEF DispInv

LEMMA CheckDatabaseKeeps == DispInv /\ CheckDatabase => DispInv'
<1> SUFFICES ASSUME DispInv, CheckDatabase PROVE DispInv'
  OBVIOUS
<1>1. /\ stage[1] = "dispose" /\ stage[1] \in Cleanup \ {"drop roles", "rename"}
      /\ UNCHANGED <<server, lastOid, created, target, made, others>>
      /\ problems' \subseteq problems \union {Database}
      /\ \/ Goes("drop roles")
         \/ Goes("release") /\ Recorded(Database) /\ Matches(RecordOf(Database))
  BY DEF CheckDatabase, At, Cleanup
<1>2. target = OwnerRole
  BY <1>1 DEF DispInv, WhatIsReported
<1>3. /\ stage' \in Stages
      /\ RolesToCreate' /\ WhatIsRecorded' /\ WhatIsReported' /\ NothingIsLeftSilently'
      /\ \/ stage'[1] = "drop roles"
         \/ /\ stage'[1] = "release"
            /\ Recorded(Database) /\ Matches(RecordOf(Database))
  <2>1. CASE Goes("drop roles")
    BY <1>1, <2>1, GoesToRoles
  <2>2. CASE Goes("release") /\ Recorded(Database) /\ Matches(RecordOf(Database))
    <3>1. stage' \in Stages /\ stage'[1] = "release"
      BY <1>1, <2>2, CleanupGoes DEF Cleanup
    <3> QED  BY <1>1, <1>2, <2>2, <3>1 DEF RolesToCreate, WhatIsRecorded, Later, WhatIsReported,
                 NothingIsLeftSilently, At
  <2> QED  BY <1>1, <2>1, <2>2
<1>4. DisposableTypeOK'
  BY <1>1, <1>3, TheRoles DEF DispInv, DisposableTypeOK, Names
<1>5. DatabaseIsOurs'
  <2>1. CASE stage'[1] = "drop roles"
    BY <1>1, <2>1 DEF DispInv, DatabaseIsOurs, There, Left, Setup
  <2>2. CASE /\ stage'[1] = "release"
             /\ Recorded(Database) /\ Matches(RecordOf(Database))
    <3>1. Recorded(Database) /\ Matches(RecordOf(Database))
      BY <2>2
    <3>2. RecordOf(Database) \in created /\ RecordOf(Database).name = Database
      BY <3>1 DEF Recorded, RecordOf
    <3>3. RecordOf(Database).oid = server[Database].oid
      BY <3>1, <3>2 DEF Matches, Identity
    <3>4. There(Database) /\ server[Database].owner # 0 => Left(Database)
      BY <3>2, <3>3 DEF DispInv, DatabaseIsOurs
    <3> QED  BY <1>1, <3>4 DEF DatabaseIsOurs, There, Left
  <2> QED  BY <1>3, <2>1, <2>2
<1> QED  BY <1>1, <1>3, <1>4, <1>5, Kept DEF DispInv

\* The database as its owner leaves it, and then drops it.
LEMMA DisposeKeeps == DispInv /\ (ReleaseConnections \/ DropDatabase) => DispInv'
<1> SUFFICES ASSUME DispInv, ReleaseConnections \/ DropDatabase PROVE DispInv'
  OBVIOUS
<1>1. /\ stage[1] \in {"release", "drop database"}
      /\ stage[1] \in Cleanup \ {"drop roles", "rename"}
      /\ UNCHANGED <<lastOid, created, target, made, others>>
      /\ problems' \subseteq problems \union {Database}
      /\ Goes("drop database") \/ Goes("drop roles")
      /\ \/ server' = server
         \/ server' = [server EXCEPT ![Database] = NoObject]
         \/ OwnsDatabase /\ server' = [server EXCEPT ![Database].uses = {OwnerOid}]
  BY DEF ReleaseConnections, DropDatabase, At, Cleanup
<1>2. /\ OwnerRole \in Names /\ Database \in Names /\ OwnerRole # Database
      /\ server \in [Names -> Object \union {NoObject}] /\ target = OwnerRole
  BY <1>1, TheRoles DEF Names, DispInv, DisposableTypeOK, WhatIsReported
<1>3. PICK object \in Object \union {NoObject} :
        /\ server' = [server EXCEPT ![Database] = object]
        /\ \/ object = server[Database] \/ object = NoObject
           \/ /\ There(Database) /\ object.oid = server[Database].oid
              /\ object.owner = server[Database].owner /\ OwnerOid \in object.uses
  <2>1. CASE server' = server
    BY <1>2, <2>1
  <2>2. CASE server' = [server EXCEPT ![Database] = NoObject]
    BY <2>2
  <2>3. CASE OwnsDatabase /\ server' = [server EXCEPT ![Database].uses = {OwnerOid}]
    <3> DEFINE object == [server[Database] EXCEPT !.uses = {OwnerOid}]
    <3>1. server[Database] \in Object /\ There(Database) /\ server[OwnerRole] \in Object
      BY <1>2, <2>3, ServerType DEF OwnsDatabase
    <3>2. OwnerOid \in 1..MaxOids
      BY <3>1 DEF OwnerOid, Object
    <3>3. /\ object \in Object /\ object.oid = server[Database].oid
          /\ object.owner = server[Database].owner /\ object.uses = {OwnerOid}
      BY <3>1, <3>2 DEF Object
    <3>4. server' = [server EXCEPT ![Database] = object]
      BY <2>3
    <3> HIDE DEF object
    <3> QED  BY <3>1, <3>3, <3>4
  <2> QED  BY <1>1, <2>1, <2>2, <2>3
<1>4. /\ server' \in [Names -> Object \union {NoObject}]
      /\ server'[Database] = object /\ \A n \in Names \ {Database} : server'[n] = server[n]
  BY <1>2, <1>3
<1>5. \A n \in Names :
        \/ server'[n] = NoObject
        \/ There(n) /\ server'[n].oid = server[n].oid /\ server'[n].owner = server[n].owner
  <2>1. \A n \in Names : There(n) \/ server[n] = NoObject
    BY DEF There
  <2> QED  BY <1>3, <1>4, <2>1
<1>6. /\ Issued' /\ RolesAreRecorded' /\ RoleRecordsAreOurs' /\ DatabaseHoldsItsOwner'
      /\ There(Database)' => /\ There(Database) /\ server'[Database].oid = server[Database].oid
                            /\ server'[Database].owner = server[Database].owner
  BY <1>1, <1>2, <1>3, <1>4, <1>5, ServerKeeps
<1>7. /\ stage' \in Stages
      /\ RolesToCreate' /\ WhatIsRecorded' /\ WhatIsReported' /\ NothingIsLeftSilently'
  <2>1. CASE Goes("drop database")
    <3>1. stage' \in Stages /\ stage'[1] = "drop database"
      BY <1>1, <2>1, CleanupGoes DEF Cleanup
    <3> QED  BY <1>1, <1>2, <3>1 DEF RolesToCreate, WhatIsRecorded, Later, WhatIsReported,
                 NothingIsLeftSilently, At
  <2>2. CASE Goes("drop roles")
    BY <1>1, <2>2, GoesToRoles
  <2> QED  BY <1>1, <2>1, <2>2
<1>8. DisposableTypeOK'
  BY <1>1, <1>2, <1>4, <1>7 DEF DispInv, DisposableTypeOK
<1>9. DatabaseIsOurs'
  BY <1>1, <1>6 DEF DispInv, DatabaseIsOurs, Left
<1> QED  BY <1>6, <1>7, <1>8, <1>9 DEF DispInv

LEMMA NothingToDropKeeps == DispInv /\ NothingToDrop => DispInv'
<1> SUFFICES ASSUME DispInv, NothingToDrop PROVE DispInv'
  OBVIOUS
<1>1. /\ stage[1] = "drop roles" /\ stage[1] \in Cleanup /\ RolesRecorded = {}
      /\ CleanupEnds(problems) /\ CleanupEnds(problems')
      /\ UNCHANGED <<server, lastOid, created, target, problems, made, others>>
  BY DEF NothingToDrop, At, Cleanup
<1>2. target = OwnerRole
  BY <1>1 DEF DispInv, WhatIsReported
<1>3. \A n \in Names : ~Left(n)
  <2>1. \A n \in RoleSet : ~Recorded(n)
    BY <1>1, TheRoles DEF RolesRecorded, Recorded
  <2> QED  BY <2>1, TheRoles DEF DispInv, RolesAreRecorded, DatabaseHoldsItsOwner, Names
<1>4. /\ stage' \in Stages /\ stage'[1] \in {"failed", "gone", "ready"}
      /\ RolesToCreate' /\ WhatIsRecorded' /\ WhatIsReported' /\ NothingIsLeftSilently'
  <2>1. \A n \in Names : Left(n)' => Reported(n)'
    BY <1>1, <1>3 DEF Left
  <2> QED  BY <1>1, <1>2, <2>1, Ends
<1>5. DisposableTypeOK'
  BY <1>1, <1>4 DEF DispInv, DisposableTypeOK
<1>6. DatabaseIsOurs'
  BY <1>1, <1>4 DEF DispInv, DatabaseIsOurs, There, Left, Setup
<1> QED  BY <1>1, <1>4, <1>5, <1>6, Kept DEF DispInv

\* A role that is reported, or gone, is passed; the others keep their place.
LEMMA DropNextKeeps ==
  ASSUME DispInv, stage[1] \in {"drop roles", "rename"}, target \in RolesRecorded,
         NEW reported \in SUBSET {target}, DropNext(target, reported),
         UNCHANGED <<created, made>>, \A n \in Names : Left(n)' => Left(n),
         server'[target].oid \in made' => target \in reported,
         target = OwnerRole /\ Left(Database)' => target \in reported
  PROVE  /\ stage' \in Stages /\ stage'[1] \in {"drop roles", "failed", "gone", "ready"}
         /\ target' \in RoleSet /\ problems' \subseteq Names
         /\ RolesToCreate' /\ WhatIsRecorded' /\ WhatIsReported' /\ NothingIsLeftSilently'
<1>1. /\ RolesRecorded \subseteq RoleSet /\ target \in RoleSet
      /\ \A n \in RoleSet : Recorded(n) => n \in RolesRecorded
  BY ZenonT(40), TheRoles DEF RolesRecorded, Recorded, DispInv, DisposableTypeOK, ObjectIdentity, Names
<1>2. problems' = problems \union reported /\ problems' \subseteq Names /\ stage[1] \in Cleanup
  BY <1>1 DEF DropNext, DispInv, DisposableTypeOK, Names, Cleanup
<1>4. ASSUME NEW n \in Names, Left(n)', Passed(n) \/ n = target \/ n = Database
      PROVE  Reported(n)'
  <2>1. Left(n) /\ (Passed(n) => Reported(n))
    BY <1>4 DEF DispInv, WhatIsReported
  <2>2. Reported(n) => Reported(n)'
    BY <1>2 DEF Reported
  <2>3. n = target => n \in problems'
    <3> SUFFICES ASSUME n = target PROVE n \in problems'
      OBVIOUS
    <3>1. server'[target].oid \in made'
      BY <1>4 DEF Left
    <3> QED  BY <1>2, <3>1
  <2>4. n = Database => Passed(n) \/ target = OwnerRole
    BY DEF Passed
  <2>5. n = Database /\ target = OwnerRole => Reported(n)'
    BY <1>2, <1>4 DEF Reported
  <2> QED  BY <1>4, <2>1, <2>2, <2>3, <2>4, <2>5 DEF Reported
<1>5. CASE IsLast(target)
  <2>1. CleanupEnds(problems') /\ target' = OwnerRole
    BY <1>5 DEF DropNext
  <2>2. \A n \in Names : Left(n)' => Reported(n)'
    <3> SUFFICES ASSUME NEW n \in RoleSet, n \in Names, Left(n)' PROVE Reported(n)'
      BY <1>4 DEF Names
    <3>1. n \in RolesRecorded
      BY <1>1 DEF DispInv, RolesAreRecorded
    <3>2. NextTarget(n) <= NextTarget(target)
      BY <1>5, <3>1 DEF IsLast
    <3>3. NextTarget(n) < NextTarget(target) \/ n = target
      BY <1>1, <3>2, InOrder
    <3>4. n # Database
      BY TheRoles
    <3> QED  BY <1>4, <3>3, <3>4 DEF Passed
  <2> QED  BY <1>2, <2>1, <2>2, Ends, TheRoles
<1>6. CASE ~IsLast(target)
  <2>1. target' = RoleNames[NextTarget(target) + 1] /\ Goes("drop roles")
    BY <1>6 DEF DropNext
  <2>2. stage' \in Stages /\ stage'[1] = "drop roles"
    BY <1>2, <2>1, CleanupGoes DEF Cleanup
  <2>3. NextTarget(target) + 1 \in 1..3
    <3>1. PICK m \in RolesRecorded : ~ (NextTarget(m) <= NextTarget(target))
      BY <1>6 DEF IsLast
    <3> QED  BY <1>1, <3>1, InOrder
  <2>4. target' \in RoleSet /\ NextTarget(target') = NextTarget(target) + 1
    BY <2>1, <2>3, InOrder
  <2>5. ASSUME NEW n \in Names, Passed(n)', Left(n)' PROVE Reported(n)'
    <3>1. n = Database \/ (n \in RoleSet /\ n # Database /\ NextTarget(n) < NextTarget(target'))
      BY <2>5, TheRoles DEF Passed, Names
    <3>2. n \in RoleSet /\ NextTarget(n) < NextTarget(target') =>
            NextTarget(n) < NextTarget(target) \/ n = target
      BY <1>1, <2>4, InOrder
    <3> QED  BY <1>4, <2>5, <3>1, <3>2 DEF Passed
  <2>6. RolesRecorded' # {}
    BY DEF RolesRecorded
  <2>7. WhatIsReported'
    BY <2>2, <2>5, <2>6 DEF WhatIsReported, At
  <2> QED  BY <1>2, <2>2, <2>4, <2>7 DEF RolesToCreate, WhatIsRecorded, Later,
               NothingIsLeftSilently, At
<1> QED  BY <1>5, <1>6


LEMMA CheckRoleKeeps == DispInv /\ CheckRole => DispInv'
<1> SUFFICES ASSUME DispInv, CheckRole PROVE DispInv'
  OBVIOUS
<1>1. /\ stage[1] = "drop roles" /\ stage[1] \in Cleanup /\ target \in RolesRecorded
      /\ UNCHANGED <<server, lastOid, created, made, others>>
  BY DEF CheckRole, At, Cleanup
<1>2. \A n \in Names : Left(n)' <=> Left(n)
  BY <1>1, Kept
<1>3. /\ stage' \in Stages /\ stage'[1] \in {"drop roles", "rename", "failed", "gone", "ready"}
      /\ target' \in RoleSet /\ problems' \subseteq Names
      /\ RolesToCreate' /\ WhatIsRecorded' /\ WhatIsReported' /\ NothingIsLeftSilently'
  <2>1. CASE ~There(target) /\ DropNext(target, {})
    <3>1. target \in Names /\ Database \in Names
      BY DEF DispInv, DisposableTypeOK, Names
    <3>2. ~Left(target)
      BY <2>1, <3>1, ServerType
    <3>3. server'[target].oid \notin made'
      BY <1>1, <3>2 DEF Left
    <3>4. target = OwnerRole => ~Left(Database)
      BY <2>1 DEF DispInv, DatabaseHoldsItsOwner
    <3>5. target = OwnerRole => ~Left(Database)'
      BY <1>1, <3>4 DEF Left
    <3> QED  BY <1>1, <1>2, <2>1, <3>3, <3>5, DropNextKeeps
  <2>2. CASE Goes("rename") /\ UNCHANGED <<target, problems>>
    <3>1. stage' \in Stages /\ stage'[1] = "rename"
      BY <1>1, <2>2, CleanupGoes DEF Cleanup
    <3>2. WhatIsReported'
      BY <1>1, <1>2, <2>2, <3>1
      DEF DispInv, WhatIsReported, At, Passed, Reported, RolesRecorded
    <3> QED  BY <1>1, <2>2, <3>1, <3>2
             DEF RolesToCreate, WhatIsRecorded, Later, NothingIsLeftSilently, At, DispInv,
                 DisposableTypeOK
  <2>3. CASE DropNext(target, {target})
    BY <1>1, <1>2, <2>3, DropNextKeeps
  <2> QED  BY <2>1, <2>2, <2>3 DEF CheckRole
<1>4. DisposableTypeOK'
  BY <1>1, <1>3 DEF DispInv, DisposableTypeOK
<1>5. DatabaseIsOurs'
  BY <1>1, <1>3 DEF DispInv, DatabaseIsOurs, There, Left, Setup
<1> QED  BY <1>1, <1>3, <1>4, <1>5, Kept DEF DispInv

LEMMA RenameAndDropKeeps == DispInv /\ RenameAndDrop => DispInv'
<1> SUFFICES ASSUME DispInv, RenameAndDrop PROVE DispInv'
  OBVIOUS
<1>1. /\ stage[1] = "rename" /\ UNCHANGED <<lastOid, created, made, others>>
      /\ target \in RolesRecorded /\ target \in RoleSet /\ target \in Names /\ target # Database
      /\ OwnerRole \in Names /\ Database \in Names /\ NoObject.oid = 0
      /\ server \in [Names -> Object \union {NoObject}]
  BY TheRoles DEF RenameAndDrop, At, DispInv, WhatIsReported, DisposableTypeOK, Names, NoObject
<1>2. PICK reported \in SUBSET {target} :
        /\ DropNext(target, reported)
        /\ \/ server' = server /\ reported = {target}
           \/ server' = [server EXCEPT ![target] = NoObject] /\ ~InUse(target)
  BY DEF RenameAndDrop
<1>3. /\ server' \in [Names -> Object \union {NoObject}]
      /\ server'[Database] = server[Database]
      /\ \A n \in Names : server'[n] = server[n] \/ (server'[n] = NoObject /\ ~InUse(n))
      /\ reported = {target} \/ (server'[target] = NoObject /\ ~InUse(target))
  BY <1>1, <1>2
<1>4. /\ Issued' /\ RolesAreRecorded' /\ RoleRecordsAreOurs' /\ DatabaseHoldsItsOwner'
      /\ \A n \in Names : Left(n)' => Left(n)
      /\ There(Database)' => /\ There(Database) /\ server'[Database].oid = server[Database].oid
                            /\ server'[Database].owner = server[Database].owner
  <2>1. \A n \in Names : There(n) \/ server[n] = NoObject
    BY DEF There
  <2>2. \A n \in Names :
          \/ server'[n] = NoObject
          \/ There(n) /\ server'[n].oid = server[n].oid /\ server'[n].owner = server[n].owner
    BY <1>3, <2>1
  <2> QED  BY <1>1, <1>3, <2>2, ServerKeeps
<1>5. server'[target].oid \in made' => target \in reported
  BY <1>1, <1>3, ServerType
<1>6. target = OwnerRole /\ Left(Database)' => target \in reported
  <2> SUFFICES ASSUME target = OwnerRole, Left(Database)' PROVE ~InUse(target)=> FALSE
    BY <1>3
  <2>1. Left(Database) /\ There(Database) /\ OwnerOid \in server[Database].uses
    BY <1>1, <1>4, ServerType DEF DispInv, DatabaseHoldsItsOwner
  <2> QED  BY <2>1 DEF InUse, OwnerOid
<1>7. /\ stage' \in Stages /\ stage'[1] \in {"drop roles", "failed", "gone", "ready"}
      /\ target' \in RoleSet /\ problems' \subseteq Names
      /\ RolesToCreate' /\ WhatIsRecorded' /\ WhatIsReported' /\ NothingIsLeftSilently'
  BY <1>1, <1>2, <1>4, <1>5, <1>6, DropNextKeeps
<1>8. DisposableTypeOK'
  BY <1>1, <1>3, <1>7 DEF DispInv, DisposableTypeOK
<1>9. DatabaseIsOurs'
  BY <1>1, <1>4, <1>7 DEF DispInv, DatabaseIsOurs, Left, Setup
<1> QED  BY <1>4, <1>7, <1>8, <1>9 DEF DispInv

-----------------------------------------------------------------------------
(* Others. *)

LEMMA Meddled == DispInv /\ Meddles => others' \in 0..MaxOthers
BY OidsAssumption DEF DispInv, DisposableTypeOK, Meddles, OidsAssumption

LEMMA RemoveKeeps ==
  ASSUME DispInv, NEW n \in Names, Remove(n) PROVE DispInv'
<1>1. /\ others' \in 0..MaxOthers /\ server' = [server EXCEPT ![n] = NoObject]
      /\ UNCHANGED <<lastOid, stage, created, target, problems, made>>
      /\ n # Database => ~InUse(n)
      /\ OwnerRole \in Names /\ Database \in Names /\ OwnerRole # Database
      /\ server \in [Names -> Object \union {NoObject}]
  BY Meddled, TheRoles DEF Remove, Droppable, DispInv, DisposableTypeOK, Names
<1>2. /\ server' \in [Names -> Object \union {NoObject}]
      /\ \A m \in Names : server'[m] = server[m] \/ server'[m] = NoObject
      /\ server'[OwnerRole] = server[OwnerRole] \/ ~InUse(OwnerRole)
  BY <1>1
<1>3. /\ Issued' /\ RolesAreRecorded' /\ RoleRecordsAreOurs' /\ DatabaseHoldsItsOwner'
      /\ \A m \in Names : Left(m)' => Left(m)
      /\ There(Database)' => /\ There(Database) /\ server'[Database].oid = server[Database].oid
                            /\ server'[Database].owner = server[Database].owner
  <2>1. \A m \in Names : There(m) \/ server[m] = NoObject
    BY DEF There
  <2>2. \A m \in Names :
          \/ server'[m] = NoObject
          \/ There(m) /\ server'[m].oid = server[m].oid /\ server'[m].owner = server[m].owner
    BY <1>2, <2>1
  <2> QED  BY <1>1, <1>2, <2>2, ServerKeeps
<1>4. DisposableTypeOK'
  BY <1>1, <1>2 DEF DispInv, DisposableTypeOK
<1>5. RolesToCreate' /\ WhatIsRecorded'
  BY <1>1 DEF DispInv, RolesToCreate, WhatIsRecorded, Recorded, At
<1>6. WhatIsReported'
  BY <1>1, <1>3 DEF DispInv, WhatIsReported, Passed, Reported, RolesRecorded, At
<1>7. NothingIsLeftSilently'
  BY <1>1, <1>3 DEF DispInv, NothingIsLeftSilently, Left, At
<1>8. DatabaseIsOurs'
  BY <1>1, <1>3 DEF DispInv, DatabaseIsOurs, Left
<1> QED  BY <1>3, <1>4, <1>5, <1>6, <1>7, <1>8 DEF DispInv

LEMMA TakeKeeps ==
  ASSUME DispInv, NEW n \in Names, Take(n) PROVE DispInv'
<1>1. PICK owner \in {0, OwnerOid} :
        /\ owner # 0 => n = Database /\ At("ready")
        /\ server' = [server EXCEPT ![n] = NewObject("", owner)]
  BY DEF Take
<1>2. /\ others' \in 0..MaxOthers /\ lastOid' = lastOid + 1 /\ lastOid < MaxOids
      /\ lastOid \in 0..MaxOids /\ MaxOids \in Nat
      /\ UNCHANGED <<stage, created, target, problems, made>>
      /\ n = OwnerRole /\ There(OwnerRole) => ~InUse(OwnerRole)
      /\ OwnerRole \in Names /\ Database \in Names /\ OwnerRole # Database
      /\ server \in [Names -> Object \union {NoObject}]
  BY Meddled, TheRoles, OidsAssumption
  DEF Take, Droppable, DispInv, DisposableTypeOK, Names, OidsAssumption
<1>3. owner \in 0..MaxOids
  BY <1>2, ServerType DEF OwnerOid
<1> DEFINE object == NewObject("", owner)
<1>4. /\ object \in Object /\ object.oid = lastOid + 1 /\ object.owner = owner
      /\ lastOid + 1 \in 1..MaxOids /\ lastOid + 1 \notin made
  BY <1>2, <1>3, NewObjectType, ServerType DEF Markers
<1>5. server' = [server EXCEPT ![n] = object]
  BY <1>1
<1> HIDE DEF object
<1>6. /\ server' \in [Names -> Object \union {NoObject}] /\ server'[n] = object
      /\ \A m \in Names \ {n} : server'[m] = server[m]
  BY <1>2, <1>4, <1>5
<1>7. \A m \in Names : Left(m)' => Left(m) /\ m # n
  BY <1>2, <1>4, <1>6 DEF Left
<1>8. DisposableTypeOK'
  BY <1>2, <1>4, <1>6 DEF DispInv, DisposableTypeOK
<1>9. Issued'
  <2>1. /\ \A m \in Names : server[m].oid <= lastOid /\ server[m].oid \in 0..MaxOids
        /\ \A o \in created : o.oid <= lastOid /\ o.oid \in 1..MaxOids
        /\ \A i \in made : i <= lastOid /\ i \in 1..MaxOids
    BY ServerType DEF DispInv, Issued, DisposableTypeOK, ObjectIdentity
  <2>2. \A i \in 0..MaxOids : i <= lastOid => i <= lastOid + 1
    BY <1>2
  <2>3. \A i \in 1..MaxOids : i <= lastOid => i <= lastOid + 1
    BY <1>2
  <2>4. lastOid + 1 <= lastOid + 1
    BY <1>2
  <2>5. \A m \in Names : server'[m].oid <= lastOid + 1
    BY <1>4, <1>6, <2>1, <2>2, <2>4
  <2> QED  BY <1>2, <2>1, <2>3, <2>5 DEF Issued
<1>10. \A o \in created : o.oid # lastOid + 1
  <2>1. \A o \in created : o.oid <= lastOid /\ o.oid \in 1..MaxOids
    BY DEF DispInv, Issued, DisposableTypeOK, ObjectIdentity
  <2>2. \A i \in 1..MaxOids : i <= lastOid => i # lastOid + 1
    BY <1>2
  <2> QED  BY <2>1, <2>2
<1>11. RolesToCreate' /\ WhatIsRecorded'
  BY <1>2 DEF DispInv, RolesToCreate, WhatIsRecorded, Recorded, At
<1>12. RolesAreRecorded'
  BY <1>2, <1>7 DEF DispInv, RolesAreRecorded, Recorded, Names
<1>13. RoleRecordsAreOurs'
  BY <1>2, <1>4, <1>6, <1>10 DEF DispInv, RoleRecordsAreOurs
<1>14. DatabaseIsOurs'
  <2>1. CASE n = Database
    <3>1. server'[Database].oid = lastOid + 1 /\ server'[Database].owner = owner
      BY <1>4, <1>6, <2>1
    <3>2. owner # 0 => stage[1] \notin Setup \union {"release", "drop database"}
      BY <1>1 DEF At, Setup
    <3> QED  BY <1>2, <1>10, <3>1, <3>2 DEF DatabaseIsOurs
  <2>2. CASE n # Database
    <3>1. server'[Database] = server[Database]
      BY <1>2, <1>6, <2>2
    <3> QED  BY <1>2, <3>1 DEF DispInv, DatabaseIsOurs, There, Left
  <2> QED  BY <2>1, <2>2
<1>15. DatabaseHoldsItsOwner'
  <2> SUFFICES ASSUME Left(Database)'
               PROVE  (There(OwnerRole) /\ OwnerOid \in server[Database].uses /\ Recorded(OwnerRole))'
    BY DEF DatabaseHoldsItsOwner
  <2>1. /\ Left(Database) /\ n # Database /\ There(Database)
        /\ There(OwnerRole) /\ OwnerOid \in server[Database].uses /\ Recorded(OwnerRole)
    BY <1>2, <1>7, ServerType DEF DispInv, DatabaseHoldsItsOwner
  <2>2. n # OwnerRole
    BY <1>2, <2>1 DEF InUse, OwnerOid
  <2>3. server'[Database] = server[Database] /\ server'[OwnerRole] = server[OwnerRole]
    BY <1>2, <1>6, <2>1, <2>2
  <2> QED  BY <1>2, <2>1, <2>3 DEF There, OwnerOid, Recorded
<1>16. WhatIsReported'
  BY <1>2, <1>7 DEF DispInv, WhatIsReported, Passed, Reported, RolesRecorded, At
<1>17. NothingIsLeftSilently'
  BY <1>2, <1>7 DEF DispInv, NothingIsLeftSilently, Left, At
<1> QED  BY <1>8, <1>9, <1>11, <1>12, <1>13, <1>14, <1>15, <1>16, <1>17 DEF DispInv

-----------------------------------------------------------------------------
(* The theorems. *)

LEMMA StepKeeps == DispInv /\ [DisposableNext]_disposableVars => DispInv'
<1> SUFFICES ASSUME DispInv, [DisposableNext]_disposableVars PROVE DispInv'
  OBVIOUS
<1>1. CASE Attest \/ VerifyOwnerAuthority \/ Raise
  BY <1>1, RaiseKeeps
<1>2. CASE CreateRole
  BY <1>2, CreateRoleKeeps
<1>3. CASE CreateDatabase
  BY <1>3, CreateDatabaseKeeps
<1>4. CASE RecordDatabase \/ RereadDatabase
  BY <1>4, RecordKeeps
<1>5. CASE CommentOn \/ ConfigureDatabase
  BY <1>5, AlterKeeps
<1>6. CASE Prepare \/ Interrupt \/ Teardown
  BY <1>6, FinishKeeps
<1>7. CASE AttestCleanup
  BY <1>7, AttestCleanupKeeps
<1>8. CASE CheckDatabase
  BY <1>8, CheckDatabaseKeeps
<1>9. CASE ReleaseConnections \/ DropDatabase
  BY <1>9, DisposeKeeps
<1>10. CASE NothingToDrop
  BY <1>10, NothingToDropKeeps
<1>11. CASE CheckRole
  BY <1>11, CheckRoleKeeps
<1>12. CASE RenameAndDrop
  BY <1>12, RenameAndDropKeeps
<1>13. CASE \E n \in Names : Remove(n) \/ Take(n)
  BY <1>13, RemoveKeeps, TakeKeeps
<1>14. CASE UNCHANGED disposableVars
  BY <1>14 DEF disposableVars, DispInv, DisposableTypeOK, Issued, RolesToCreate, RolesAreRecorded,
     RoleRecordsAreOurs, DatabaseIsOurs, DatabaseHoldsItsOwner, WhatIsRecorded, WhatIsReported,
     NothingIsLeftSilently, Left, Recorded, There, OwnerOid, At, Passed, Reported, RolesRecorded
<1> QED  BY <1>1, <1>2, <1>3, <1>4, <1>5, <1>6, <1>7, <1>8, <1>9, <1>10, <1>11, <1>12, <1>13,
           <1>14 DEF DisposableNext

LEMMA AlwaysDispInv == DisposableSpec => []DispInv
BY InitInv, StepKeeps, PTL DEF DisposableSpec

\* Every state of a run has the types declared for it (testing/bootstrap.py).
THEOREM DisposableTypeCorrect == DisposableSpec => []DisposableTypeOK
<1>1. DispInv => DisposableTypeOK
  BY DEF DispInv
<1> QED  BY <1>1, AlwaysDispInv, PTL

\* A failed setup reports whatever of its own it left, and a teardown that
\* reports nothing left nothing, whatever failed and whatever others did.
THEOREM CleanupIsHonest == DisposableSpec => []NothingIsLeftSilently
<1>1. DispInv => NothingIsLeftSilently
  BY DEF DispInv
<1> QED  BY <1>1, AlwaysDispInv, PTL

LEMMA StepDisposesOfOurs ==
  DispInv /\ [DisposableNext]_disposableVars =>
    (stage[1] \in Cleanup /\ stage' # stage =>
      \A n \in Names : server'[n] # server[n] => server[n].oid \in made)
<1> SUFFICES ASSUME DispInv, [DisposableNext]_disposableVars, stage[1] \in Cleanup, stage' # stage,
                    NEW n \in Names, server'[n] # server[n]
             PROVE  server[n].oid \in made
  OBVIOUS
<1>1. server \in [Names -> Object \union {NoObject}]
  BY DEF DispInv, DisposableTypeOK
<1>2. CASE ReleaseConnections \/ DropDatabase
  <2>1. /\ n = Database /\ OwnsDatabase /\ stage[1] \in {"release", "drop database"}
    BY <1>1, <1>2 DEF ReleaseConnections, DropDatabase, MayDrop, At
  <2>2. OwnerRole \in Names /\ There(OwnerRole) /\ There(Database)
        /\ server[Database].owner = OwnerOid
    BY <2>1, TheRoles DEF OwnsDatabase, Names
  <2>3. OwnerOid # 0
    BY <2>2, ServerType, OidsAssumption DEF Object, OwnerOid, OidsAssumption
  <2> QED  BY <2>1, <2>2, <2>3 DEF DispInv, DatabaseIsOurs, Left
<1>3. CASE RenameAndDrop
  <2>1. n = target /\ At("rename") /\ StillTheSame(RecordOf(target))
    BY <1>1, <1>3 DEF RenameAndDrop
  <2>2. target \in RolesRecorded
    BY <2>1 DEF DispInv, WhatIsReported, At
  <2>3. /\ RecordOf(target) \in created /\ RecordOf(target).name = target /\ target # Database
    BY <2>2 DEF RolesRecorded, RecordOf
  <2>4. server[target].oid = RecordOf(target).oid
    BY <2>1, <2>3 DEF StillTheSame
  <2> QED  BY <2>1, <2>3, <2>4 DEF DispInv, RoleRecordsAreOurs
<1>4. CASE Attest \/ VerifyOwnerAuthority \/ Raise \/ CreateRole \/ CreateDatabase \/ RecordDatabase
           \/ RereadDatabase \/ CommentOn \/ ConfigureDatabase \/ Prepare \/ Teardown
  <2>1. stage[1] \in Setup \/ stage[1] = "ready"
    BY <1>4 DEF Attest, VerifyOwnerAuthority, Raise, CreateRole, CreateDatabase, RecordDatabase,
       RereadDatabase, CommentOn, ConfigureDatabase, Prepare, Teardown, At, Setup
  <2> QED  BY <2>1 DEF Setup, Cleanup
<1>5. CASE Interrupt \/ AttestCleanup \/ CheckDatabase \/ NothingToDrop \/ CheckRole
  BY <1>5 DEF Interrupt, AttestCleanup, CheckDatabase, NothingToDrop, CheckRole
<1>6. CASE \E m \in Names : Remove(m) \/ Take(m)
  BY <1>6 DEF Remove, Take
<1>7. CASE UNCHANGED disposableVars
  BY <1>7 DEF disposableVars
<1> QED  BY <1>2, <1>3, <1>4, <1>5, <1>6, <1>7 DEF DisposableNext

\* Cleanup alters and removes what this process created, and nothing that took
\* its name in the meantime.
THEOREM CleanupIsCareful == DisposableSpec => OnlyOursIsDisposed
<1>1. DisposableSpec => [][DispInv /\ [DisposableNext]_disposableVars]_disposableVars
  BY AlwaysDispInv, PTL DEF DisposableSpec
<1> QED  BY <1>1, StepDisposesOfOurs, PTL DEF OnlyOursIsDisposed

==============================================================================
