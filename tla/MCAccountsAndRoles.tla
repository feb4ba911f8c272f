-------------------------- MODULE MCAccountsAndRoles --------------------------
\* Four situations of one identity plane: the roles its schema is wired for, a
\* server on which a disposable copy of it is made and removed, the accounts in
\* it, and the portal that shows one of them.  They share no state, so a
\* behaviour is about one of them and the others stay as they began.
EXTENDS AccountPlane, RoleWiring, DisposableDatabase, PortalSession, TLC

MCGrantable ==
    Entries("application", {<<"auth tables", "SELECT">>}, FALSE)
        \union Entries("application", {<<"auth tables", "UPDATE">>}, TRUE)
        \union Entries("stranger", {<<"lifecycle_claim_provenance", "INSERT">>}, TRUE)
        \union Entries("PUBLIC", {<<"entry points", "EXECUTE">>, <<"identity internals", "EXECUTE">>}, FALSE)
        \union Entries("lifecycle writer", {<<"workspaces", "DELETE">>, <<"schema", "CREATE">>}, FALSE)
MCDefaultRules == {[to |-> "stranger", kind |-> "TABLES", priv |-> "SELECT"],
                   [to |-> "application", kind |-> "FUNCTIONS", priv |-> "EXECUTE"]}
MCJoinable == {
    [member |-> "application", of |-> "lifecycle writer", option |-> "set", by |-> "other"],
    [member |-> "owner", of |-> "lifecycle writer", option |-> "inherit", by |-> "other"],
    [member |-> "application", of |-> "stranger", option |-> "set", by |-> "other"],
    [member |-> "stranger", of |-> "owner", option |-> "inherit", by |-> "other"]}
MCTaintable == {"application", "lifecycle writer"}

Symmetry == Permutations(Txs) \union Permutations(Workspaces)

\* Of the three things that happen around the portal, two are the customer's.
TwoGestures == happened.gestures <= 2

AccountsRest == account.active /\ Init
PortalRest == cookie = Nobody /\ api.live = {} /\ api.bound[1] = Unbound /\ PortalInit

EitherInit == Init /\ RolesInit /\ DisposableInit /\ PortalInit
EitherNext ==
    \/ RolesInit /\ DisposableInit /\ PortalRest
       /\ Next /\ UNCHANGED <<rolesVars, disposableVars, portalVars>>
    \/ AccountsRest /\ DisposableInit /\ PortalRest
       /\ RolesNext /\ UNCHANGED <<vars, disposableVars, portalVars>>
    \/ AccountsRest /\ RolesInit /\ PortalRest
       /\ DisposableNext /\ UNCHANGED <<vars, rolesVars, portalVars>>
    \/ AccountsRest /\ RolesInit /\ DisposableInit
       /\ PortalNext /\ UNCHANGED <<vars, rolesVars, disposableVars>>
EitherSpec == EitherInit /\ [][EitherNext]_<<vars, rolesVars, disposableVars, portalVars>>
===============================================================================
