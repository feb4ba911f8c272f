-------------------------- MODULE MembershipPlane --------------------------
(***************************************************************************)
(* One workspace: who is a member of it in which role, the invitations to  *)
(* it, the API credentials its members issued, the browser sessions bound  *)
(* to it, its name, and what its members stated for it and consented to    *)
(* (migrations 0005 and 0006 of control_plane/db).                         *)
(*                                                                         *)
(* Each member of Txs is one request, one READ COMMITTED transaction: the  *)
(* bind of the caller's session and then one operation, statements that    *)
(* interleave with the others' at the row locks.  A statement reads what   *)
(* is committed when it starts, or once the row it waited for is free;     *)
(* every lock is kept to the end; what a transaction writes is seen when   *)
(* it commits; one that fails, or that the deadlock detector picks, leaves *)
(* nothing.                                                                *)
(*                                                                         *)
(* An account has one session.  A row inserted by a transaction carries    *)
(* its name, a row of the initial state an account's.  Left out: other     *)
(* workspaces, the end of sessions and the expiry of credentials (see      *)
(* AccountPlane), outbox events, and every audit entry but those of the    *)
(* name, the statement and the consent.                                    *)
(***************************************************************************)
EXTENDS Naturals, Sequences

CONSTANTS
  Accounts,  \* the customer accounts, all verified
  Txs,       \* the requests of a behaviour
  Ops,       \* the operations they make, see Operation
  Asked,     \* the roles they ask for
  Keys,      \* the idempotency keys they give
  Words,     \* the names and the statements of intent they give
  Details,   \* what of a statement the audit trail is told, see DetailsAssumption
  None       \* no membership, no key, nothing stated

Role == {"viewer", "member", "admin", "owner"}

Preferences == {"state", "acknowledge"}
WorkspaceWrites == {"remove", "change", "invite", "uninvite", "issue", "rotate", "revoke", "rename"}
                     \cup Preferences
WorkspaceReads == {"members", "invitations", "credentials"}
AccountMode == {"accept", "select", "unbind", "profile"}
Operation == WorkspaceWrites \cup WorkspaceReads \cup AccountMode

ASSUME MembershipAssumption ==
  /\ Ops \subseteq Operation /\ Asked \subseteq Role
  /\ Accounts \cap Txs = {}
  /\ None \notin Accounts \cup Txs \cup Keys \cup Role \cup Words

\* The trail is told the regions, the exclusions and the intent of a statement, and
\* whether it has a note: statements that differ in what their notes say have the same
\* details, the empty statement (None) its own.
ASSUME DetailsAssumption ==
  /\ DOMAIN Details = Words \cup {None}
  /\ \A w \in Words \cup {None} : Details[w] = None <=> w = None

\* What a role may do, and what of it a credential may carry.
Everything == {"membership:read", "credential:issue", "workspace:write",
               "membership:manage", "audit:read"}
RoleScopes == [viewer |-> {"membership:read"},
               member |-> {"membership:read", "credential:issue", "workspace:write"},
               admin |-> Everything,
               owner |-> Everything]
Issuable == {"workspace:write", "audit:read"}

\* The scopes an operation asks of its caller's membership.
Needs(op) == CASE op \in {"issue", "rotate", "revoke"} -> {"credential:issue"}
               [] op \in {"rename"} \cup Preferences    -> {"workspace:write"}
               [] op = "members"                       -> {"membership:read"}
               [] op = "credentials"                   -> {}
               [] OTHER                                -> {"membership:manage"}

Rows == Accounts \cup Txs

VARIABLES
  member,      \* committed: memberships
  invite,      \* committed: workspace_invitations
  credential,  \* committed: auth_bindings issued from a membership
  session,     \* committed: the membership each account's session is bound to
  claims,      \* committed: idempotency records
  workspace,   \* committed: the workspaces and workspace_preferences rows
  trail,       \* committed: the audit entries about those two, in order
  tx           \* [Txs -> transaction]

about == <<workspace, trail>>
tables == <<member, invite, credential, session, claims, about>>
vars == <<tables, tx>>

Member == [account : Accounts \cup {None}, role : Role,
           state : {"absent", "active", "revoked"}]
Invite == [email : Accounts \cup {None}, role : Role, expired : BOOLEAN,
           state : {"absent", "pending", "accepted", "revoked"}]
Credential == [member : Rows \cup {None}, scopes : SUBSET Issuable,
               state : {"absent", "live", "revoked"}]

\* Its name; whether there is a row for what is stated (None: nothing) and for who
\* consented.
Workspace == [name : Words \cup {None}, row : BOOLEAN, stated : Words \cup {None},
              consent : Accounts \cup {None}]
Event == [what : {"renamed", "stated", "acknowledged"}, by : Accounts,
          says : Words \cup {None} \cup { Details[w] : w \in Words }, key : Keys \cup {None}]

\* What is asked: target is the membership, invitation or credential it
\* names, or the account invited; as, the membership it is asked or selected through.
Request == [op : Operation, caller : Accounts \cup {None}, as : Rows \cup {None},
            target : Rows \cup {None}, role : Role, scopes : SUBSET Issuable,
            words : Words \cup {None}]
Claim == [key : Keys, fingerprint : Request]

Places == {"idle", "bind", "touch", "workspace", "own", "disclose", "act", "pending",
           "unbind", "insert", "record", "commit", "answered", "refused"}

\* A row lock, with the strength PostgreSQL gives it: FOR KEY SHARE 1, FOR SHARE 2,
\* UPDATE 3, FOR UPDATE 4.
Lock == [table : {"workspace", "preferences", "member", "invite", "session"}, row : Rows \cup {None},
         strength : 1 .. 4]

Transaction ==
  [pc : Places, request : Request, key : Keys \cup {None},
   cached : Role \cup {None},   \* the role the session was bound with
   drops : BOOLEAN,             \* the membership it was bound to was gone
   late : BOOLEAN,              \* the invitation had expired when the call began
   seen : Workspace,            \* the preferences as they were read
   locks : SUBSET Lock,
   todo : SUBSET Accounts,      \* sessions the running UPDATE matched and has not visited
   unbound : SUBSET Accounts]   \* sessions it unbound

\* As create_workspace leaves it; its name then is left out.
Unstated == [name |-> None, row |-> FALSE, stated |-> None, consent |-> None]

Idle == [pc |-> "idle",
         request |-> [op |-> "profile", caller |-> None, as |-> None, target |-> None,
                      role |-> "viewer", scopes |-> {}, words |-> None],
         key |-> None, cached |-> None, drops |-> FALSE, late |-> FALSE, seen |-> Unstated,
         locks |-> {}, todo |-> {}, unbound |-> {}]

Op(t) == tx[t].request.op
Caller(t) == tx[t].request.caller
As(t) == tx[t].request.as
Target(t) == tx[t].request.target
MyRole(t) == member[As(t)].role

Active(m) == m # None /\ member[m].state = "active"
MemberRows(a) == { m \in Rows : Active(m) /\ member[m].account = a }
Owners == { m \in Rows : Active(m) /\ member[m].role = "owner" }
Pending(i) == invite[i].state = "pending"

(***************************************************************************)
(* A workspace with an owner.  Every member has a credential with all it   *)
(* may carry and a session bound to the workspace; everybody else has been *)
(* removed and is invited again, and may have a session that was being     *)
(* bound while it was removed, see SelectWorkspace.                        *)
(***************************************************************************)
Init ==
  \E in, stale \in SUBSET Accounts, roles \in [Accounts -> Role] :
    /\ in \cap stale = {} /\ \E a \in in : roles[a] = "owner"
    /\ member = [r \in Rows |->
         IF r \in Accounts
         THEN [account |-> r, role |-> roles[r], state |-> IF r \in in THEN "active" ELSE "revoked"]
         ELSE [account |-> None, role |-> "viewer", state |-> "absent"]]
    /\ invite = [r \in Rows |->
         IF r \in Accounts \ in
         THEN [email |-> r, role |-> roles[r], expired |-> FALSE, state |-> "pending"]
         ELSE [email |-> None, role |-> "viewer", expired |-> FALSE, state |-> "absent"]]
    /\ credential = [r \in Rows |->
         IF r \in in /\ "credential:issue" \in RoleScopes[roles[r]]
         THEN [member |-> r, scopes |-> Issuable \cap RoleScopes[roles[r]], state |-> "live"]
         ELSE [member |-> None, scopes |-> {}, state |-> "absent"]]
    /\ session = [a \in Accounts |-> IF a \in in \cup stale THEN a ELSE None]
    /\ claims = {} /\ workspace = Unstated /\ trail = <<>>
    /\ tx = [t \in Txs |-> Idle]

(***************************************************************************)
(* Decisions.  Under the workspace lock nothing an operation decides on    *)
(* changes before it commits.                                              *)
(***************************************************************************)

\* What a key stands for: the operation and what it names, with the membership a
\* credential is asked for through and the account that accepts.
Fingerprint(q) == CASE q.op \in {"issue", "rotate"} -> q
              [] q.op = "accept" -> [q EXCEPT !.as = None]
              [] OTHER -> [q EXCEPT !.caller = None, !.as = None]

\* The record of t's key: the tenant's, or for an acceptance the account's own.
Claimed(t) == { c \in claims : /\ c.key = tx[t].key /\ c.fingerprint.op = Op(t)
                               /\ Op(t) = "accept" => c.fingerprint.caller = Caller(t) }

\* Mutant: owners who were removed still count.
NoOwnerButEver(m) ==
  { r \in Rows : member[r].state # "absent" /\ member[r].role = "owner" } \subseteq {m}
NoOwnerBut(m) == Owners \subseteq {m}

\* Refused before the key is looked up.
Barred(t) ==
  LET q == tx[t].request IN
  \/ Op(t) = "invite" /\ q.role = "owner" /\ MyRole(t) # "owner"
  \/ Op(t) = "issue" /\ ~(q.scopes \subseteq RoleScopes[MyRole(t)])
  \/ Op(t) = "rotate" /\ credential[Target(t)].member # As(t)

\* Refused after it: not there any more, an owner's affair, the last owner, a member
\* already.
Unfit(t) ==
  LET q == tx[t].request
      m == member[Target(t)] IN
  \/ Op(t) \in {"remove", "change"} /\
       \/ ~Active(Target(t))
       \/ MyRole(t) # "owner" /\ "owner" \in {m.role} \cup (IF Op(t) = "change" THEN {q.role} ELSE {})
       \/ m.role = "owner" /\ (Op(t) = "remove" \/ q.role # "owner") /\ NoOwnerBut(Target(t))
  \/ Op(t) = "rotate" /\ credential[Target(t)].state # "live"
  \/ Op(t) = "invite" /\ MemberRows(Target(t)) # {}

\* Whose retried or refused call ends here, and whose goes on.
Judged(t) == tx[t].pc = "act" /\ Op(t) \in WorkspaceWrites /\ (Barred(t) \/ Claimed(t) # {} \/ Unfit(t))
GoesOn(t, op) == tx[t].pc = "act" /\ Op(t) = op /\ ~Judged(t)

\* Pending invitations of an account that have expired.
Lapsed(a) == { i \in Rows : Pending(i) /\ invite[i].email = a /\ invite[i].expired }

(***************************************************************************)
(* Locks                                                                   *)
(***************************************************************************)
L(table, row, strength) == [table |-> table, row |-> row, strength |-> strength]

Conflict(k, l) == k.table = l.table /\ k.row = l.row /\ k.strength + l.strength > 4

\* The bind touches its session; the authority locks the workspace for a write and
\* for a read shares the caller's row; a new membership refers to the workspace.
TouchLocks(t) == { L("session", Caller(t), 3) }
WorkspaceLock == L("workspace", None, 4)
OwnLock(t) == L("member", As(t), 2)
\* Mutant: the foreign key takes no lock.
ReferenceLocksNone == {}
ReferenceLocks == { L("workspace", None, 1) }

\* The locks t's next statement waits for; a cascade visits its rows in any order.
Wants(t) ==
  CASE tx[t].pc = "touch"     -> TouchLocks(t)
    [] tx[t].pc = "workspace" -> {WorkspaceLock}
    [] tx[t].pc = "own"       -> {OwnLock(t)}
    [] GoesOn(t, "remove") \/ GoesOn(t, "change") -> { L("member", Target(t), 3) }
    [] GoesOn(t, "uninvite") /\ Pending(Target(t)) -> { L("invite", Target(t), 3) }
    [] \E op \in Preferences : GoesOn(t, op) ->
         IF workspace.row THEN { L("preferences", None, 4) } ELSE {}
    [] tx[t].pc = "act" /\ Op(t) = "accept" -> { L("invite", Target(t), 4) }
    [] tx[t].pc = "pending"   -> { L("invite", i, 3) : i \in Lapsed(Target(t)) }
    [] tx[t].pc = "unbind"    -> { L("session", a, 3) : a \in tx[t].todo }
    [] tx[t].pc = "insert"    -> ReferenceLocks
    [] OTHER                  -> {}

Blocks(u, k) == \E l \in tx[u].locks : Conflict(k, l)
Free(t, k) == \A u \in Txs \ {t} : ~Blocks(u, k)
Granted(t) == \A k \in Wants(t) : Free(t, k)

\* C waits in a circle: none of its members gets on before another one ends.
WaitsFor(t) == { u \in Txs \ {t} : \E k \in Wants(t) : Blocks(u, k) }
Circle(C) == C # {} /\ \A t \in C : WaitsFor(t) \cap C # {}

(***************************************************************************)
(* The bind                                                                *)
(***************************************************************************)
Go(t, place) == tx' = [tx EXCEPT ![t].pc = place, ![t].locks = @ \cup Wants(t)]
End(t, answer) == tx' = [tx EXCEPT ![t] = [Idle EXCEPT !.pc = answer]]
Refuse(t) == End(t, "refused") /\ UNCHANGED tables
Answer(t) == End(t, "answered") /\ UNCHANGED tables

\* Rows a request may name: those there are.
Named(op, a) ==
  CASE op \in {"remove", "change"} -> { r \in Rows : member[r].state # "absent" }
    [] op \in {"uninvite", "accept"} -> { r \in Rows : invite[r].state # "absent" }
    [] op \in {"rotate", "revoke"} -> { r \in Rows : credential[r].state # "absent" }
    [] op = "invite" -> Accounts
    [] OTHER -> {a}

Begin(t) ==
  /\ tx[t].pc = "idle"
  /\ \E op \in Ops, a \in Accounts :
       \E target \in Named(op, a),
          role \in IF op \in {"change", "invite"} THEN Asked ELSE {"viewer"},
          scopes \in IF op = "issue" THEN SUBSET Issuable ELSE {{}},
          words \in (IF op \in {"rename", "state"} THEN Words ELSE {}) \cup (IF op = "rename" THEN {} ELSE {None}),
          key \in IF op \in (WorkspaceWrites \ Preferences) \cup {"accept"} THEN Keys \cup {None} ELSE {None} :
         tx' = [tx EXCEPT ![t].pc = "bind", ![t].key = key,
                  ![t].request = [op |-> op, caller |-> a, as |-> None, target |-> target,
                                  role |-> role, scopes |-> scopes, words |-> words]]
  /\ UNCHANGED tables

\* bind_session_context reads the session and, again, the membership behind it.
BindSession(t) ==
  LET m == session[Caller(t)] IN
  /\ tx[t].pc = "bind"
  /\ IF Active(m)
       THEN tx' = [tx EXCEPT ![t].pc = "touch", ![t].request.as = m, ![t].cached = member[m].role]
       ELSE IF Op(t) \in AccountMode
         THEN tx' = [tx EXCEPT ![t].pc = "touch", ![t].drops = (m # None)]
         ELSE End(t, "refused")
  /\ UNCHANGED tables

\* Where the operation goes on, bound: the authority it asks for first.
Bind(op) == CASE op \in WorkspaceWrites -> "workspace"
              [] op \in WorkspaceReads -> "own"
              [] op \in {"accept", "select"} -> "act"
              [] OTHER -> "commit"

\* It writes the session's row, and keeps it locked.  A write looks at the cached
\* role before it waits for the workspace; an acceptance reads the clock.
Touch(t) ==
  /\ tx[t].pc = "touch" /\ Granted(t)
  /\ IF Op(t) \in WorkspaceWrites /\ ~(Needs(Op(t)) \subseteq RoleScopes[tx[t].cached])
       THEN Refuse(t)
       ELSE /\ tx' = [tx EXCEPT ![t].locks = @ \cup Wants(t),
                ![t].late = Op(t) = "accept" /\ invite[Target(t)].expired,
                ![t].pc = Bind(Op(t))]
            /\ UNCHANGED tables

\* workspace_membership_authority: the caller's own membership, as it is once the
\* lock is held.
Authorised(t) == Active(As(t)) /\ Needs(Op(t)) \subseteq RoleScopes[MyRole(t)]

LockWorkspace(t) ==
  /\ tx[t].pc = "workspace" /\ Granted(t)
  /\ IF Authorised(t) THEN Go(t, "act") /\ UNCHANGED tables ELSE Refuse(t)

\* Mutant: the role the session was bound with decides.
ShareOwnRowAsBound(t) ==
  /\ tx[t].pc = "own" /\ Granted(t)
  /\ IF Needs(Op(t)) \subseteq RoleScopes[tx[t].cached]
       THEN Go(t, "disclose") /\ UNCHANGED tables ELSE Refuse(t)

ShareOwnRow(t) ==
  /\ tx[t].pc = "own" /\ Granted(t)
  /\ IF Authorised(t) THEN Go(t, "disclose") /\ UNCHANGED tables ELSE Refuse(t)

Disclose(t) == tx[t].pc = "disclose" /\ Answer(t)

(***************************************************************************)
(* Writes to the workspace                                                 *)
(***************************************************************************)
Judge(t) ==
  /\ Judged(t)
  /\ IF ~Barred(t) /\ \E c \in Claimed(t) : c.fingerprint = Fingerprint(tx[t].request)
       THEN Answer(t) ELSE Refuse(t)

\* The effect commits with the key's record.
Commit(t) ==
  /\ End(t, "answered")
  /\ claims' = claims \cup { [key |-> k, fingerprint |-> Fingerprint(tx[t].request)] : k \in {tx[t].key} \ {None} }

Revoked(holders) == [r \in Rows |-> IF credential[r].member \in holders
                                      /\ credential[r].state = "live"
                                    THEN [credential[r] EXCEPT !.state = "revoked"]
                                    ELSE credential[r]]

\* remove_membership, and the trigger's cascade: it unbinds the sessions bound
\* through the membership one by one.
Remove(t) ==
  /\ GoesOn(t, "remove") /\ Granted(t)
  /\ tx' = [tx EXCEPT ![t].pc = "unbind", ![t].locks = @ \cup Wants(t),
                      ![t].todo = { a \in Accounts : session[a] = Target(t) }]
  /\ UNCHANGED tables

UnbindRow(t) ==
  /\ tx[t].pc = "unbind"
  /\ \E a \in tx[t].todo :
       LET hit == IF session[a] = Target(t) THEN {a} ELSE {} IN
       /\ Free(t, L("session", a, 3))
       /\ tx' = [tx EXCEPT ![t].todo = @ \ {a}, ![t].unbound = @ \cup hit,
                           ![t].locks = @ \cup { L("session", b, 3) : b \in hit }]
  /\ UNCHANGED tables

CommitRemoval(t) ==
  /\ tx[t].pc = "unbind" /\ tx[t].todo = {}
  /\ member' = [member EXCEPT ![Target(t)].state = "revoked"]
  /\ credential' = Revoked({Target(t)})
  /\ session' = [a \in Accounts |-> IF a \in tx[t].unbound THEN None ELSE session[a]]
  /\ Commit(t) /\ UNCHANGED <<invite, about>>

\* Mutant: only the loss of credential:issue ends them.
EndedByRoleIssue(m, role) == IF "credential:issue" \in RoleScopes[role] THEN {} ELSE {m}

\* Whose credentials end: the holder's of a role that is to permit less.
EndedByRole(m, role) == IF RoleScopes[member[m].role] \subseteq RoleScopes[role] THEN {} ELSE {m}

\* change_membership_role.
ChangeRole(t) ==
  LET m == Target(t)
      role == tx[t].request.role IN
  /\ GoesOn(t, "change") /\ Granted(t)
  /\ member' = [member EXCEPT ![m].role = role]
  /\ credential' = Revoked(EndedByRole(m, role))
  /\ Commit(t) /\ UNCHANGED <<invite, session, about>>

\* create_invitation: not to a member; then not to somebody invited already, once
\* what has expired is revoked.
CheckInvitee(t) == GoesOn(t, "invite") /\ Go(t, "pending") /\ UNCHANGED tables

InsertInvitation(t) ==
  LET a == Target(t) IN
  /\ tx[t].pc = "pending" /\ Granted(t)
  /\ IF \E i \in Rows \ Lapsed(a) : Pending(i) /\ invite[i].email = a
       THEN Refuse(t)
       ELSE /\ invite' = [i \in Rows |->
                 IF i = t THEN [email |-> a, role |-> tx[t].request.role, expired |-> FALSE,
                                state |-> "pending"]
                 ELSE IF i \in Lapsed(a) THEN [invite[i] EXCEPT !.state = "revoked"]
                 ELSE invite[i]]
            /\ Commit(t) /\ UNCHANGED <<member, credential, session, about>>

RevokeInvitation(t) ==
  /\ GoesOn(t, "uninvite") /\ Granted(t)
  /\ invite' = IF Pending(Target(t)) THEN [invite EXCEPT ![Target(t)].state = "revoked"] ELSE invite
  /\ Commit(t) /\ UNCHANGED <<member, credential, session, about>>

NewCredential(t, scopes) == [member |-> As(t), scopes |-> scopes, state |-> "live"]

IssueCredential(t) ==
  /\ GoesOn(t, "issue")
  /\ credential' = [credential EXCEPT ![t] = NewCredential(t, tx[t].request.scopes)]
  /\ Commit(t) /\ UNCHANGED <<member, invite, session, about>>

RotateCredential(t) ==
  /\ GoesOn(t, "rotate")
  /\ credential' = [credential EXCEPT ![t] = NewCredential(t, credential[Target(t)].scopes),
                                      ![Target(t)].state = "revoked"]
  /\ Commit(t) /\ UNCHANGED <<member, invite, session, about>>

\* One's own, or with membership:manage anybody's.
RevokeCredential(t) ==
  LET c == Target(t) IN
  /\ GoesOn(t, "revoke")
  /\ credential' = IF credential[c].state = "live" /\ (credential[c].member = As(t)
                        \/ "membership:manage" \in RoleScopes[MyRole(t)])
                     THEN [credential EXCEPT ![c].state = "revoked"] ELSE credential
  /\ Commit(t) /\ UNCHANGED <<member, invite, session, about>>

(***************************************************************************)
(* What the workspace is called, intends and agreed to                     *)
(***************************************************************************)
\* The details of an entry: the new name, or the bounded details of the statement.
Entry(t, what) ==
  [what |-> what, by |-> Caller(t), key |-> tx[t].key,
   says |-> LET words == tx[t].request.words IN IF what = "stated" THEN Details[words] ELSE words]

Recorded(t, what) == Append(trail, Entry(t, what))

RenameWorkspace(t) ==
  /\ GoesOn(t, "rename")
  /\ workspace' = [workspace EXCEPT !.name = tx[t].request.words]
  /\ trail' = Recorded(t, "renamed")
  /\ Commit(t) /\ UNCHANGED <<member, invite, credential, session>>

\* The preferences row, locked where there is one.
ReadPreferences(t) ==
  /\ \E op \in Preferences : GoesOn(t, op)
  /\ Granted(t)
  /\ tx' = [tx EXCEPT ![t].pc = "record", ![t].locks = @ \cup Wants(t), ![t].seen = workspace]
  /\ UNCHANGED tables

\* The statement in force is stated again, or the consent given again.
NothingNew(t) ==
  LET seen == tx[t].seen IN
  IF Op(t) = "state" THEN seen.stated = tx[t].request.words ELSE seen.consent # None

\* Mutant: whoever writes the row consents.
SetConsentAlways(t) == Caller(t)

\* The trigger: a new consent is the caller's, one in force is carried along.
SetConsent(t) ==
  IF Op(t) = "acknowledge" /\ workspace.consent = None THEN Caller(t) ELSE workspace.consent

\* state_workspace_preferences and acknowledge_workspace_consent write the row they
\* read, or insert the workspace's only one.
RecordPreferences(t) ==
  /\ tx[t].pc = "record"
  /\ IF NothingNew(t) THEN Answer(t)
     ELSE IF workspace.row # tx[t].seen.row THEN Refuse(t)
     ELSE /\ workspace' = [workspace EXCEPT !.row = TRUE, !.consent = SetConsent(t),
                             !.stated = IF Op(t) = "state" THEN tx[t].request.words ELSE @]
          /\ trail' = Recorded(t, IF Op(t) = "state" THEN "stated" ELSE "acknowledged")
          /\ Commit(t) /\ UNCHANGED <<member, invite, credential, session>>

(***************************************************************************)
(* In account mode                                                         *)
(***************************************************************************)
\* The bind's own write to the session row.
Bound(t) == IF tx[t].drops THEN [session EXCEPT ![Caller(t)] = None] ELSE session

LockInvitation(t) ==
  LET i == Target(t) IN
  /\ tx[t].pc = "act" /\ Op(t) = "accept" /\ Granted(t)
  /\ IF Claimed(t) # {}
       THEN IF \E c \in Claimed(t) : c.fingerprint = Fingerprint(tx[t].request)
              THEN End(t, "answered") /\ session' = Bound(t)
                   /\ UNCHANGED <<member, invite, credential, claims, about>>
              ELSE Refuse(t)
     ELSE IF invite[i].email # Caller(t) \/ ~Pending(i) \/ tx[t].late \/ MemberRows(Caller(t)) # {}
       THEN Refuse(t)
     ELSE Go(t, "insert") /\ UNCHANGED tables

\* The new membership refers to the workspace.  A key the tenant knows already, or a
\* second active membership, breaks a unique index.
InsertMembership(t) ==
  LET i == Target(t) IN
  /\ tx[t].pc = "insert" /\ Granted(t)
  /\ IF MemberRows(Caller(t)) # {} \/ \E c \in claims : c.key = tx[t].key /\ c.fingerprint.op = "accept"
       THEN Refuse(t)
       ELSE /\ member' = [member EXCEPT ![t] = [account |-> Caller(t), role |-> invite[i].role,
                                                state |-> "active"]]
            /\ invite' = [invite EXCEPT ![i].state = "accepted"]
            /\ session' = Bound(t)
            /\ Commit(t) /\ UNCHANGED <<credential, about>>

\* bind_session_workspace finds the membership, and commits the binding later.
SelectWorkspace(t) ==
  /\ tx[t].pc = "act" /\ Op(t) = "select"
  /\ IF MemberRows(Caller(t)) = {} THEN Refuse(t)
     ELSE \E m \in MemberRows(Caller(t)) :
            tx' = [tx EXCEPT ![t].pc = "commit", ![t].request.as = m] /\ UNCHANGED tables

CommitSession(t) ==
  /\ tx[t].pc = "commit" /\ End(t, "answered")
  /\ session' = CASE Op(t) = "select" -> [session EXCEPT ![Caller(t)] = As(t)]
                  [] Op(t) = "unbind" -> [session EXCEPT ![Caller(t)] = None]
                  [] OTHER            -> Bound(t)
  /\ UNCHANGED <<member, invite, credential, claims, about>>

(***************************************************************************)
\* An error, or the deadlock detector.
Abort(t) == tx[t].pc \notin {"idle", "answered", "refused"} /\ Refuse(t)

Expire(i) ==
  /\ Pending(i) /\ ~invite[i].expired
  /\ invite' = [invite EXCEPT ![i].expired = TRUE]
  /\ UNCHANGED <<member, credential, session, claims, about, tx>>

Done == (\A t \in Txs : tx[t].pc \in {"answered", "refused"}) /\ UNCHANGED vars

Step(t) ==
  \/ Begin(t) \/ BindSession(t) \/ Touch(t) \/ LockWorkspace(t) \/ ShareOwnRow(t) \/ Disclose(t)
  \/ Judge(t) \/ Remove(t) \/ UnbindRow(t) \/ CommitRemoval(t) \/ ChangeRole(t)
  \/ CheckInvitee(t) \/ InsertInvitation(t) \/ RevokeInvitation(t)
  \/ IssueCredential(t) \/ RotateCredential(t) \/ RevokeCredential(t)
  \/ RenameWorkspace(t) \/ ReadPreferences(t) \/ RecordPreferences(t)
  \/ LockInvitation(t) \/ InsertMembership(t) \/ SelectWorkspace(t) \/ CommitSession(t)
  \/ Abort(t)

Next == (\E t \in Txs : Step(t)) \/ (\E i \in Rows : Expire(i)) \/ Done

Spec == Init /\ [][Next]_vars

(***************************************************************************)
(* Properties                                                              *)
(***************************************************************************)

\* Types, and no two transactions hold locks that conflict.
TypeOK ==
  /\ member \in [Rows -> Member] /\ invite \in [Rows -> Invite]
  /\ credential \in [Rows -> Credential] /\ session \in [Accounts -> Rows \cup {None}]
  /\ claims \subseteq Claim /\ workspace \in Workspace /\ trail \in Seq(Event) /\ tx \in [Txs -> Transaction]
  /\ \A t, u \in Txs : t # u => \A l \in tx[t].locks : ~Blocks(u, l)

\* A workspace always has an owner: "is this the last one" is asked under the
\* workspace lock (0005, remove_membership and change_membership_role).
AnOwnerRemains == Owners # {}

\* Who gets an answer holds, at that moment, the membership and the role it takes,
\* whatever the session was bound with and whether or not the answer is a replay;
\* and only an owner changes who the owners are or invites one (0005,
\* workspace_membership_authority).
AuthorityIsCurrent ==
  [][\A t \in Txs :
       tx[t].pc # "answered" /\ tx'[t].pc = "answered" /\ Op(t) \notin AccountMode =>
         /\ Authorised(t)
         /\ \/ Owners' # Owners
            \/ \E i \in Rows : Pending(i)' /\ ~Pending(i) /\ invite'[i].role = "owner"
            => MyRole(t) = "owner"]_vars

\* A credential never outlives its membership, nor carries more than the member's
\* role permits now (0005, issuance and rotation against removal and demotion).
CredentialsFollowTheRole ==
  \A r \in Rows : credential[r].state = "live" =>
    LET m == credential[r].member IN Active(m) /\ credential[r].scopes \subseteq RoleScopes[member[m].role]

\* Nobody who is a member is still invited, and nobody is invited twice: no
\* invitation is left over with which a removed member walks back in (0005,
\* create_invitation against accept_invitation).
NoInvitationIsLeftOver ==
  \A i \in Rows : Pending(i) =>
    /\ MemberRows(invite[i].email) = {}
    /\ \A j \in Rows : Pending(j) /\ invite[j].email = invite[i].email => i = j

\* The entries of a kind, and what the last of them before an entry says.
Entries(log, what) == { i \in 1 .. Len(log) : log[i].what = what }
Said(log, what, before, otherwise) ==
  LET I == { i \in Entries(log, what) : i < before } IN
  IF I = {} THEN otherwise ELSE log[CHOOSE i \in I : \A j \in I : j <= i].says

\* The last entry of its kind in the audit trail tells the workspace's name, and of what
\* is stated for it all but the text of the note, which the trail is never told.  A keyed
\* rename is recorded once, and the consent once, by the account the row names: two
\* who consent at the same time leave one entry and one name (0006,
\* state_workspace_preferences, acknowledge_workspace_consent; 0005, rename_workspace).
TheTrailTellsTheWorkspace ==
  LET now == Len(trail) + 1
      consents == Entries(trail, "acknowledged") IN
  /\ workspace.name = Said(trail, "renamed", now, Unstated.name)
  /\ Details[workspace.stated] = Said(trail, "stated", now, Details[Unstated.stated])
  /\ \A i, j \in Entries(trail, "renamed") :
       trail[i].key = trail[j].key /\ trail[i].key # None => i = j
  /\ \/ consents = {} /\ workspace.consent = None
     \/ \E i \in consents : consents = {i} /\ workspace.consent = trail[i].by

\* 0005 says of the authority's two lock forms that upgrading "is the one way to
\* deadlock two transactions here, and no call path in this revision does it".
NobodyWaitsInACircle == \A C \in SUBSET Txs : ~Circle(C)
=============================================================================
