-------------------------- MODULE MembershipProofs --------------------------
(***************************************************************************)
(* Proofs about MembershipPlane, for any accounts and any number of        *)
(* transactions.                                                           *)
(***************************************************************************)
EXTENDS MembershipPlane, WellFoundedInduction, TLAPS

-----------------------------------------------------------------------------
(***************************************************************************)
(* What is true of a transaction x running as t when the memberships are m *)
(* and the invitations v.                                                  *)
(***************************************************************************)
ActiveIn(m, r) == r # None /\ m[r].state = "active"
RowsIn(m, a) == { r \in Rows : ActiveIn(m, r) /\ m[r].account = a }
OwnersIn(m) == { r \in Rows : ActiveIn(m, r) /\ m[r].role = "owner" }
AuthorisedIn(m, x) ==
  /\ ActiveIn(m, x.request.as)
  /\ Needs(x.request.op) \subseteq RoleScopes[m[x.request.as].role]

Ended == {"answered", "refused"}

\* Where an operation may be, and what it names.
InPlace(x) ==
  /\ x.pc \notin Ended \cup {"idle"} => x.request.caller \in Accounts /\ x.request.target \in Rows
  /\ x.pc \notin Ended \cup {"idle"} /\ x.request.op = "invite" => x.request.target \in Accounts
  /\ x.pc = "workspace" => x.request.op \in WorkspaceWrites
  /\ x.pc \in {"own", "disclose"} => x.request.op \in WorkspaceReads
  /\ x.pc = "act" => x.request.op \in WorkspaceWrites \cup {"accept", "select"}
  /\ x.pc = "pending" => x.request.op = "invite"
  /\ x.pc = "unbind" => x.request.op = "remove"
  /\ x.pc = "record" => x.request.op \in Preferences
  /\ x.pc = "insert" => x.request.op = "accept"
  /\ x.pc = "commit" => x.request.op \in AccountMode

\* A write holds the workspace, and a reader its own row, from the check of their
\* authority on.
HoldsItsAuthority(m, x) ==
  /\ x.pc \in {"act", "pending", "unbind", "record"} /\ x.request.op \in WorkspaceWrites =>
       WorkspaceLock \in x.locks /\ AuthorisedIn(m, x)
  /\ x.pc = "disclose" => L("member", x.request.as, 2) \in x.locks /\ AuthorisedIn(m, x)

\* What a removal, an invitation and an acceptance have found stays so.
KeepsWhatItFound(m, v, x) ==
  /\ x.pc = "unbind" =>
       /\ L("member", x.request.target, 3) \in x.locks
       /\ ActiveIn(m, x.request.target)
       /\ m[x.request.target].role = "owner" =>
            m[x.request.as].role = "owner" /\ \E r \in OwnersIn(m) : r # x.request.target
  /\ x.pc = "pending" =>
       /\ x.request.role = "owner" => m[x.request.as].role = "owner"
       /\ RowsIn(m, x.request.target) = {}
  /\ x.pc = "insert" =>
       /\ L("invite", x.request.target, 4) \in x.locks
       /\ v[x.request.target].state = "pending"
       /\ v[x.request.target].email = x.request.caller

\* The rows a transaction may insert are not there before it ends.
InsertsOnce(m, v, t, x) == x.pc # "answered" => m[t].state = "absent" /\ v[t].state = "absent"

TxInv(m, v, t, x) ==
  /\ InPlace(x)
  /\ HoldsItsAuthority(m, x)
  /\ KeepsWhatItFound(m, v, x)
  /\ InsertsOnce(m, v, t, x)

Typed ==
  /\ member \in [Rows -> Member] /\ invite \in [Rows -> Invite]
  /\ credential \in [Rows -> Credential] /\ session \in [Accounts -> Rows \cup {None}]
  /\ claims \subseteq Claim /\ workspace \in Workspace /\ trail \in Seq(Event)

IInv ==
  /\ TypeOK
  /\ AnOwnerRemains
  /\ CredentialsFollowTheRole
  /\ NoInvitationIsLeftOver
  /\ \A t \in Txs : TxInv(member, invite, t, tx[t])

\* Locks of x do not clash with those of the transactions other than t.
Compatible(t, x) == \A u \in Txs \ {t} : \A l \in x.locks : ~Blocks(u, l)

-----------------------------------------------------------------------------
LEMMA Names == /\ Accounts \subseteq Rows /\ Txs \subseteq Rows /\ None \notin Rows
               /\ RoleScopes \in [Role -> SUBSET Everything]
BY MembershipAssumption DEF Rows, RoleScopes, Role, Everything

LEMMA IdleType == Idle \in Transaction
<1>1. Unstated \in Workspace
  BY DEF Unstated, Workspace
<1>2. "profile" \in Operation /\ "viewer" \in Role
  BY DEF Operation, AccountMode, Role
<1>3. QED
  BY <1>1, <1>2 DEF Idle, Transaction, Places, Request

\* Locks that fit stay apart from one another, whoever looks.
LEMMA ConflictIsMutual ==
  ASSUME NEW k \in Lock, NEW l \in Lock
  PROVE Conflict(k, l) <=> Conflict(l, k)
BY DEF Conflict, Lock

\* An ended transaction promises nothing.
LEMMA EndedInv ==
  ASSUME IInv, NEW t \in Txs, NEW answer \in Ended, tx[t].pc # "answered",
         NEW m, NEW v, answer = "refused" => m = member /\ v = invite
  PROVE LET x == [Idle EXCEPT !.pc = answer]
        IN  x \in Transaction /\ TxInv(m, v, t, x) /\ Compatible(t, x)
<1> DEFINE x == [Idle EXCEPT !.pc = answer]
<1>1. x \in Transaction /\ x.pc = answer /\ x.locks = {}
  BY IdleType DEF Idle, Transaction, Places, Ended
<1>2. InsertsOnce(m, v, t, x)
  BY <1>1 DEF InsertsOnce, IInv, TxInv, Ended
<1>3. QED
  BY <1>1, <1>2 DEF TxInv, InPlace, HoldsItsAuthority, KeepsWhatItFound, Compatible, Ended

\* The step that starts tx' from tx by replacing t's transaction with x.
LEMMA TransactionStep ==
  ASSUME IInv, NEW t \in Txs, NEW x \in Transaction, tx' = [tx EXCEPT ![t] = x],
         Typed', Compatible(t, x)
  PROVE TypeOK' /\ tx'[t] = x /\ \A u \in Txs \ {t} : tx'[u] = tx[u]
<1>1. tx' \in [Txs -> Transaction] /\ tx'[t] = x /\ \A u \in Txs \ {t} : tx'[u] = tx[u]
  BY DEF IInv, TypeOK
<1>2. ASSUME NEW u \in Txs, NEW w \in Txs, u # w, NEW l \in tx'[u].locks, NEW k \in tx'[w].locks
      PROVE ~Conflict(l, k)
  <2>1. l \in Lock /\ k \in Lock
    BY <1>1, <1>2 DEF Transaction
  <2>2. CASE u = t
    BY <1>1, <1>2, <2>2 DEF Compatible, Blocks
  <2>3. CASE w = t
    BY <1>1, <1>2, <2>1, <2>3, ConflictIsMutual DEF Compatible, Blocks
  <2>4. CASE u # t /\ w # t
    BY <1>1, <1>2, <2>4 DEF IInv, TypeOK, Blocks
  <2>5. QED
    BY <2>2, <2>3, <2>4
<1>3. \A u, w \in Txs : u # w => \A l \in tx'[u].locks : ~Blocks(w, l)'
  BY <1>2 DEF Blocks
<1>4. QED
  BY <1>1, <1>3 DEF Typed, TypeOK

-----------------------------------------------------------------------------
(***************************************************************************)
(* What a step of t leaves to the others.                                  *)
(***************************************************************************)

\* One that holds the workspace, or refers to it, keeps out the other writers; and
\* what the others hold a lock on stays.
LEMMA OthersKeepTheirs ==
  ASSUME IInv, NEW u \in Txs, WorkspaceLock \notin tx[u].locks, NEW m, NEW v,
         \A r \in Rows : ActiveIn(member, r) /\ L("member", r, 2) \in tx[u].locks => m[r] = member[r],
         \A i \in Rows : Pending(i) /\ L("invite", i, 4) \in tx[u].locks =>
                         v[i].state = "pending" /\ v[i].email = invite[i].email,
         member[u].state = "absent" => m[u].state = "absent",
         invite[u].state = "absent" => v[u].state = "absent"
  PROVE TxInv(m, v, u, tx[u])
<1> DEFINE x == tx[u]
<1>1. TxInv(member, invite, u, x) /\ x \in Transaction
  BY DEF IInv, TypeOK
<1>2. InPlace(x) /\ x.request.as \in Rows \cup {None}
  BY <1>1 DEF TxInv, Transaction, Request
<1>3. ~(x.pc \in {"act", "pending", "unbind", "record"} /\ x.request.op \in WorkspaceWrites)
  BY <1>1 DEF TxInv, HoldsItsAuthority
<1>4. x.pc \notin {"pending", "unbind"}
  BY <1>2, <1>3 DEF InPlace, WorkspaceWrites
<1>5. HoldsItsAuthority(m, x)
  BY <1>1, <1>2, <1>3, Names DEF TxInv, HoldsItsAuthority, AuthorisedIn, ActiveIn
<1>6. KeepsWhatItFound(m, v, x)
  <2>1. x.pc = "insert" => x.request.target \in Rows
    BY <1>2 DEF InPlace, Ended
  <2>2. QED
    BY <1>1, <1>4, <2>1 DEF TxInv, KeepsWhatItFound, Pending
<1>7. InsertsOnce(m, v, u, x)
  BY <1>1 DEF TxInv, InsertsOnce
<1>8. QED
  BY <1>2, <1>5, <1>6, <1>7 DEF TxInv

\* Nothing in it depends on whether an invitation has expired.
LEMMA ExpiryIsNothing ==
  ASSUME NEW u \in Txs, NEW x, NEW v, TxInv(member, invite, u, x),
         \A i \in Rows : v[i].state = invite[i].state /\ v[i].email = invite[i].email
  PROVE TxInv(member, v, u, x)
<1>1. x.pc = "insert" => x.request.target \in Rows
  BY DEF TxInv, InPlace, Ended
<1>2. QED
  BY <1>1, Names DEF TxInv, KeepsWhatItFound, InsertsOnce

-----------------------------------------------------------------------------
(***************************************************************************)
(* The shapes of a step.                                                   *)
(***************************************************************************)
LEMMA LocalStep ==
  ASSUME IInv, NEW t \in Txs, NEW x \in Transaction, UNCHANGED tables,
         tx' = [tx EXCEPT ![t] = x], TxInv(member, invite, t, x), Compatible(t, x)
  PROVE IInv'
<1>1. Typed'
  BY DEF IInv, TypeOK, Typed, tables, about
<1>2. TypeOK' /\ tx'[t] = x /\ \A u \in Txs \ {t} : tx'[u] = tx[u]
  BY <1>1, TransactionStep
<1>3. AnOwnerRemains' /\ CredentialsFollowTheRole' /\ NoInvitationIsLeftOver'
  BY DEF IInv, tables, AnOwnerRemains, CredentialsFollowTheRole, NoInvitationIsLeftOver, Owners,
         MemberRows, Active, Pending
<1>4. \A u \in Txs : TxInv(member', invite', u, tx'[u])
  BY <1>2 DEF IInv, tables
<1>5. QED
  BY <1>2, <1>3, <1>4 DEF IInv

LEMMA EndStep ==
  ASSUME IInv, NEW t \in Txs, NEW answer \in Ended, End(t, answer), tx[t].pc # "answered",
         answer = "refused" => UNCHANGED <<member, invite>>,
         Typed', AnOwnerRemains', CredentialsFollowTheRole', NoInvitationIsLeftOver',
         \A u \in Txs \ {t} : TxInv(member', invite', u, tx[u])
  PROVE IInv'
<1> DEFINE x == [Idle EXCEPT !.pc = answer]
<1>1. x \in Transaction /\ TxInv(member', invite', t, x) /\ Compatible(t, x)
  BY EndedInv
<1>2. tx' = [tx EXCEPT ![t] = x]
  BY DEF End
<1> HIDE DEF x
<1>3. TypeOK' /\ tx'[t] = x /\ \A u \in Txs \ {t} : tx'[u] = tx[u]
  BY <1>1, <1>2, TransactionStep
<1>4. \A u \in Txs : TxInv(member', invite', u, tx'[u])
  BY <1>1, <1>3
<1>5. QED
  BY <1>3, <1>4 DEF IInv

\* One that changes neither who is a member nor who is invited.
LEMMA QuietEnd ==
  ASSUME IInv, NEW t \in Txs, NEW answer \in Ended, End(t, answer), tx[t].pc # "answered",
         UNCHANGED <<member, invite>>, Typed', CredentialsFollowTheRole'
  PROVE IInv'
<1>1. AnOwnerRemains' /\ NoInvitationIsLeftOver'
  BY DEF IInv, AnOwnerRemains, NoInvitationIsLeftOver, Owners, MemberRows, Active, Pending
<1>2. \A u \in Txs \ {t} : TxInv(member', invite', u, tx[u])
  BY DEF IInv
<1>3. QED
  BY <1>1, <1>2, EndStep

LEMMA NothingWritten ==
  ASSUME IInv, NEW t \in Txs, NEW answer \in Ended, End(t, answer), tx[t].pc # "answered",
         UNCHANGED tables
  PROVE IInv'
<1>1. Typed' /\ CredentialsFollowTheRole' /\ UNCHANGED <<member, invite>>
  BY DEF IInv, TypeOK, Typed, tables, about, CredentialsFollowTheRole, Active
<1>2. QED
  BY <1>1, QuietEnd

-----------------------------------------------------------------------------
LEMMA InitIInv == Init => IInv
<1> SUFFICES ASSUME Init PROVE IInv
  OBVIOUS
<1>1. PICK in \in SUBSET Accounts, stale \in SUBSET Accounts, roles \in [Accounts -> Role] :
        /\ in \cap stale = {} /\ \E a \in in : roles[a] = "owner"
        /\ member = [r \in Rows |->
             IF r \in Accounts
             THEN [account |-> r, role |-> roles[r], state |-> IF r \in in THEN "active" ELSE "revoked"]
             ELSE [account |-> None, role |-> "viewer", state |-> "absent"]]
        /\ invite = [r \in Rows |->
             IF r \in Accounts \ in
             THEN [email |-> r, role |-> roles[r], expired |-> FALSE, state |-> "pending"]
             ELSE [email |-> None, role |-> "viewer", expired |-> FALSE, state |-> "absent"]]
        /\ credential = [r \in Rows |->
             IF r \in in /\ "credential:issue" \in RoleScopes[roles[r]]
             THEN [member |-> r, scopes |-> Issuable \cap RoleScopes[roles[r]], state |-> "live"]
             ELSE [member |-> None, scopes |-> {}, state |-> "absent"]]
        /\ session = [a \in Accounts |-> IF a \in in \cup stale THEN a ELSE None]
        /\ claims = {} /\ workspace = Unstated /\ trail = <<>>
        /\ tx = [t \in Txs |-> Idle]
  BY Zenon DEF Init
<1>2. /\ claims = {} /\ workspace = Unstated /\ trail = <<>> /\ tx = [t \in Txs |-> Idle]
  BY <1>1
<1>3. Typed
  <2>1. "viewer" \in Role
    BY DEF Role
  <2>2. member \in [Rows -> Member] /\ invite \in [Rows -> Invite]
    BY <1>1, <2>1 DEF Member, Invite
  <2>3. credential \in [Rows -> Credential]
    BY <1>1, Names DEF Credential
  <2>4. session \in [Accounts -> Rows \cup {None}]
    BY <1>1, Names
  <2>5. workspace \in Workspace /\ trail \in Seq(Event) /\ claims \subseteq Claim
    BY <1>2 DEF Unstated, Workspace
  <2>6. QED
    BY <2>2, <2>3, <2>4, <2>5 DEF Typed
<1>4. Idle.pc = "idle" /\ Idle.locks = {}
  BY DEF Idle
<1>5. TypeOK
  <2>1. tx \in [Txs -> Transaction]
    BY <1>2, IdleType
  <2>2. QED
    BY <1>2, <1>3, <1>4, <2>1 DEF Typed, TypeOK
<1>6. AnOwnerRemains
  <2>1. PICK a \in in : roles[a] = "owner"
    BY <1>1
  <2>2. member[a].role = "owner" /\ member[a].state = "active" /\ a \in Rows /\ a # None
    BY <1>1, <2>1, Names
  <2>3. QED
    BY <2>2 DEF AnOwnerRemains, Owners, Active
<1>7. CredentialsFollowTheRole
  BY <1>1, Names DEF CredentialsFollowTheRole, Active
<1>8. NoInvitationIsLeftOver
  BY <1>1, Names DEF NoInvitationIsLeftOver, Pending, MemberRows, Active
<1>9. ASSUME NEW t \in Txs PROVE TxInv(member, invite, t, Idle)
  <2>1. member[t].state = "absent" /\ invite[t].state = "absent"
    BY <1>1, MembershipAssumption DEF Rows
  <2>2. QED
    BY <1>4, <2>1 DEF TxInv, InPlace, HoldsItsAuthority, KeepsWhatItFound, InsertsOnce, Ended
<1>10. QED
  BY <1>2, <1>5, <1>6, <1>7, <1>8, <1>9 DEF IInv

-----------------------------------------------------------------------------
(***************************************************************************)
(* Locks                                                                   *)
(***************************************************************************)
LEMMA Fits ==
  ASSUME IInv, NEW t \in Txs, Granted(t), NEW x, x.locks \subseteq tx[t].locks \cup Wants(t)
  PROVE Compatible(t, x)
BY DEF IInv, TypeOK, Granted, Free, Compatible

\* Who holds the workspace, or is granted a reference to it, is alone in writing to it.
LEMMA Excluded ==
  ASSUME IInv, NEW t \in Txs, NEW u \in Txs \ {t}, NEW k, k \in tx[t].locks \/ Free(t, k)
  PROVE /\ k \in {WorkspaceLock, L("workspace", None, 1)} => WorkspaceLock \notin tx[u].locks
        /\ \A r : k = L("member", r, 3) => L("member", r, 2) \notin tx[u].locks
        /\ \A r : k \in {L("invite", r, 3), L("invite", r, 4)} => L("invite", r, 4) \notin tx[u].locks
<1>1. \A l \in tx[u].locks : ~Conflict(k, l)
  BY DEF IInv, TypeOK, Free, Blocks
<1>2. QED
  BY <1>1 DEF Conflict, L, WorkspaceLock

\* What is asked of it where.
LEMMA Asks ==
  ASSUME IInv, NEW t \in Txs
  PROVE /\ tx \in [Txs -> Transaction] /\ tx[t] \in Transaction /\ tx[t].request \in Request
        /\ TxInv(member, invite, t, tx[t])
        /\ tx[t].pc \notin Ended \cup {"idle"} => Caller(t) \in Accounts /\ Target(t) \in Rows
        /\ tx[t].pc \notin Ended \cup {"idle"} /\ Op(t) = "invite" => Target(t) \in Accounts
        /\ As(t) \in Rows \cup {None}
<1>1. tx \in [Txs -> Transaction] /\ tx[t] \in Transaction /\ TxInv(member, invite, t, tx[t])
  BY DEF IInv, TypeOK
<1>2. tx[t].request \in Request
  BY <1>1 DEF Transaction
<1>3. QED
  BY <1>1, <1>2 DEF TxInv, InPlace, Target, Caller, As, Op, Request

LEMMA WantsWhere ==
  ASSUME IInv, NEW t \in Txs
  PROVE /\ tx[t].pc = "touch" => Wants(t) = { L("session", Caller(t), 3) }
        /\ tx[t].pc = "workspace" => Wants(t) = {WorkspaceLock}
        /\ tx[t].pc = "own" => Wants(t) = { L("member", As(t), 2) }
        /\ GoesOn(t, "remove") \/ GoesOn(t, "change") => Wants(t) = { L("member", Target(t), 3) }
        /\ GoesOn(t, "uninvite") /\ Pending(Target(t)) => Wants(t) = { L("invite", Target(t), 3) }
        /\ (\E op \in Preferences : GoesOn(t, op)) => Wants(t) \subseteq { L("preferences", None, 4) }
        /\ GoesOn(t, "invite") => Wants(t) = {}
        /\ tx[t].pc = "act" /\ Op(t) = "accept" => Wants(t) = { L("invite", Target(t), 4) }
        /\ tx[t].pc = "pending" => Wants(t) = { L("invite", i, 3) : i \in Lapsed(Target(t)) }
        /\ tx[t].pc = "insert" => Wants(t) = { L("workspace", None, 1) }
<1>1. tx[t].pc = "touch" => Wants(t) = { L("session", Caller(t), 3) }
  BY DEF Wants, TouchLocks, GoesOn
<1>2. tx[t].pc = "workspace" => Wants(t) = {WorkspaceLock}
  BY DEF Wants, GoesOn
<1>3. tx[t].pc = "own" => Wants(t) = { L("member", As(t), 2) }
  BY DEF Wants, OwnLock, GoesOn
<1>4. GoesOn(t, "remove") \/ GoesOn(t, "change") => Wants(t) = { L("member", Target(t), 3) }
  BY DEF Wants, GoesOn, Preferences
<1>5. GoesOn(t, "uninvite") /\ Pending(Target(t)) => Wants(t) = { L("invite", Target(t), 3) }
  BY DEF Wants, GoesOn, Preferences
<1>6. (\E op \in Preferences : GoesOn(t, op)) => Wants(t) \subseteq { L("preferences", None, 4) }
  BY DEF Wants, GoesOn, Preferences
<1>7. GoesOn(t, "invite") => Wants(t) = {}
  BY DEF Wants, GoesOn, Preferences
<1>8. tx[t].pc = "act" /\ Op(t) = "accept" => Wants(t) = { L("invite", Target(t), 4) }
  BY DEF Wants, GoesOn, Preferences
<1>9. tx[t].pc = "pending" => Wants(t) = { L("invite", i, 3) : i \in Lapsed(Target(t)) }
  BY DEF Wants, GoesOn
<1>10. tx[t].pc = "insert" => Wants(t) = { L("workspace", None, 1) }
  BY DEF Wants, GoesOn, ReferenceLocks
<1>11. QED
  BY <1>1, <1>2, <1>3, <1>4, <1>5, <1>6, <1>7, <1>8, <1>9, <1>10

LEMMA LockTypes ==
  /\ \A a \in Rows, n \in {2, 3} : L("session", a, n) \in Lock /\ L("member", a, n) \in Lock
  /\ \A i \in Rows, n \in {3, 4} : L("invite", i, n) \in Lock
  /\ L("member", None, 2) \in Lock /\ WorkspaceLock \in Lock /\ L("preferences", None, 4) \in Lock
BY DEF L, Lock, WorkspaceLock

-----------------------------------------------------------------------------
(***************************************************************************)
(* Steps that commit nothing                                               *)
(***************************************************************************)

\* A step that takes what it waited for and goes on.
LEMMA GoStep ==
  ASSUME IInv, NEW t \in Txs, NEW place \in Places, Go(t, place), Granted(t),
         Wants(t) \subseteq Lock, UNCHANGED tables, tx[t].pc # "answered",
         ASSUME NEW x \in Transaction, x.pc = place, x.locks = tx[t].locks \cup Wants(t),
                x.request = tx[t].request
         PROVE  InPlace(x) /\ HoldsItsAuthority(member, x) /\ KeepsWhatItFound(member, invite, x)
  PROVE IInv'
<1> DEFINE x == [tx[t] EXCEPT !.pc = place, !.locks = @ \cup Wants(t)]
<1>1. tx[t] \in Transaction /\ InsertsOnce(member, invite, t, tx[t])
  BY Asks DEF TxInv
<1>2. x \in Transaction /\ x.pc = place /\ x.locks = tx[t].locks \cup Wants(t)
      /\ x.request = tx[t].request
  BY <1>1 DEF Transaction
<1>3. tx' = [tx EXCEPT ![t] = x]
  BY DEF Go
<1> HIDE DEF x
<1>4. InsertsOnce(member, invite, t, x)
  BY <1>1 DEF InsertsOnce
<1>5. TxInv(member, invite, t, x) /\ Compatible(t, x)
  BY <1>2, <1>4, Fits DEF TxInv
<1>6. QED
  BY <1>2, <1>3, <1>5, LocalStep

LEMMA BeginKeepsIInv ==
  ASSUME IInv, NEW t \in Txs, Begin(t)
  PROVE IInv' /\ tx'[t].pc = "bind" /\ \A u \in Txs \ {t} : tx'[u] = tx[u]
<1>1. PICK op \in Ops, a \in Accounts :
        \E target \in Named(op, a),
           role \in IF op \in {"change", "invite"} THEN Asked ELSE {"viewer"},
           scopes \in IF op = "issue" THEN SUBSET Issuable ELSE {{}},
           words \in (IF op \in {"rename", "state"} THEN Words ELSE {}) \cup (IF op = "rename" THEN {} ELSE {None}),
           key \in IF op \in (WorkspaceWrites \ Preferences) \cup {"accept"} THEN Keys \cup {None} ELSE {None} :
          tx' = [tx EXCEPT ![t].pc = "bind", ![t].key = key,
                   ![t].request = [op |-> op, caller |-> a, as |-> None, target |-> target,
                                   role |-> role, scopes |-> scopes, words |-> words]]
  BY Zenon DEF Begin
<1>2. PICK target \in Named(op, a),
           role \in IF op \in {"change", "invite"} THEN Asked ELSE {"viewer"},
           scopes \in IF op = "issue" THEN SUBSET Issuable ELSE {{}},
           words \in (IF op \in {"rename", "state"} THEN Words ELSE {}) \cup (IF op = "rename" THEN {} ELSE {None}),
           key \in IF op \in (WorkspaceWrites \ Preferences) \cup {"accept"} THEN Keys \cup {None} ELSE {None} :
        tx' = [tx EXCEPT ![t].pc = "bind", ![t].key = key,
                 ![t].request = [op |-> op, caller |-> a, as |-> None, target |-> target,
                                 role |-> role, scopes |-> scopes, words |-> words]]
  BY <1>1, Zenon
<1>3. target \in Rows /\ (op = "invite" => target \in Accounts)
  BY Names DEF Named
<1>4. role \in Role /\ scopes \in SUBSET Issuable
  BY MembershipAssumption DEF Role
<1>5. words \in Words \cup {None} /\ key \in Keys \cup {None}
  OBVIOUS
<1> DEFINE q == [op |-> op, caller |-> a, as |-> None, target |-> target,
                 role |-> role, scopes |-> scopes, words |-> words]
           x == [tx[t] EXCEPT !.pc = "bind", !.key = key, !.request = q]
<1>6. /\ q \in Request /\ q.caller \in Accounts /\ q.target \in Rows
      /\ q.op = "invite" => q.target \in Accounts
  BY <1>3, <1>4, <1>5, MembershipAssumption DEF Request
<1>7. /\ tx \in [Txs -> Transaction] /\ tx[t] \in Transaction
      /\ TxInv(member, invite, t, tx[t]) /\ tx[t].pc = "idle"
  BY Asks DEF Begin
<1>8. tx' = [tx EXCEPT ![t] = x]
  <2> HIDE DEF q
  <2>1. tx' = [tx EXCEPT ![t].pc = "bind", ![t].key = key, ![t].request = q]
    BY <1>2 DEF q
  <2>2. QED
    BY <1>7, <2>1 DEF Transaction
<1> HIDE DEF q
<1>9. x \in Transaction /\ x.pc = "bind" /\ x.request = q /\ x.locks = tx[t].locks
  BY <1>5, <1>6, <1>7 DEF Transaction, Places
<1>10. UNCHANGED tables
  BY DEF Begin
<1> HIDE DEF x
<1>11. TxInv(member, invite, t, x)
  BY <1>6, <1>7, <1>9 DEF TxInv, InPlace, HoldsItsAuthority, KeepsWhatItFound, InsertsOnce
<1>12. Compatible(t, x)
  BY <1>9 DEF Compatible, IInv, TypeOK
<1>13. tx'[t].pc = "bind" /\ \A u \in Txs \ {t} : tx'[u] = tx[u]
  BY <1>7, <1>8, <1>9
<1>14. QED
  BY <1>8, <1>9, <1>10, <1>11, <1>12, <1>13, LocalStep

LEMMA BindKeepsIInv ==
  ASSUME IInv, NEW t \in Txs, BindSession(t)
  PROVE IInv'
<1> DEFINE m == session[Caller(t)]
           q == [tx[t].request EXCEPT !.as = m]
<1>1. /\ tx \in [Txs -> Transaction] /\ tx[t] \in Transaction /\ tx[t].request \in Request
      /\ TxInv(member, invite, t, tx[t])
      /\ tx[t].pc = "bind" /\ Caller(t) \in Accounts /\ Target(t) \in Rows
  BY Asks DEF BindSession, Ended
<1>2. m \in Rows \cup {None} /\ UNCHANGED tables
  BY <1>1 DEF IInv, TypeOK, BindSession
<1> HIDE DEF m
<1>3. ASSUME NEW x \in Transaction, x.pc = "touch", x.locks = tx[t].locks,
             x.request \in {tx[t].request, q}, tx' = [tx EXCEPT ![t] = x]
      PROVE  IInv'
  <2>1. /\ x.request.caller \in Accounts /\ x.request.target \in Rows
        /\ x.request.op = "invite" => x.request.target \in Accounts
    BY <1>1, <1>3, Asks DEF Request, Caller, Target, Op, Ended
  <2>2. TxInv(member, invite, t, x)
    BY <1>1, <1>3, <2>1 DEF TxInv, InPlace, HoldsItsAuthority, KeepsWhatItFound, InsertsOnce
  <2>3. Compatible(t, x)
    BY <1>3 DEF Compatible, IInv, TypeOK
  <2>4. QED
    BY <1>2, <1>3, <2>2, <2>3, LocalStep
<1>4. CASE Active(m)
  <2> DEFINE x == [tx[t] EXCEPT !.pc = "touch", !.request = q, !.cached = member[m].role]
  <2>1. m \in Rows
    BY <1>2, <1>4 DEF Active
  <2>2. member[m].role \in Role
    BY <2>1 DEF IInv, TypeOK, Member
  <2>3. q \in Request
    BY <1>1, <2>1 DEF Request
  <2>5. tx' = [tx EXCEPT ![t] = x]
    BY <1>1, <1>4 DEF BindSession, m, Transaction, Request
  <2> HIDE DEF q
  <2>4. x \in Transaction /\ x.pc = "touch" /\ x.locks = tx[t].locks /\ x.request = q
    BY <1>1, <2>2, <2>3 DEF Transaction, Places
  <2> HIDE DEF x
  <2>6. QED
    BY <1>3, <2>4, <2>5
<1>5. CASE ~Active(m) /\ Op(t) \in AccountMode
  <2> DEFINE x == [tx[t] EXCEPT !.pc = "touch", !.drops = (m # None)]
  <2>1. x \in Transaction /\ x.pc = "touch" /\ x.locks = tx[t].locks /\ x.request = tx[t].request
    BY <1>1 DEF Transaction, Places
  <2>2. tx' = [tx EXCEPT ![t] = x]
    BY <1>5 DEF BindSession, m
  <2> HIDE DEF x
  <2>3. QED
    BY <1>3, <2>1, <2>2
<1>6. CASE ~Active(m) /\ Op(t) \notin AccountMode
  <2>1. End(t, "refused")
    BY <1>6 DEF BindSession, m
  <2>2. QED
    BY <1>1, <1>2, <2>1, NothingWritten DEF Ended
<1>7. QED
  BY <1>4, <1>5, <1>6

LEMMA TouchKeepsIInv ==
  ASSUME IInv, NEW t \in Txs, Touch(t)
  PROVE IInv'
<1>1. /\ tx \in [Txs -> Transaction] /\ tx[t] \in Transaction /\ TxInv(member, invite, t, tx[t])
      /\ tx[t].pc = "touch" /\ Caller(t) \in Accounts /\ Target(t) \in Rows
  BY Asks DEF Touch, Ended
<1>2. Wants(t) = { L("session", Caller(t), 3) } /\ Granted(t) /\ UNCHANGED tables
  BY <1>1, WantsWhere DEF Touch, Refuse
<1>3. Wants(t) \subseteq Lock
  BY <1>1, <1>2, LockTypes, Names
<1>4. CASE Op(t) \in WorkspaceWrites /\ ~(Needs(Op(t)) \subseteq RoleScopes[tx[t].cached])
  <2>1. End(t, "refused")
    BY <1>4, Zenon DEF Touch, Refuse
  <2>2. QED
    BY <1>1, <1>2, <2>1, NothingWritten DEF Ended
<1>5. CASE ~(Op(t) \in WorkspaceWrites /\ ~(Needs(Op(t)) \subseteq RoleScopes[tx[t].cached]))
  <2> DEFINE late == Op(t) = "accept" /\ invite[Target(t)].expired
             place == Bind(Op(t))
             x == [tx[t] EXCEPT !.locks = @ \cup Wants(t), !.late = late, !.pc = place]
  <2>1. tx' = [tx EXCEPT ![t].locks = @ \cup Wants(t), ![t].late = late, ![t].pc = place]
    BY <1>5 DEF Touch
  <2>2. late \in BOOLEAN
    OBVIOUS
  <2>3. Op(t) \in Operation
    BY <1>1 DEF Op, Transaction, Request
  <2>4. \/ Op(t) \in WorkspaceWrites /\ place = "workspace"
        \/ Op(t) \in WorkspaceReads /\ place = "own"
        \/ Op(t) \in {"accept", "select"} /\ place = "act"
        \/ Op(t) \in AccountMode /\ place = "commit"
    BY <2>3 DEF Bind, Operation, AccountMode, WorkspaceReads, WorkspaceWrites, Preferences
  <2> HIDE DEF late, place
  <2>5. tx' = [tx EXCEPT ![t] = x]
    BY <1>1, <2>1 DEF Transaction
  <2>6. /\ x \in Transaction /\ x.pc = place /\ x.request = tx[t].request
        /\ x.locks = tx[t].locks \cup Wants(t)
    BY <1>1, <1>3, <2>2, <2>4 DEF Transaction, Places
  <2> HIDE DEF x
  <2>7. TxInv(member, invite, t, x)
    <3>1. InPlace(x)
      BY <1>1, <2>4, <2>6, Asks DEF InPlace, Ended, Op, Caller, Target
    <3>2. x.pc = "act" => x.request.op \notin WorkspaceWrites
      BY <2>4, <2>6 DEF Op, WorkspaceWrites, WorkspaceReads, Preferences
    <3>3. QED
      BY <1>1, <2>4, <2>6, <3>1, <3>2 DEF TxInv, HoldsItsAuthority, KeepsWhatItFound, InsertsOnce
  <2>8. Compatible(t, x)
    BY <1>2, <2>6, Fits
  <2>9. QED
    BY <1>2, <2>5, <2>6, <2>7, <2>8, LocalStep
<1>6. QED
  BY <1>4, <1>5

LEMMA LockWorkspaceKeepsIInv ==
  ASSUME IInv, NEW t \in Txs, LockWorkspace(t)
  PROVE IInv'
<1>1. /\ tx[t] \in Transaction /\ TxInv(member, invite, t, tx[t]) /\ tx[t].pc = "workspace"
      /\ Caller(t) \in Accounts /\ Target(t) \in Rows
  BY Asks DEF LockWorkspace, Ended
<1>2. Wants(t) = {WorkspaceLock} /\ Granted(t) /\ UNCHANGED tables
  BY <1>1, WantsWhere DEF LockWorkspace, Refuse
<1>3. CASE Authorised(t)
  <2>1. Go(t, "act")
    BY <1>3 DEF LockWorkspace
  <2>2. ASSUME NEW x \in Transaction, x.pc = "act", x.locks = tx[t].locks \cup Wants(t),
               x.request = tx[t].request
        PROVE  InPlace(x) /\ HoldsItsAuthority(member, x) /\ KeepsWhatItFound(member, invite, x)
    <3>1. AuthorisedIn(member, x)
      BY <1>3, <2>2 DEF Authorised, AuthorisedIn, Active, ActiveIn, As, MyRole, Op
    <3>2. QED
      BY <1>1, <1>2, <2>2, <3>1
         DEF TxInv, InPlace, HoldsItsAuthority, KeepsWhatItFound, Ended, Caller, Target
  <2>3. Wants(t) \subseteq Lock /\ "act" \in Places
    BY <1>2, LockTypes DEF Places
  <2>4. QED
    BY <1>1, <1>2, <2>1, <2>2, <2>3, GoStep
<1>4. CASE ~Authorised(t)
  <2>1. End(t, "refused")
    BY <1>4 DEF LockWorkspace, Refuse
  <2>2. QED
    BY <1>1, <1>2, <2>1, NothingWritten DEF Ended
<1>5. QED
  BY <1>3, <1>4

LEMMA ShareOwnRowKeepsIInv ==
  ASSUME IInv, NEW t \in Txs, ShareOwnRow(t)
  PROVE IInv'
<1>1. /\ tx[t] \in Transaction /\ TxInv(member, invite, t, tx[t]) /\ tx[t].pc = "own"
      /\ Caller(t) \in Accounts /\ Target(t) \in Rows /\ As(t) \in Rows \cup {None}
  BY Asks DEF ShareOwnRow, Ended
<1>2. Wants(t) = { L("member", As(t), 2) } /\ Granted(t) /\ UNCHANGED tables
  BY <1>1, WantsWhere DEF ShareOwnRow, Refuse
<1>3. CASE Authorised(t)
  <2>1. Go(t, "disclose")
    BY <1>3 DEF ShareOwnRow
  <2>2. ASSUME NEW x \in Transaction, x.pc = "disclose", x.locks = tx[t].locks \cup Wants(t),
               x.request = tx[t].request
        PROVE  InPlace(x) /\ HoldsItsAuthority(member, x) /\ KeepsWhatItFound(member, invite, x)
    <3>1. AuthorisedIn(member, x)
      BY <1>3, <2>2 DEF Authorised, AuthorisedIn, Active, ActiveIn, As, MyRole, Op
    <3>2. L("member", x.request.as, 2) \in x.locks
      BY <1>2, <2>2 DEF As
    <3>3. QED
      BY <1>1, <2>2, <3>1, <3>2
         DEF TxInv, InPlace, HoldsItsAuthority, KeepsWhatItFound, Ended, Caller, Target
  <2>3. Wants(t) \subseteq Lock /\ "disclose" \in Places
    BY <1>1, <1>2, LockTypes DEF Places
  <2>4. QED
    BY <1>1, <1>2, <2>1, <2>2, <2>3, GoStep
<1>4. CASE ~Authorised(t)
  <2>1. End(t, "refused")
    BY <1>4 DEF ShareOwnRow, Refuse
  <2>2. QED
    BY <1>1, <1>2, <2>1, NothingWritten DEF Ended
<1>5. QED
  BY <1>3, <1>4

\* A write that goes on is authorised, holds the workspace, and was found fit.
LEMMA Unjudged ==
  ASSUME IInv, NEW t \in Txs, NEW op \in WorkspaceWrites, GoesOn(t, op)
  PROVE /\ tx[t].pc = "act" /\ Op(t) = op /\ ~Barred(t) /\ ~Unfit(t)
        /\ WorkspaceLock \in tx[t].locks
        /\ Active(As(t)) /\ Needs(op) \subseteq RoleScopes[MyRole(t)]
        /\ AuthorisedIn(member, tx[t])
        /\ Caller(t) \in Accounts /\ Target(t) \in Rows /\ As(t) \in Rows
        /\ \A u \in Txs \ {t} : WorkspaceLock \notin tx[u].locks
<1>1. tx[t].pc = "act" /\ Op(t) = op /\ ~Barred(t) /\ ~Unfit(t)
  BY DEF GoesOn, Judged
<1>2. TxInv(member, invite, t, tx[t]) /\ Caller(t) \in Accounts /\ Target(t) \in Rows
      /\ As(t) \in Rows \cup {None}
  BY <1>1, Asks DEF Ended
<1>3. WorkspaceLock \in tx[t].locks /\ AuthorisedIn(member, tx[t])
  BY <1>1, <1>2 DEF TxInv, HoldsItsAuthority, Op
<1>4. Active(As(t)) /\ Needs(op) \subseteq RoleScopes[MyRole(t)]
  BY <1>1, <1>3 DEF AuthorisedIn, Active, ActiveIn, As, MyRole, Op
<1>5. \A u \in Txs \ {t} : WorkspaceLock \notin tx[u].locks
  BY <1>3, Excluded
<1>6. QED
  BY <1>1, <1>2, <1>3, <1>4, <1>5 DEF Active

LEMMA RemoveKeepsIInv ==
  ASSUME IInv, NEW t \in Txs, Remove(t)
  PROVE IInv'
<1>1. /\ tx \in [Txs -> Transaction] /\ tx[t] \in Transaction /\ TxInv(member, invite, t, tx[t])
  BY Asks
<1>2. /\ tx[t].pc = "act" /\ Op(t) = "remove" /\ ~Unfit(t) /\ WorkspaceLock \in tx[t].locks
      /\ AuthorisedIn(member, tx[t]) /\ Caller(t) \in Accounts /\ Target(t) \in Rows
  BY Unjudged DEF Remove, WorkspaceWrites
<1>3. Wants(t) = { L("member", Target(t), 3) } /\ Granted(t) /\ UNCHANGED tables
  BY WantsWhere DEF Remove
<1>4. Wants(t) \subseteq Lock
  BY <1>2, <1>3, LockTypes
<1> DEFINE todo == { a \in Accounts : session[a] = Target(t) }
           x == [tx[t] EXCEPT !.pc = "unbind", !.locks = @ \cup Wants(t), !.todo = todo]
<1>5. tx' = [tx EXCEPT ![t].pc = "unbind", ![t].locks = @ \cup Wants(t), ![t].todo = todo]
  BY DEF Remove
<1>6. todo \in SUBSET Accounts
  OBVIOUS
<1> HIDE DEF todo
<1>7. tx' = [tx EXCEPT ![t] = x]
  BY <1>1, <1>5 DEF Transaction
<1>8. /\ x \in Transaction /\ x.pc = "unbind" /\ x.request = tx[t].request
      /\ x.locks = tx[t].locks \cup Wants(t)
  BY <1>1, <1>4, <1>6 DEF Transaction, Places
<1> HIDE DEF x
<1>9. TxInv(member, invite, t, x)
  <2>1. x.request.op = "remove" /\ x.request.target = Target(t)
    BY <1>2, <1>8 DEF Op, Target
  <2>2. InPlace(x)
    BY <1>2, <1>8, <2>1 DEF InPlace, Ended, Caller, Target
  <2>3. HoldsItsAuthority(member, x)
    BY <1>2, <1>8 DEF HoldsItsAuthority, AuthorisedIn
  <2>4. /\ Active(Target(t))
        /\ member[Target(t)].role = "owner" => MyRole(t) = "owner" /\ ~NoOwnerBut(Target(t))
    BY <1>2, <2>1 DEF Unfit, Op
  <2>5. KeepsWhatItFound(member, invite, x)
    BY <1>3, <1>8, <2>1, <2>4
       DEF KeepsWhatItFound, Active, ActiveIn, OwnersIn, Owners, NoOwnerBut, MyRole, As
  <2>6. QED
    BY <1>1, <1>2, <1>8, <2>2, <2>3, <2>5 DEF TxInv, InsertsOnce
<1>10. QED
  BY <1>3, <1>7, <1>8, <1>9, LocalStep, Fits

LEMMA UnbindRowKeepsIInv ==
  ASSUME IInv, NEW t \in Txs, UnbindRow(t)
  PROVE IInv'
<1>1. /\ tx \in [Txs -> Transaction] /\ tx[t] \in Transaction /\ TxInv(member, invite, t, tx[t])
      /\ tx[t].pc = "unbind"
  BY Asks DEF UnbindRow
<1>2. PICK a \in tx[t].todo :
        LET hit == IF session[a] = Target(t) THEN {a} ELSE {} IN
        /\ Free(t, L("session", a, 3))
        /\ tx' = [tx EXCEPT ![t].todo = @ \ {a}, ![t].unbound = @ \cup hit,
                            ![t].locks = @ \cup { L("session", b, 3) : b \in hit }]
  BY DEF UnbindRow
<1> DEFINE hit == IF session[a] = Target(t) THEN {a} ELSE {}
           more == { L("session", b, 3) : b \in hit }
           x == [tx[t] EXCEPT !.todo = @ \ {a}, !.unbound = @ \cup hit, !.locks = @ \cup more]
<1>3. a \in Accounts
  BY <1>1 DEF Transaction
<1>4. hit \subseteq Accounts /\ more \subseteq { L("session", a, 3) } /\ more \subseteq Lock
  BY <1>3, Names, LockTypes
<1>5. tx' = [tx EXCEPT ![t].todo = @ \ {a}, ![t].unbound = @ \cup hit, ![t].locks = @ \cup more]
  BY <1>2
<1> HIDE DEF hit, more
<1>6. tx' = [tx EXCEPT ![t] = x]
  BY <1>1, <1>5 DEF Transaction
<1>7. /\ x \in Transaction /\ x.pc = tx[t].pc /\ x.request = tx[t].request
      /\ x.locks = tx[t].locks \cup more
  BY <1>1, <1>4 DEF Transaction
<1> HIDE DEF x
<1>8. TxInv(member, invite, t, x)
  BY <1>1, <1>7 DEF TxInv, InPlace, HoldsItsAuthority, AuthorisedIn, KeepsWhatItFound, InsertsOnce
<1>9. Compatible(t, x)
  BY <1>2, <1>4, <1>7 DEF Compatible, Free, IInv, TypeOK
<1>10. UNCHANGED tables
  BY DEF UnbindRow
<1>11. QED
  BY <1>6, <1>7, <1>8, <1>9, <1>10, LocalStep

LEMMA CheckInviteeKeepsIInv ==
  ASSUME IInv, NEW t \in Txs, CheckInvitee(t)
  PROVE IInv'
<1>1. /\ tx[t].pc = "act" /\ Op(t) = "invite" /\ ~Barred(t) /\ ~Unfit(t)
      /\ WorkspaceLock \in tx[t].locks /\ AuthorisedIn(member, tx[t])
      /\ Caller(t) \in Accounts /\ Target(t) \in Rows
  BY Unjudged DEF CheckInvitee, WorkspaceWrites
<1>2. Wants(t) = {} /\ Go(t, "pending") /\ UNCHANGED tables
  BY WantsWhere DEF CheckInvitee
<1>3. ASSUME NEW x \in Transaction, x.pc = "pending", x.locks = tx[t].locks \cup Wants(t),
             x.request = tx[t].request
      PROVE  InPlace(x) /\ HoldsItsAuthority(member, x) /\ KeepsWhatItFound(member, invite, x)
  <2>1. InPlace(x) /\ HoldsItsAuthority(member, x)
    BY <1>1, <1>3, Asks DEF InPlace, HoldsItsAuthority, AuthorisedIn, Ended, Caller, Target, Op
  <2>2. MemberRows(Target(t)) = {} /\ (tx[t].request.role = "owner" => MyRole(t) = "owner")
    BY <1>1 DEF Barred, Unfit
  <2>3. QED
    BY <1>3, <2>1, <2>2
       DEF KeepsWhatItFound, MemberRows, RowsIn, Active, ActiveIn, MyRole, As, Target
<1>4. Granted(t) /\ Wants(t) \subseteq Lock /\ "pending" \in Places
  BY <1>2 DEF Granted, Places
<1>5. QED
  BY <1>1, <1>2, <1>3, <1>4, GoStep

LEMMA ReadPreferencesKeepsIInv ==
  ASSUME IInv, NEW t \in Txs, ReadPreferences(t)
  PROVE IInv'
<1>1. PICK op \in Preferences : GoesOn(t, op)
  BY DEF ReadPreferences
<1>2. /\ tx \in [Txs -> Transaction] /\ tx[t] \in Transaction /\ TxInv(member, invite, t, tx[t])
      /\ tx[t].pc = "act" /\ Op(t) = op /\ WorkspaceLock \in tx[t].locks
      /\ AuthorisedIn(member, tx[t]) /\ Caller(t) \in Accounts /\ Target(t) \in Rows
  BY <1>1, Asks, Unjudged DEF WorkspaceWrites
<1>3. /\ Wants(t) \subseteq { L("preferences", None, 4) } /\ Wants(t) \subseteq Lock
      /\ Granted(t) /\ UNCHANGED tables
  BY <1>1, WantsWhere, LockTypes DEF ReadPreferences
<1> DEFINE x == [tx[t] EXCEPT !.pc = "record", !.locks = @ \cup Wants(t), !.seen = workspace]
<1>4. tx' = [tx EXCEPT ![t] = x]
  BY <1>2 DEF ReadPreferences, Transaction
<1>5. workspace \in Workspace
  BY DEF IInv, TypeOK
<1>6. /\ x \in Transaction /\ x.pc = "record" /\ x.request = tx[t].request
      /\ x.locks = tx[t].locks \cup Wants(t)
  BY <1>2, <1>3, <1>5 DEF Transaction, Places
<1> HIDE DEF x
<1>7. TxInv(member, invite, t, x)
  <2>1. x.request.op \in Preferences /\ x.request.op \in WorkspaceWrites
    BY <1>1, <1>2, <1>6 DEF Op, WorkspaceWrites
  <2>2. InPlace(x)
    BY <1>2, <1>6, <2>1 DEF InPlace, Ended, Caller, Target, Preferences
  <2>3. HoldsItsAuthority(member, x)
    BY <1>2, <1>6 DEF HoldsItsAuthority, AuthorisedIn
  <2>4. QED
    BY <1>2, <1>6, <2>2, <2>3 DEF TxInv, KeepsWhatItFound, InsertsOnce
<1>8. QED
  BY <1>3, <1>4, <1>6, <1>7, LocalStep, Fits

LEMMA SelectWorkspaceKeepsIInv ==
  ASSUME IInv, NEW t \in Txs, SelectWorkspace(t)
  PROVE IInv'
<1>1. /\ tx \in [Txs -> Transaction] /\ tx[t] \in Transaction /\ tx[t].request \in Request
      /\ TxInv(member, invite, t, tx[t])
      /\ tx[t].pc = "act" /\ Op(t) = "select" /\ Caller(t) \in Accounts /\ Target(t) \in Rows
  BY Asks DEF SelectWorkspace, Ended
<1>2. CASE MemberRows(Caller(t)) = {}
  <2>1. End(t, "refused") /\ UNCHANGED tables
    BY <1>2 DEF SelectWorkspace, Refuse
  <2>2. QED
    BY <1>1, <2>1, NothingWritten DEF Ended
<1>3. CASE MemberRows(Caller(t)) # {}
  <2>1. PICK m \in MemberRows(Caller(t)) :
          tx' = [tx EXCEPT ![t].pc = "commit", ![t].request.as = m] /\ UNCHANGED tables
    BY <1>3 DEF SelectWorkspace
  <2> DEFINE q == [tx[t].request EXCEPT !.as = m]
             x == [tx[t] EXCEPT !.pc = "commit", !.request = q]
  <2>2. q \in Request /\ q.op = "select" /\ q.caller = Caller(t) /\ q.target = Target(t)
    BY <1>1 DEF MemberRows, Request, Op, Caller, Target
  <2>3. tx' = [tx EXCEPT ![t] = x]
    BY <1>1, <2>1 DEF Transaction, Request
  <2> HIDE DEF q
  <2>4. x \in Transaction /\ x.pc = "commit" /\ x.request = q /\ x.locks = tx[t].locks
    BY <1>1, <2>2 DEF Transaction, Places
  <2> HIDE DEF x
  <2>5. TxInv(member, invite, t, x)
    BY <1>1, <2>2, <2>4 DEF TxInv, InPlace, HoldsItsAuthority, KeepsWhatItFound, InsertsOnce, AccountMode
  <2>6. Compatible(t, x)
    BY <2>4 DEF Compatible, IInv, TypeOK
  <2>7. QED
    BY <2>1, <2>3, <2>4, <2>5, <2>6, LocalStep
<1>4. QED
  BY <1>2, <1>3

-----------------------------------------------------------------------------
(***************************************************************************)
(* Steps that commit                                                       *)
(***************************************************************************)
LEMMA FingerprintType == \A q \in Request : Fingerprint(q) \in Request
BY DEF Fingerprint, Request

LEMMA CommitClaims ==
  ASSUME IInv, NEW t \in Txs, Commit(t)
  PROVE End(t, "answered") /\ claims' \subseteq Claim
<1>1. claims \subseteq Claim /\ tx[t].key \in Keys \cup {None} /\ Fingerprint(tx[t].request) \in Request
  BY Asks, FingerprintType DEF IInv, TypeOK, Transaction
<1>2. QED
  BY <1>1 DEF Commit, Claim

LEMMA CommitRemovalKeepsIInv ==
  ASSUME IInv, NEW t \in Txs, CommitRemoval(t)
  PROVE IInv'
<1> DEFINE r == Target(t)
<1>1. /\ TxInv(member, invite, t, tx[t]) /\ tx[t].pc = "unbind" /\ Op(t) = "remove"
      /\ Caller(t) \in Accounts /\ r \in Rows
  BY Asks DEF CommitRemoval, Ended, TxInv, InPlace, Op
<1>2. /\ WorkspaceLock \in tx[t].locks /\ L("member", r, 3) \in tx[t].locks /\ Active(r)
      /\ member[r].role = "owner" => \E s \in Owners : s # r
  BY <1>1 DEF TxInv, HoldsItsAuthority, KeepsWhatItFound, WorkspaceWrites, Op, Target,
     Active, ActiveIn, Owners, OwnersIn
<1>3. /\ member' = [member EXCEPT ![r].state = "revoked"]
      /\ credential' = Revoked({r})
      /\ session' = [a \in Accounts |-> IF a \in tx[t].unbound THEN None ELSE session[a]]
      /\ End(t, "answered") /\ claims' \subseteq Claim /\ UNCHANGED <<invite, about>>
  BY CommitClaims DEF CommitRemoval
<1>4. /\ member' \in [Rows -> Member] /\ member'[r].state = "revoked" /\ member'[r].role = member[r].role
      /\ member'[r].account = member[r].account /\ \A s \in Rows \ {r} : member'[s] = member[s]
  BY <1>1, <1>3 DEF IInv, TypeOK, Member
<1>5. credential' \in [Rows -> Credential]
  BY ZenonT(40), <1>3 DEF IInv, TypeOK, Credential, Revoked
<1> HIDE DEF r
<1>6. Typed'
  BY <1>3, <1>4, <1>5 DEF IInv, TypeOK, Typed, about
<1>7. AnOwnerRemains'
  <2>1. PICK s \in Owners : s # r
    BY <1>2 DEF IInv, AnOwnerRemains, Owners
  <2>2. QED
    BY <1>4, <2>1 DEF AnOwnerRemains, Owners, Active
<1>8. CredentialsFollowTheRole'
  BY <1>3, <1>4 DEF IInv, TypeOK, Credential, CredentialsFollowTheRole, Revoked, Active
<1>9. NoInvitationIsLeftOver'
  BY <1>3, <1>4 DEF IInv, TypeOK, NoInvitationIsLeftOver, Pending, MemberRows, Active
<1>10. ASSUME NEW u \in Txs \ {t} PROVE TxInv(member', invite', u, tx[u])
  <2>1. WorkspaceLock \notin tx[u].locks /\ L("member", r, 2) \notin tx[u].locks
    BY <1>2, Excluded
  <2>2. \A s \in Rows : ActiveIn(member, s) /\ L("member", s, 2) \in tx[u].locks => member'[s] = member[s]
    BY <1>4, <2>1
  <2>3. member[u].state = "absent" => member'[u].state = "absent"
    BY <1>2, <1>4, Names DEF Active
  <2>4. /\ u \in Txs /\ (invite[u].state = "absent" => invite'[u].state = "absent")
        /\ \A i \in Rows : Pending(i) /\ L("invite", i, 4) \in tx[u].locks =>
                          invite'[i].state = "pending" /\ invite'[i].email = invite[i].email
    BY <1>3 DEF Pending
  <2>5. QED
    BY <2>1, <2>2, <2>3, <2>4, OthersKeepTheirs
<1>11. QED
  BY <1>1, <1>3, <1>6, <1>7, <1>8, <1>9, <1>10, EndStep DEF Ended

LEMMA ChangeRoleKeepsIInv ==
  ASSUME IInv, NEW t \in Txs, ChangeRole(t)
  PROVE IInv'
<1> DEFINE r == Target(t)
           role == tx[t].request.role
<1>1. /\ tx[t].pc = "act" /\ Op(t) = "change" /\ ~Unfit(t) /\ r \in Rows
      /\ WorkspaceLock \in tx[t].locks
  BY Unjudged DEF ChangeRole, WorkspaceWrites
<1>2. Active(r) /\ (member[r].role = "owner" /\ role # "owner" => \E s \in Owners : s # r)
  BY <1>1 DEF Unfit, NoOwnerBut
<1>3. role \in Role
  BY Asks DEF Request
<1>4. Wants(t) = { L("member", r, 3) } /\ Granted(t)
  BY WantsWhere DEF ChangeRole
<1>5. /\ member' = [member EXCEPT ![r].role = role]
      /\ credential' = Revoked(EndedByRole(r, role))
      /\ End(t, "answered") /\ claims' \subseteq Claim /\ UNCHANGED <<invite, session, about>>
  BY CommitClaims DEF ChangeRole
<1> HIDE DEF r, role
<1>6. /\ member' \in [Rows -> Member] /\ member'[r].role = role /\ member'[r].state = member[r].state
      /\ member'[r].account = member[r].account /\ \A s \in Rows \ {r} : member'[s] = member[s]
  BY <1>1, <1>3, <1>5 DEF IInv, TypeOK, Member
<1>7. credential' \in [Rows -> Credential]
  BY ZenonT(40), <1>5 DEF IInv, TypeOK, Credential, Revoked
<1>8. Typed'
  BY <1>5, <1>6, <1>7 DEF IInv, TypeOK, Typed, about
<1>9. AnOwnerRemains'
  <2>1. CASE role = "owner"
    BY <1>1, <1>2, <1>6, <2>1 DEF AnOwnerRemains, Owners, Active
  <2>2. CASE role # "owner"
    <3>1. PICK s \in Owners : s # r
      BY <1>2, <2>2 DEF IInv, AnOwnerRemains, Owners
    <3>2. QED
      BY <1>6, <3>1 DEF AnOwnerRemains, Owners, Active
  <2>3. QED
    BY <2>1, <2>2
<1>10. CredentialsFollowTheRole'
  <2>1. SUFFICES ASSUME NEW c \in Rows, credential'[c].state = "live"
                 PROVE  Active(credential[c].member)'
                        /\ credential'[c].scopes \subseteq RoleScopes[member'[credential'[c].member].role]
                        /\ credential'[c].member = credential[c].member
    BY DEF CredentialsFollowTheRole, Active
  <2> DEFINE m == credential[c].member
  <2>2. credential'[c] = credential[c] /\ m \notin EndedByRole(r, role)
    BY <1>5, <2>1 DEF Revoked, IInv, TypeOK, Credential
  <2>3. Active(m) /\ credential[c].scopes \subseteq RoleScopes[member[m].role] /\ m \in Rows
    BY <2>1, <2>2 DEF IInv, CredentialsFollowTheRole, Active, TypeOK, Credential
  <2>4. CASE m = r
    BY <1>6, <2>2, <2>3, <2>4 DEF EndedByRole, Active
  <2>5. CASE m # r
    BY <1>6, <2>2, <2>3, <2>5 DEF Active
  <2>6. QED
    BY <2>4, <2>5
<1>11. NoInvitationIsLeftOver'
  BY <1>5, <1>6 DEF IInv, TypeOK, NoInvitationIsLeftOver, Pending, MemberRows, Active
<1>12. ASSUME NEW u \in Txs \ {t} PROVE TxInv(member', invite', u, tx[u])
  <2>1. WorkspaceLock \notin tx[u].locks /\ L("member", r, 2) \notin tx[u].locks
    BY <1>1, <1>4, Excluded DEF Granted
  <2>2. \A s \in Rows : ActiveIn(member, s) /\ L("member", s, 2) \in tx[u].locks => member'[s] = member[s]
    BY <1>6, <2>1
  <2>3. member[u].state = "absent" => member'[u].state = "absent"
    BY <1>6, Names
  <2>4. /\ u \in Txs /\ (invite[u].state = "absent" => invite'[u].state = "absent")
        /\ \A i \in Rows : Pending(i) /\ L("invite", i, 4) \in tx[u].locks =>
                          invite'[i].state = "pending" /\ invite'[i].email = invite[i].email
    BY <1>5 DEF Pending
  <2>5. QED
    BY <2>1, <2>2, <2>3, <2>4, OthersKeepTheirs
<1>13. QED
  BY <1>1, <1>5, <1>8, <1>9, <1>10, <1>11, <1>12, EndStep DEF Ended

LEMMA InsertInvitationKeepsIInv ==
  ASSUME IInv, NEW t \in Txs, InsertInvitation(t)
  PROVE IInv'
<1> DEFINE a == Target(t)
<1>1. /\ TxInv(member, invite, t, tx[t]) /\ tx[t].pc = "pending" /\ Op(t) = "invite" /\ a \in Accounts
      /\ tx[t].request.role \in Role
  BY Asks DEF InsertInvitation, Ended, TxInv, InPlace, Op, Request
<1>2. WorkspaceLock \in tx[t].locks /\ MemberRows(a) = {} /\ invite[t].state = "absent"
  BY <1>1 DEF TxInv, HoldsItsAuthority, KeepsWhatItFound, InsertsOnce, WorkspaceWrites, Op, Target,
     MemberRows, RowsIn, Active, ActiveIn
<1>3. \A i \in Lapsed(a) : Free(t, L("invite", i, 3))
  BY <1>1, WantsWhere DEF InsertInvitation, Granted
<1>4. CASE \E i \in Rows \ Lapsed(a) : Pending(i) /\ invite[i].email = a
  <2>1. End(t, "refused") /\ UNCHANGED tables
    BY <1>4 DEF InsertInvitation, Refuse
  <2>2. QED
    BY <1>1, <2>1, NothingWritten DEF Ended
<1>5. CASE ~ \E i \in Rows \ Lapsed(a) : Pending(i) /\ invite[i].email = a
  <2>1. /\ invite' = [i \in Rows |->
              IF i = t THEN [email |-> a, role |-> tx[t].request.role, expired |-> FALSE,
                             state |-> "pending"]
              ELSE IF i \in Lapsed(a) THEN [invite[i] EXCEPT !.state = "revoked"]
              ELSE invite[i]]
        /\ End(t, "answered") /\ claims' \subseteq Claim
        /\ UNCHANGED <<member, credential, session, about>>
    BY <1>5, CommitClaims DEF InsertInvitation
  <2> HIDE DEF a
  <2>2. /\ invite' \in [Rows -> Invite]
        /\ invite'[t].email = a /\ invite'[t].state = "pending"
        /\ \A i \in Rows \ {t} : /\ invite'[i].email = invite[i].email
                                 /\ i \in Lapsed(a) => invite'[i].state = "revoked"
                                 /\ i \notin Lapsed(a) => invite'[i].state = invite[i].state
    BY ZenonT(40), <1>1, <2>1, Names DEF IInv, TypeOK, Invite
  <2>3. Typed'
    BY <2>1, <2>2 DEF IInv, TypeOK, Typed, about
  <2>4. AnOwnerRemains' /\ CredentialsFollowTheRole'
    BY <2>1 DEF IInv, AnOwnerRemains, CredentialsFollowTheRole, Owners, Active
  <2>5. NoInvitationIsLeftOver'
    <3>1. \A i \in Rows \ {t} : invite'[i].state = "pending" => Pending(i) /\ invite[i].email # a
      BY <1>5, <2>2 DEF Pending
    <3>2. \A b : MemberRows(b)' = MemberRows(b)
      BY <2>1 DEF MemberRows, Active
    <3>3. ASSUME NEW i \in Rows, NEW j \in Rows, invite'[i].state = "pending",
                 invite'[j].state = "pending", invite'[i].email = invite'[j].email
          PROVE  i = j
      <4>1. \A k \in {i, j} \ {t} : Pending(k) /\ invite'[k].email = invite[k].email /\ invite[k].email # a
        BY <2>2, <3>1, <3>3
      <4>2. CASE i # t /\ j # t
        BY <3>3, <4>1, <4>2 DEF IInv, NoInvitationIsLeftOver
      <4>3. CASE i = t \/ j = t
        BY <2>2, <3>3, <4>1, <4>3
      <4>4. QED
        BY <4>2, <4>3
    <3>4. ASSUME NEW i \in Rows, invite'[i].state = "pending"
          PROVE  MemberRows(invite'[i].email) = {}
      BY <1>2, <2>2, <3>1, <3>4 DEF IInv, NoInvitationIsLeftOver
    <3>5. QED
      BY <3>2, <3>3, <3>4 DEF NoInvitationIsLeftOver, Pending
  <2>6. ASSUME NEW u \in Txs \ {t} PROVE TxInv(member', invite', u, tx[u])
    <3>1. WorkspaceLock \notin tx[u].locks /\ \A i \in Lapsed(a) : L("invite", i, 4) \notin tx[u].locks
      BY <1>2, <1>3, Excluded
    <3>2. \A i \in Rows : Pending(i) /\ L("invite", i, 4) \in tx[u].locks =>
                          invite'[i].state = "pending" /\ invite'[i].email = invite[i].email
      BY <1>2, <2>2, <3>1 DEF Pending
    <3>3. invite[u].state = "absent" => invite'[u].state = "absent"
      BY <2>2, Names DEF Lapsed, Pending
    <3>4. /\ u \in Txs /\ (member[u].state = "absent" => member'[u].state = "absent")
          /\ \A s \in Rows : ActiveIn(member, s) /\ L("member", s, 2) \in tx[u].locks => member'[s] = member[s]
      BY <2>1
    <3>5. QED
      BY <3>1, <3>2, <3>3, <3>4, OthersKeepTheirs
  <2>7. QED
    BY <1>1, <2>1, <2>3, <2>4, <2>5, <2>6, EndStep DEF Ended
<1>6. QED
  BY <1>4, <1>5

LEMMA RevokeInvitationKeepsIInv ==
  ASSUME IInv, NEW t \in Txs, RevokeInvitation(t)
  PROVE IInv'
<1> DEFINE i == Target(t)
<1>1. tx[t].pc = "act" /\ i \in Rows /\ WorkspaceLock \in tx[t].locks
  BY Unjudged DEF RevokeInvitation, WorkspaceWrites
<1>2. /\ invite' = IF Pending(i) THEN [invite EXCEPT ![i].state = "revoked"] ELSE invite
      /\ End(t, "answered") /\ claims' \subseteq Claim
      /\ UNCHANGED <<member, credential, session, about>>
  BY CommitClaims DEF RevokeInvitation
<1>3. Pending(i) => Free(t, L("invite", i, 3))
  BY WantsWhere DEF RevokeInvitation, Granted
<1> HIDE DEF i
<1>4. /\ invite' \in [Rows -> Invite]
      /\ \A j \in Rows : /\ invite'[j].email = invite[j].email
                         /\ j # i => invite'[j].state = invite[j].state
                         /\ invite'[j].state \in {invite[j].state, "revoked"}
                         /\ ~Pending(i) => invite'[j].state = invite[j].state
  BY <1>1, <1>2 DEF IInv, TypeOK, Invite
<1>5. Typed'
  BY <1>2, <1>4 DEF IInv, TypeOK, Typed, about
<1>6. AnOwnerRemains' /\ CredentialsFollowTheRole'
  BY <1>2 DEF IInv, AnOwnerRemains, CredentialsFollowTheRole, Owners, Active
<1>7. NoInvitationIsLeftOver'
  <2>1. \A b : MemberRows(b)' = MemberRows(b)
    BY <1>2 DEF MemberRows, Active
  <2>2. QED
    BY <1>4, <2>1 DEF IInv, NoInvitationIsLeftOver, Pending
<1>8. ASSUME NEW u \in Txs \ {t} PROVE TxInv(member', invite', u, tx[u])
  <2>1. WorkspaceLock \notin tx[u].locks /\ (Pending(i) => L("invite", i, 4) \notin tx[u].locks)
    BY <1>1, <1>3, Excluded
  <2>2. \A j \in Rows : Pending(j) /\ L("invite", j, 4) \in tx[u].locks =>
                        invite'[j].state = "pending" /\ invite'[j].email = invite[j].email
    BY <1>4, <2>1 DEF Pending
  <2>3. invite[u].state = "absent" => invite'[u].state = "absent"
    BY <1>4, Names DEF Pending
  <2>4. /\ u \in Txs /\ (member[u].state = "absent" => member'[u].state = "absent")
        /\ \A s \in Rows : ActiveIn(member, s) /\ L("member", s, 2) \in tx[u].locks => member'[s] = member[s]
    BY <1>2
  <2>5. QED
    BY <2>1, <2>2, <2>3, <2>4, OthersKeepTheirs
<1>9. QED
  BY <1>1, <1>2, <1>5, <1>6, <1>7, <1>8, EndStep DEF Ended

LEMMA SessionType ==
  ASSUME IInv, NEW t \in Txs
  PROVE Bound(t) \in [Accounts -> Rows \cup {None}]
BY DEF Bound, IInv, TypeOK

LEMMA InsertMembershipKeepsIInv ==
  ASSUME IInv, NEW t \in Txs, InsertMembership(t)
  PROVE IInv'
<1> DEFINE i == Target(t)
           a == Caller(t)
           new == [account |-> a, role |-> invite[i].role, state |-> "active"]
<1>1. TxInv(member, invite, t, tx[t]) /\ tx[t].pc = "insert" /\ a \in Accounts /\ i \in Rows
  BY Asks DEF InsertMembership, Ended
<1>2. /\ L("invite", i, 4) \in tx[t].locks /\ Pending(i) /\ invite[i].email = a
      /\ member[t].state = "absent" /\ invite[t].state = "absent"
  BY <1>1 DEF TxInv, KeepsWhatItFound, InsertsOnce, Pending, Target, Caller
<1>3. Free(t, L("workspace", None, 1))
  BY <1>1, WantsWhere DEF InsertMembership, Granted
<1>4. CASE MemberRows(a) # {} \/ \E c \in claims : c.key = tx[t].key /\ c.fingerprint.op = "accept"
  <2>1. End(t, "refused") /\ UNCHANGED tables
    BY <1>4, Zenon DEF InsertMembership, Refuse
  <2>2. QED
    BY <1>1, <2>1, NothingWritten DEF Ended
<1>5. CASE ~(MemberRows(a) # {} \/ \E c \in claims : c.key = tx[t].key /\ c.fingerprint.op = "accept")
  <2>1. /\ member' = [member EXCEPT ![t] = new]
        /\ invite' = [invite EXCEPT ![i].state = "accepted"]
        /\ session' = Bound(t) /\ Commit(t) /\ UNCHANGED <<credential, about>>
    BY <1>5, Zenon DEF InsertMembership
  <2>2. End(t, "answered") /\ claims' \subseteq Claim /\ session' \in [Accounts -> Rows \cup {None}]
    BY <2>1, CommitClaims, SessionType
  <2>3. invite[i].role \in Role
    BY <1>1 DEF IInv, TypeOK, Invite
  <2> HIDE DEF i, a
  <2>4. /\ member' \in [Rows -> Member] /\ member'[t] = new
        /\ \A r \in Rows \ {t} : member'[r] = member[r]
    BY <1>1, <2>1, <2>3, Names DEF IInv, TypeOK, Member
  <2>5. /\ invite' \in [Rows -> Invite] /\ invite'[i].state = "accepted"
        /\ \A j \in Rows : /\ invite'[j].email = invite[j].email
                           /\ j # i => invite'[j].state = invite[j].state
    BY <1>1, <2>1 DEF IInv, TypeOK, Invite
  <2>6. Typed'
    BY <2>1, <2>2, <2>4, <2>5 DEF IInv, TypeOK, Typed, about
  <2>7. \A r \in Rows : Active(r) => r # t /\ member'[r] = member[r]
    BY <1>2, <2>4 DEF Active
  <2>8. AnOwnerRemains'
    BY <2>7 DEF IInv, AnOwnerRemains, Owners, Active
  <2>9. CredentialsFollowTheRole'
    BY <2>1, <2>7 DEF IInv, TypeOK, Credential, CredentialsFollowTheRole, Active
  <2>10. NoInvitationIsLeftOver'
    <3>1. \A j \in Rows : invite'[j].state = "pending" => Pending(j) /\ invite[j].email # a
      BY <1>1, <1>2, <2>5 DEF IInv, NoInvitationIsLeftOver, Pending
    <3>2. \A b : b # a => MemberRows(b)' = MemberRows(b)
      BY <1>2, <2>4 DEF MemberRows, Active
    <3>3. QED
      BY <2>5, <3>1, <3>2 DEF IInv, NoInvitationIsLeftOver, Pending
  <2>11. ASSUME NEW u \in Txs \ {t} PROVE TxInv(member', invite', u, tx[u])
    <3>1. WorkspaceLock \notin tx[u].locks /\ L("invite", i, 4) \notin tx[u].locks
      BY <1>2, <1>3, Excluded
    <3>2. \A j \in Rows : Pending(j) /\ L("invite", j, 4) \in tx[u].locks =>
                          invite'[j].state = "pending" /\ invite'[j].email = invite[j].email
      BY <2>5, <3>1 DEF Pending
    <3>3. u \in Txs /\ (invite[u].state = "absent" => invite'[u].state = "absent")
      BY <1>2, <2>5, Names DEF Pending
    <3>4. member[u].state = "absent" => member'[u].state = "absent"
      BY <2>4, Names
    <3>5. \A s \in Rows : ActiveIn(member, s) /\ L("member", s, 2) \in tx[u].locks => member'[s] = member[s]
      BY <2>7 DEF Active, ActiveIn
    <3>6. QED
      BY <3>1, <3>2, <3>3, <3>4, <3>5, OthersKeepTheirs
  <2>12. QED
    BY <1>1, <2>2, <2>6, <2>8, <2>9, <2>10, <2>11, EndStep DEF Ended
<1>6. QED
  BY <1>4, <1>5

LEMMA RevokedType ==
  ASSUME IInv, NEW holders
  PROVE Revoked(holders) \in [Rows -> Credential]
BY DEF IInv, TypeOK, Credential, Revoked

\* A commit that leaves members and invitations alone.
LEMMA QuietCommit ==
  ASSUME IInv, NEW t \in Txs, Commit(t), tx[t].pc # "answered", UNCHANGED <<member, invite, session>>,
         workspace' \in Workspace, trail' \in Seq(Event), credential' \in [Rows -> Credential],
         \A c \in Rows : credential'[c].state = "live" =>
           LET m == credential'[c].member IN
           Active(m) /\ credential'[c].scopes \subseteq RoleScopes[member[m].role]
  PROVE IInv'
<1>1. End(t, "answered") /\ claims' \subseteq Claim
  BY CommitClaims
<1>2. Typed'
  BY <1>1 DEF IInv, TypeOK, Typed
<1>3. CredentialsFollowTheRole'
  BY DEF CredentialsFollowTheRole, Active
<1>4. QED
  BY <1>1, <1>2, <1>3, QuietEnd DEF Ended

\* What holds of every credential before.
LEMMA LiveCredential ==
  ASSUME IInv, NEW c \in Rows, credential[c].state = "live"
  PROVE /\ Active(credential[c].member)
        /\ credential[c].scopes \subseteq RoleScopes[member[credential[c].member].role]
BY DEF IInv, CredentialsFollowTheRole

LEMMA IssueKeepsIInv ==
  ASSUME IInv, NEW t \in Txs, IssueCredential(t)
  PROVE IInv'
<1>1. /\ tx[t].pc = "act" /\ ~Barred(t) /\ Op(t) = "issue" /\ Active(As(t)) /\ As(t) \in Rows
  BY Unjudged DEF IssueCredential, WorkspaceWrites
<1> DEFINE scopes == tx[t].request.scopes
<1>2. scopes \subseteq RoleScopes[MyRole(t)] /\ scopes \in SUBSET Issuable
  BY <1>1, Asks DEF Barred, Request
<1>3. /\ credential' = [credential EXCEPT ![t] = NewCredential(t, scopes)] /\ Commit(t)
      /\ UNCHANGED <<member, invite, session, about>>
  BY DEF IssueCredential
<1> HIDE DEF scopes
<1>4. NewCredential(t, scopes) \in Credential
  BY <1>1, <1>2 DEF NewCredential, Credential
<1>5. credential' \in [Rows -> Credential]
  BY <1>3, <1>4 DEF IInv, TypeOK
<1>6. ASSUME NEW c \in Rows, credential'[c].state = "live"
      PROVE  /\ Active(credential'[c].member)
             /\ credential'[c].scopes \subseteq RoleScopes[member[credential'[c].member].role]
  <2>1. CASE c = t
    BY <1>1, <1>2, <1>3, <2>1 DEF NewCredential, MyRole, IInv, TypeOK
  <2>2. CASE c # t
    BY <1>3, <1>6, <2>2, LiveCredential DEF IInv, TypeOK
  <2>3. QED
    BY <2>1, <2>2
<1>7. workspace' \in Workspace /\ trail' \in Seq(Event)
  BY <1>3 DEF about, IInv, TypeOK
<1>8. QED
  BY <1>1, <1>3, <1>5, <1>6, <1>7, QuietCommit

LEMMA RotateKeepsIInv ==
  ASSUME IInv, NEW t \in Txs, RotateCredential(t)
  PROVE IInv'
<1> DEFINE old == Target(t)
           scopes == credential[old].scopes
<1>1. /\ tx[t].pc = "act" /\ ~Barred(t) /\ ~Unfit(t) /\ Op(t) = "rotate"
      /\ old \in Rows /\ As(t) \in Rows
  BY Unjudged DEF RotateCredential, WorkspaceWrites
<1>2. credential[old].state = "live" /\ credential[old].member = As(t)
  BY <1>1 DEF Barred, Unfit
<1>3. Active(As(t)) /\ scopes \subseteq RoleScopes[MyRole(t)] /\ scopes \in SUBSET Issuable
  BY <1>1, <1>2, LiveCredential DEF MyRole, IInv, TypeOK, Credential
<1>4. /\ credential' = [credential EXCEPT ![t] = NewCredential(t, scopes), ![old].state = "revoked"]
      /\ Commit(t) /\ UNCHANGED <<member, invite, session, about>>
  BY DEF RotateCredential
<1> HIDE DEF old, scopes
<1>5. NewCredential(t, scopes) \in Credential
  BY <1>1, <1>3 DEF NewCredential, Credential
<1>6. /\ credential' \in [Rows -> Credential] /\ credential'[old].state = "revoked"
      /\ t # old => credential'[t] = NewCredential(t, scopes)
      /\ \A c \in Rows \ {t, old} : credential'[c] = credential[c]
  BY <1>1, <1>4, <1>5, Names DEF IInv, TypeOK, Credential
<1>7. ASSUME NEW c \in Rows, credential'[c].state = "live"
      PROVE  /\ Active(credential'[c].member)
             /\ credential'[c].scopes \subseteq RoleScopes[member[credential'[c].member].role]
  <2>1. CASE c = t
    BY <1>3, <1>6, <1>7, <2>1 DEF NewCredential, MyRole
  <2>2. CASE c # t
    BY <1>6, <1>7, <2>2, LiveCredential
  <2>3. QED
    BY <2>1, <2>2
<1>8. workspace' \in Workspace /\ trail' \in Seq(Event)
  BY <1>4 DEF about, IInv, TypeOK
<1>9. QED
  BY <1>1, <1>4, <1>6, <1>7, <1>8, QuietCommit

LEMMA RevokeKeepsIInv ==
  ASSUME IInv, NEW t \in Txs, RevokeCredential(t)
  PROVE IInv'
<1> DEFINE c == Target(t)
<1>1. tx[t].pc = "act" /\ c \in Rows
  BY Unjudged DEF RevokeCredential, WorkspaceWrites
<1>2. /\ credential' \in {credential, [credential EXCEPT ![c].state = "revoked"]} /\ Commit(t)
      /\ UNCHANGED <<member, invite, session, about>>
  BY DEF RevokeCredential
<1> HIDE DEF c
<1>3. /\ credential' \in [Rows -> Credential]
      /\ \A d \in Rows : credential'[d].state = "live" => credential'[d] = credential[d]
  BY <1>1, <1>2 DEF IInv, TypeOK, Credential
<1>4. \A d \in Rows : credential'[d].state = "live" =>
        /\ Active(credential'[d].member)
        /\ credential'[d].scopes \subseteq RoleScopes[member[credential'[d].member].role]
  BY <1>3, LiveCredential
<1>5. workspace' \in Workspace /\ trail' \in Seq(Event)
  BY <1>2 DEF about, IInv, TypeOK
<1>6. QED
  BY <1>1, <1>2, <1>3, <1>4, <1>5, QuietCommit

LEMMA EntryType ==
  ASSUME IInv, NEW t \in Txs, Caller(t) \in Accounts,
         NEW what \in {"renamed", "stated", "acknowledged"}
  PROVE  /\ Entry(t, what) \in Event
         /\ Entry(t, what).what = what /\ Entry(t, what).by = Caller(t)
         /\ Entry(t, what).key = tx[t].key
         /\ Entry(t, what).says = IF what = "stated" THEN Details[tx[t].request.words]
                                                   ELSE tx[t].request.words
<1>1. tx[t] \in Transaction /\ tx[t].request.words \in Words \cup {None}
  BY Asks DEF Request
<1>2. \A w \in Words \cup {None} : Details[w] \in Words \cup {None} \cup { Details[v] : v \in Words }
  BY DetailsAssumption DEF DetailsAssumption
<1>3. tx[t].key \in Keys \cup {None}
  BY <1>1 DEF Transaction
<1>4. QED
  BY <1>1, <1>2, <1>3 DEF Entry, Event

LEMMA RecordedType ==
  ASSUME IInv, NEW t \in Txs, Caller(t) \in Accounts,
         NEW what \in {"renamed", "stated", "acknowledged"}
  PROVE Recorded(t, what) \in Seq(Event)
<1>1. Entry(t, what) \in Event /\ trail \in Seq(Event)
  BY EntryType DEF IInv, TypeOK
<1>2. Append(trail, Entry(t, what)) \in Seq(Event)
  BY <1>1
<1>3. QED
  BY <1>2 DEF Recorded

LEMMA RenameKeepsIInv ==
  ASSUME IInv, NEW t \in Txs, RenameWorkspace(t)
  PROVE IInv'
<1>1. tx[t].pc = "act" /\ Caller(t) \in Accounts
  BY Unjudged DEF RenameWorkspace, WorkspaceWrites
<1>2. /\ workspace' = [workspace EXCEPT !.name = tx[t].request.words]
      /\ trail' = Recorded(t, "renamed")
      /\ Commit(t) /\ UNCHANGED <<member, invite, credential, session>>
  BY DEF RenameWorkspace
<1>3. workspace' \in Workspace
  BY <1>2, Asks DEF IInv, TypeOK, Workspace, Request
<1>4. trail' \in Seq(Event)
  BY <1>1, <1>2, RecordedType
<1>5. credential' \in [Rows -> Credential]
  BY <1>2 DEF IInv, TypeOK
<1>6. QED
  BY <1>1, <1>2, <1>3, <1>4, <1>5, LiveCredential, QuietCommit

LEMMA RecordPreferencesKeepsIInv ==
  ASSUME IInv, NEW t \in Txs, RecordPreferences(t)
  PROVE IInv'
<1>1. tx[t].pc = "record" /\ Caller(t) \in Accounts
  BY Asks DEF RecordPreferences, Ended
<1>2. CASE NothingNew(t)
  <2>1. End(t, "answered") /\ UNCHANGED tables
    BY <1>2 DEF RecordPreferences, Answer
  <2>2. QED
    BY <1>1, <2>1, NothingWritten DEF Ended
<1>3. CASE ~NothingNew(t) /\ workspace.row # tx[t].seen.row
  <2>1. End(t, "refused") /\ UNCHANGED tables
    BY <1>3 DEF RecordPreferences, Refuse
  <2>2. QED
    BY <1>1, <2>1, NothingWritten DEF Ended
<1>4. CASE ~NothingNew(t) /\ workspace.row = tx[t].seen.row
  <2>1. /\ workspace' = [workspace EXCEPT !.row = TRUE, !.consent = SetConsent(t),
                            !.stated = IF Op(t) = "state" THEN tx[t].request.words ELSE @]
        /\ trail' = Recorded(t, IF Op(t) = "state" THEN "stated" ELSE "acknowledged")
        /\ Commit(t) /\ UNCHANGED <<member, invite, credential, session>>
    BY <1>4 DEF RecordPreferences
  <2>2. SetConsent(t) \in Accounts \cup {None}
    BY <1>1 DEF SetConsent, IInv, TypeOK, Workspace
  <2>3. workspace' \in Workspace
    BY <2>1, <2>2, Asks DEF IInv, TypeOK, Workspace, Request
  <2>4. trail' \in Seq(Event)
    BY <1>1, <2>1, RecordedType
  <2>5. credential' \in [Rows -> Credential]
    BY <2>1 DEF IInv, TypeOK
  <2>6. QED
    BY <1>1, <2>1, <2>3, <2>4, <2>5, LiveCredential, QuietCommit
<1>5. QED
  BY <1>2, <1>3, <1>4

\* The bind's write to the session, or the selected workspace's.
LEMMA SessionEnd ==
  ASSUME IInv, NEW t \in Txs, tx[t].pc # "answered", End(t, "answered"),
         session' \in [Accounts -> Rows \cup {None}],
         UNCHANGED <<member, invite, credential, claims, about>>
  PROVE IInv'
<1>1. Typed' /\ CredentialsFollowTheRole'
  BY DEF IInv, TypeOK, Typed, about, CredentialsFollowTheRole, Active
<1>2. QED
  BY <1>1, QuietEnd DEF Ended

LEMMA LockInvitationKeepsIInv ==
  ASSUME IInv, NEW t \in Txs, LockInvitation(t)
  PROVE IInv'
<1> DEFINE i == Target(t)
           replay == \E c \in Claimed(t) : c.fingerprint = Fingerprint(tx[t].request)
           unfit == invite[i].email # Caller(t) \/ ~Pending(i) \/ tx[t].late \/ MemberRows(Caller(t)) # {}
<1>1. /\ TxInv(member, invite, t, tx[t]) /\ tx[t].pc = "act" /\ Op(t) = "accept"
      /\ Caller(t) \in Accounts /\ i \in Rows
  BY Asks DEF LockInvitation, Ended
<1>2. Wants(t) = { L("invite", i, 4) } /\ Granted(t)
  BY <1>1, WantsWhere DEF LockInvitation
<1>3. CASE Claimed(t) # {} /\ replay
  <2>1. End(t, "answered") /\ session' = Bound(t)
        /\ UNCHANGED <<member, invite, credential, claims, about>>
    BY <1>3 DEF LockInvitation
  <2>2. session' \in [Accounts -> Rows \cup {None}]
    BY <2>1, SessionType
  <2>3. QED
    BY <1>1, <2>1, <2>2, SessionEnd
<1>4. CASE (Claimed(t) # {} /\ ~replay) \/ (Claimed(t) = {} /\ unfit)
  <2>1. End(t, "refused") /\ UNCHANGED tables
    BY <1>4 DEF LockInvitation, Refuse
  <2>2. QED
    BY <1>1, <2>1, NothingWritten DEF Ended
<1>5. CASE Claimed(t) = {} /\ ~unfit
  <2>1. Go(t, "insert") /\ UNCHANGED tables
    BY <1>5 DEF LockInvitation
  <2>2. Pending(i) /\ invite[i].email = Caller(t)
    BY <1>5
  <2>3. Wants(t) \subseteq Lock /\ "insert" \in Places
    BY <1>1, <1>2, LockTypes DEF Places
  <2>4. ASSUME NEW x \in Transaction, x.pc = "insert", x.locks = tx[t].locks \cup Wants(t),
               x.request = tx[t].request
        PROVE  InPlace(x) /\ HoldsItsAuthority(member, x) /\ KeepsWhatItFound(member, invite, x)
    <3>1. x.request.op = "accept" /\ x.request.target = i /\ x.request.caller = Caller(t)
      BY <1>1, <2>4 DEF Op, Target, Caller
    <3>2. InPlace(x) /\ HoldsItsAuthority(member, x)
      BY <1>1, <2>4, <3>1 DEF InPlace, HoldsItsAuthority
    <3>3. QED
      BY <1>2, <2>2, <2>4, <3>1, <3>2 DEF KeepsWhatItFound, Pending
  <2>5. QED
    BY <1>1, <1>2, <2>1, <2>3, <2>4, GoStep
<1>6. QED
  BY <1>3, <1>4, <1>5

LEMMA CommitSessionKeepsIInv ==
  ASSUME IInv, NEW t \in Txs, CommitSession(t)
  PROVE IInv'
<1>1. tx[t].pc = "commit" /\ End(t, "answered") /\ UNCHANGED <<member, invite, credential, claims, about>>
  BY DEF CommitSession
<1>2. session' \in [Accounts -> Rows \cup {None}]
  <2>1. session \in [Accounts -> Rows \cup {None}] /\ As(t) \in Rows \cup {None}
    BY Asks DEF IInv, TypeOK
  <2>2. \/ session' = [session EXCEPT ![Caller(t)] = As(t)]
        \/ session' = [session EXCEPT ![Caller(t)] = None]
        \/ session' = Bound(t)
    BY DEF CommitSession
  <2>3. QED
    BY <2>1, <2>2, SessionType
<1>3. QED
  BY <1>1, <1>2, SessionEnd

LEMMA ExpireKeepsIInv ==
  ASSUME IInv, NEW i \in Rows, Expire(i)
  PROVE IInv'
<1>1. /\ invite' = [invite EXCEPT ![i].expired = TRUE]
      /\ UNCHANGED <<member, credential, session, claims, about, tx>>
  BY DEF Expire
<1>2. /\ invite' \in [Rows -> Invite]
      /\ \A j \in Rows : invite'[j].state = invite[j].state /\ invite'[j].email = invite[j].email
  BY <1>1 DEF IInv, TypeOK, Invite
<1>3. TypeOK'
  BY <1>1, <1>2 DEF IInv, TypeOK, about, Blocks
<1>4. AnOwnerRemains' /\ CredentialsFollowTheRole'
  BY <1>1 DEF IInv, AnOwnerRemains, CredentialsFollowTheRole, Owners, Active
<1>5. NoInvitationIsLeftOver'
  <2>1. \A b : MemberRows(b)' = MemberRows(b)
    BY <1>1 DEF MemberRows, Active
  <2>2. QED
    BY <1>2, <2>1 DEF IInv, NoInvitationIsLeftOver, Pending
<1>6. \A u \in Txs : TxInv(member, invite', u, tx[u])
  BY <1>2, ExpiryIsNothing DEF IInv
<1>7. QED
  BY <1>1, <1>3, <1>4, <1>5, <1>6 DEF IInv

LEMMA StutterKeepsIInv == IInv /\ UNCHANGED vars => IInv'
<1> SUFFICES ASSUME IInv, UNCHANGED vars PROVE IInv'
  OBVIOUS
<1>1. TypeOK'
  BY DEF IInv, TypeOK, vars, tables, about, Blocks
<1>2. AnOwnerRemains' /\ CredentialsFollowTheRole' /\ NoInvitationIsLeftOver'
  BY DEF IInv, vars, tables, AnOwnerRemains, CredentialsFollowTheRole, NoInvitationIsLeftOver, Owners,
     MemberRows, Active, Pending
<1>3. QED
  BY <1>1, <1>2 DEF IInv, vars, tables

LEMMA StepKeepsIInv ==
  ASSUME IInv, NEW t \in Txs, Step(t)
  PROVE IInv'
<1>1. CASE Begin(t)
  BY <1>1, BeginKeepsIInv
<1>2. CASE BindSession(t)
  BY <1>2, BindKeepsIInv
<1>3. CASE Touch(t)
  BY <1>3, TouchKeepsIInv
<1>4. CASE LockWorkspace(t)
  BY <1>4, LockWorkspaceKeepsIInv
<1>5. CASE ShareOwnRow(t)
  BY <1>5, ShareOwnRowKeepsIInv
<1>6. CASE Disclose(t)
  BY <1>6, NothingWritten DEF Disclose, Answer, Ended
<1>7. CASE Judge(t)
  BY <1>7, NothingWritten DEF Judge, Judged, Answer, Refuse, Ended
<1>8. CASE Remove(t)
  BY <1>8, RemoveKeepsIInv
<1>9. CASE UnbindRow(t)
  BY <1>9, UnbindRowKeepsIInv
<1>10. CASE CommitRemoval(t)
  BY <1>10, CommitRemovalKeepsIInv
<1>11. CASE ChangeRole(t)
  BY <1>11, ChangeRoleKeepsIInv
<1>12. CASE CheckInvitee(t)
  BY <1>12, CheckInviteeKeepsIInv
<1>13. CASE InsertInvitation(t)
  BY <1>13, InsertInvitationKeepsIInv
<1>14. CASE RevokeInvitation(t)
  BY <1>14, RevokeInvitationKeepsIInv
<1>15. CASE IssueCredential(t)
  BY <1>15, IssueKeepsIInv
<1>16. CASE RotateCredential(t)
  BY <1>16, RotateKeepsIInv
<1>17. CASE RevokeCredential(t)
  BY <1>17, RevokeKeepsIInv
<1>18. CASE RenameWorkspace(t)
  BY <1>18, RenameKeepsIInv
<1>19. CASE ReadPreferences(t)
  BY <1>19, ReadPreferencesKeepsIInv
<1>20. CASE RecordPreferences(t)
  BY <1>20, RecordPreferencesKeepsIInv
<1>21. CASE LockInvitation(t)
  BY <1>21, LockInvitationKeepsIInv
<1>22. CASE InsertMembership(t)
  BY <1>22, InsertMembershipKeepsIInv
<1>23. CASE SelectWorkspace(t)
  BY <1>23, SelectWorkspaceKeepsIInv
<1>24. CASE CommitSession(t)
  BY <1>24, CommitSessionKeepsIInv
<1>25. CASE Abort(t)
  BY <1>25, NothingWritten DEF Abort, Refuse, Ended
<1>26. QED
  BY <1>1, <1>2, <1>3, <1>4, <1>5, <1>6, <1>7, <1>8, <1>9, <1>10, <1>11, <1>12, <1>13, <1>14, <1>15,
     <1>16, <1>17, <1>18, <1>19, <1>20, <1>21, <1>22, <1>23, <1>24, <1>25 DEF Step

LEMMA NextKeepsIInv == IInv /\ [Next]_vars => IInv'
<1> SUFFICES ASSUME IInv, [Next]_vars PROVE IInv'
  OBVIOUS
<1>1. CASE \E t \in Txs : Step(t)
  BY <1>1, StepKeepsIInv
<1>2. CASE \E i \in Rows : Expire(i)
  BY <1>2, ExpireKeepsIInv
<1>3. CASE Done \/ UNCHANGED vars
  BY <1>3, StutterKeepsIInv DEF Done
<1>4. QED
  BY <1>1, <1>2, <1>3 DEF Next

LEMMA Invariant == Spec => []IInv
BY InitIInv, NextKeepsIInv, PTL DEF Spec

-----------------------------------------------------------------------------
(***************************************************************************)
(* Who gets an answer                                                      *)
(***************************************************************************)
Gains == \/ Owners' # Owners
         \/ \E i \in Rows : Pending(i)' /\ ~Pending(i) /\ invite'[i].role = "owner"

LEMMA OthersWait ==
  ASSUME IInv, NEW t \in Txs, Step(t), NEW u \in Txs \ {t}
  PROVE tx'[u] = tx[u]
<1>1. tx \in [Txs -> Transaction]
  BY DEF IInv, TypeOK
<1> USE DEF End, Go, Refuse, Answer, Commit
<1>2. CASE Begin(t) \/ BindSession(t) \/ Touch(t)
  <2>1. CASE Begin(t)
    BY <2>1, BeginKeepsIInv
  <2>2. CASE BindSession(t)
    BY <1>1, <2>2 DEF BindSession
  <2>3. CASE Touch(t)
    BY <1>1, <2>3 DEF Touch
  <2>4. QED
    BY <1>2, <2>1, <2>2, <2>3
<1>3. CASE LockWorkspace(t) \/ ShareOwnRow(t) \/ Disclose(t) \/ Judge(t) \/ Abort(t)
  BY <1>1, <1>3 DEF LockWorkspace, ShareOwnRow, Disclose, Judge, Abort
<1>4. CASE Remove(t) \/ UnbindRow(t) \/ CommitRemoval(t) \/ ChangeRole(t)
  BY <1>1, <1>4 DEF Remove, UnbindRow, CommitRemoval, ChangeRole
<1>5. CASE CheckInvitee(t) \/ InsertInvitation(t) \/ RevokeInvitation(t)
  BY <1>1, <1>5 DEF CheckInvitee, InsertInvitation, RevokeInvitation
<1>6. CASE IssueCredential(t) \/ RotateCredential(t) \/ RevokeCredential(t) \/ RenameWorkspace(t)
  BY <1>1, <1>6 DEF IssueCredential, RotateCredential, RevokeCredential, RenameWorkspace
<1>7. CASE ReadPreferences(t) \/ RecordPreferences(t)
  BY <1>1, <1>7 DEF ReadPreferences, RecordPreferences
<1>8. CASE LockInvitation(t) \/ InsertMembership(t) \/ SelectWorkspace(t) \/ CommitSession(t)
  BY <1>1, <1>8 DEF LockInvitation, InsertMembership, SelectWorkspace, CommitSession
<1>9. QED
  BY <1>2, <1>3, <1>4, <1>5, <1>6, <1>7, <1>8 DEF Step

\* A write's place says that it was authorised, and still is.
LEMMA StillAuthorised ==
  ASSUME IInv, NEW t \in Txs, Op(t) \notin AccountMode,
         tx[t].pc \in {"act", "pending", "unbind", "record", "disclose"}
  PROVE Authorised(t)
<1>1. TxInv(member, invite, t, tx[t])
  BY Asks
<1>2. tx[t].pc # "disclose" => tx[t].request.op \in WorkspaceWrites
  BY <1>1 DEF TxInv, InPlace, WorkspaceWrites, AccountMode, Op
<1>3. AuthorisedIn(member, tx[t])
  BY <1>1, <1>2 DEF TxInv, HoldsItsAuthority
<1>4. QED
  BY <1>3 DEF AuthorisedIn, Authorised, Active, ActiveIn, As, MyRole, Op

LEMMA RemovalGains ==
  ASSUME IInv, NEW t \in Txs, CommitRemoval(t), Gains
  PROVE MyRole(t) = "owner"
<1> DEFINE r == Target(t)
<1>1. /\ TxInv(member, invite, t, tx[t]) /\ tx[t].pc = "unbind" /\ r \in Rows
      /\ member' = [member EXCEPT ![r].state = "revoked"] /\ invite' = invite
  BY Asks DEF CommitRemoval, Ended
<1>2. member[r].role = "owner" => MyRole(t) = "owner"
  BY <1>1 DEF TxInv, KeepsWhatItFound, MyRole, As, Target
<1> HIDE DEF r
<1>3. member[r].role # "owner" => Owners' = Owners
  BY <1>1 DEF Owners, Active, IInv, TypeOK, Member
<1>4. QED
  BY <1>1, <1>2, <1>3 DEF Gains, Pending

LEMMA ChangeGains ==
  ASSUME IInv, NEW t \in Txs, ChangeRole(t), Gains
  PROVE MyRole(t) = "owner"
<1> DEFINE r == Target(t)
           role == tx[t].request.role
<1>1. /\ ~Unfit(t) /\ Op(t) = "change" /\ r \in Rows
      /\ member' = [member EXCEPT ![r].role = role] /\ invite' = invite
  BY Unjudged DEF ChangeRole, WorkspaceWrites
<1>2. MyRole(t) # "owner" => member[r].role # "owner" /\ role # "owner"
  BY <1>1 DEF Unfit
<1> HIDE DEF r, role
<1>3. member[r].role # "owner" /\ role # "owner" => Owners' = Owners
  BY <1>1 DEF Owners, Active, IInv, TypeOK, Member
<1>4. QED
  BY <1>1, <1>2, <1>3 DEF Gains, Pending

LEMMA InvitationGains ==
  ASSUME IInv, NEW t \in Txs, InsertInvitation(t), Gains
  PROVE MyRole(t) = "owner"
<1>1. /\ TxInv(member, invite, t, tx[t]) /\ tx[t].pc = "pending" /\ member' = member
  BY Asks DEF InsertInvitation, Refuse, tables
<1>2. tx[t].request.role = "owner" => MyRole(t) = "owner"
  BY <1>1 DEF TxInv, KeepsWhatItFound, MyRole, As
<1>3. Owners' = Owners
  BY <1>1 DEF Owners, Active
<1>4. PICK i \in Rows : invite'[i].state = "pending" /\ ~Pending(i) /\ invite'[i].role = "owner"
  BY <1>3 DEF Gains, Pending
<1>5. invite' = [j \in Rows |->
        IF j = t THEN [email |-> Target(t), role |-> tx[t].request.role, expired |-> FALSE,
                       state |-> "pending"]
        ELSE IF j \in Lapsed(Target(t)) THEN [invite[j] EXCEPT !.state = "revoked"]
        ELSE invite[j]]
  BY <1>4 DEF InsertInvitation, Refuse, tables, Pending
<1>6. \A j \in Rows \ {t} : invite'[j].state \in {"revoked", invite[j].state}
  BY <1>5 DEF IInv, TypeOK, Invite
<1>7. i = t
  BY <1>4, <1>6 DEF Pending
<1>8. QED
  BY <1>2, <1>4, <1>5, <1>7

LEMMA NothingGained == UNCHANGED <<member, invite>> => ~Gains
BY DEF Gains, Owners, Active, Pending

LEMMA AuthorityStep ==
  ASSUME IInv, NEW t \in Txs, Step(t), tx[t].pc # "answered", tx'[t].pc = "answered",
         Op(t) \notin AccountMode
  PROVE Authorised(t) /\ (Gains => MyRole(t) = "owner")
<1>1. tx \in [Txs -> Transaction] /\ tx[t] \in Transaction /\ TxInv(member, invite, t, tx[t])
  BY Asks
<1>2. Op(t) \notin {"accept", "select"} /\ tx[t].pc \notin {"insert", "commit"}
  BY <1>1 DEF AccountMode, TxInv, InPlace, Op
<1>3. Idle.pc = "idle" /\ [Idle EXCEPT !.pc = "refused"].pc = "refused"
  BY DEF Idle
<1>4. ~Abort(t) /\ ~End(t, "refused")
  BY <1>1, <1>3 DEF Abort, Refuse, End
<1>5. ~(Begin(t) \/ BindSession(t) \/ Touch(t) \/ LockWorkspace(t) \/ ShareOwnRow(t))
  <2>1. ~Begin(t)
    BY BeginKeepsIInv
  <2>2. ~BindSession(t)
    BY <1>1, <1>4 DEF BindSession, Transaction
  <2>3. ~Touch(t)
    <3>1. Bind(Op(t)) # "answered"
      BY DEF Bind
    <3>2. QED
      BY <1>1, <1>4, <3>1 DEF Touch, Refuse, Transaction
  <2>4. ~LockWorkspace(t) /\ ~ShareOwnRow(t)
    BY <1>1, <1>4 DEF LockWorkspace, ShareOwnRow, Go, Refuse, Transaction
  <2>5. QED
    BY <2>1, <2>2, <2>3, <2>4
<1>6. ~(Remove(t) \/ UnbindRow(t) \/ CheckInvitee(t) \/ ReadPreferences(t))
  <2>1. ~Remove(t)
    BY <1>1 DEF Remove, Transaction
  <2>2. ~UnbindRow(t)
    <3>1. SUFFICES ASSUME UnbindRow(t) PROVE FALSE
      OBVIOUS
    <3>2. PICK a \in tx[t].todo :
            LET hit == IF session[a] = Target(t) THEN {a} ELSE {} IN
            /\ Free(t, L("session", a, 3))
            /\ tx' = [tx EXCEPT ![t].todo = @ \ {a}, ![t].unbound = @ \cup hit,
                                ![t].locks = @ \cup { L("session", b, 3) : b \in hit }]
      BY <3>1 DEF UnbindRow
    <3>3. tx[t].pc = "unbind"
      BY <3>1 DEF UnbindRow
    <3>4. QED
      BY <1>1, <3>2, <3>3 DEF Transaction
  <2>3. ~CheckInvitee(t)
    BY <1>1 DEF CheckInvitee, Go, Transaction
  <2>4. ~ReadPreferences(t)
    BY <1>1 DEF ReadPreferences, Transaction
  <2>5. QED
    BY <2>1, <2>2, <2>3, <2>4
<1>7. ~(LockInvitation(t) \/ InsertMembership(t) \/ SelectWorkspace(t) \/ CommitSession(t))
  BY <1>2 DEF LockInvitation, InsertMembership, SelectWorkspace, CommitSession
<1>8. tx[t].pc \in {"act", "pending", "unbind", "record", "disclose"}
  BY <1>4, <1>5, <1>6, <1>7 DEF Step, Disclose, Judge, Judged, CommitRemoval, ChangeRole, InsertInvitation,
     RevokeInvitation, IssueCredential, RotateCredential, RevokeCredential, RenameWorkspace,
     RecordPreferences, GoesOn
<1>9. CASE CommitRemoval(t) \/ ChangeRole(t) \/ InsertInvitation(t)
  BY <1>8, <1>9, StillAuthorised, RemovalGains, ChangeGains, InvitationGains
<1>10. CASE RevokeInvitation(t)
  <2>1. Target(t) \in Rows /\ member' = member
        /\ invite' \in {invite, [invite EXCEPT ![Target(t)].state = "revoked"]}
    BY <1>10, Unjudged DEF RevokeInvitation, WorkspaceWrites
  <2>2. \A i \in Rows : invite'[i].state \in {invite[i].state, "revoked"}
    BY <2>1 DEF IInv, TypeOK, Invite
  <2>3. ~Gains
    BY <2>1, <2>2 DEF Gains, Owners, Active, Pending
  <2>4. QED
    BY <1>8, <2>3, StillAuthorised
<1>11. CASE Disclose(t) \/ Judge(t) \/ IssueCredential(t) \/ RotateCredential(t) \/ RevokeCredential(t)
            \/ RenameWorkspace(t) \/ RecordPreferences(t)
  <2>1. UNCHANGED <<member, invite>>
    BY <1>11 DEF Disclose, Judge, Answer, Refuse, tables, IssueCredential, RotateCredential,
       RevokeCredential, RenameWorkspace, RecordPreferences
  <2>2. QED
    BY <1>8, <2>1, NothingGained, StillAuthorised
<1>12. QED
  BY <1>4, <1>5, <1>6, <1>7, <1>9, <1>10, <1>11 DEF Step

-----------------------------------------------------------------------------
(***************************************************************************)
(* What the trail tells                                                    *)
(***************************************************************************)

\* A name that was given under a key is the only one the key gives: its record stays.
KeysAreKept ==
  \A i \in Entries(trail, "renamed") : trail[i].key # None =>
    \E c \in claims : c.key = trail[i].key /\ c.fingerprint.op = "rename"

\* What a statement or a consent is decided on is what is committed.
ReadStays == \A t \in Txs : tx[t].pc = "record" => tx[t].seen = workspace

TrailInv == TheTrailTellsTheWorkspace /\ KeysAreKept /\ ReadStays

\* Of positions in a log there is a last one.
LEMMA Greatest ==
  ASSUME NEW n \in Nat, NEW I \in SUBSET (1 .. n), I # {}
  PROVE  \E i \in I : \A j \in I : j <= i
<1> DEFINE T == { n - i : i \in I }
<1>1. T \subseteq Nat /\ T # {}
  <2>1. PICK i \in I : TRUE
    OBVIOUS
  <2>2. n - i \in T
    BY <2>1
  <2>3. \A j \in I : n - j \in Nat
    OBVIOUS
  <2>4. QED
    BY <2>2, <2>3
<1>2. \A x, y \in Nat : x < y => <<x, y>> \in OpToRel(<, Nat)
  BY DEF OpToRel
<1>3. \E x \in T : \A y \in T : <<y, x>> \notin OpToRel(<, Nat)
  BY <1>1, NatLessThanWellFounded, WFMin
<1>4. PICK x \in T : \A y \in T : ~(y < x)
  BY <1>1, <1>2, <1>3
<1>5. PICK i \in I : x = n - i
  OBVIOUS
<1>6. ASSUME NEW j \in I PROVE j <= i
  <2>1. n - j \in T
    BY <1>6
  <2>2. ~(n - j < n - i)
    BY <1>4, <1>5, <2>1
  <2>3. QED
    BY <2>2
<1>7. QED
  BY <1>6

LEMMA EntriesBefore ==
  ASSUME NEW log \in Seq(Event), NEW what, NEW before, NEW otherwise,
         { i \in Entries(log, what) : i < before } # {}
  PROVE  \E i \in Entries(log, what) :
           /\ i < before
           /\ \A j \in Entries(log, what) : j < before => j <= i
           /\ Said(log, what, before, otherwise) = log[i].says
<1> DEFINE I == { i \in Entries(log, what) : i < before }
<1>1. I \in SUBSET (1 .. Len(log)) /\ Len(log) \in Nat
  BY DEF Entries
<1>2. \E i \in I : \A j \in I : j <= i
  BY <1>1, Greatest
<1>3. PICK i : i = CHOOSE k \in I : \A j \in I : j <= k
  OBVIOUS
<1>4. i \in I /\ \A j \in I : j <= i
  BY <1>2, <1>3
<1>5. Said(log, what, before, otherwise) = log[i].says
  BY <1>3 DEF Said
<1>6. QED
  BY <1>4, <1>5

\* A log that is one entry longer says what it said before that entry, of other kinds
\* says it still, and of the entry's kind what the entry says.
LEMMA OneMore ==
  ASSUME NEW log \in Seq(Event), NEW e \in Event
  PROVE  LET longer == Append(log, e)
             n == Len(log) + 1
         IN  /\ longer \in Seq(Event) /\ Len(longer) = n /\ n \in Nat /\ longer[n] = e
             /\ \A i \in 1 .. Len(log) : longer[i] = log[i]
             /\ \A what : Entries(longer, what) =
                            Entries(log, what) \cup (IF e.what = what THEN {n} ELSE {})
<1>1. /\ Append(log, e) \in Seq(Event) /\ Len(Append(log, e)) = Len(log) + 1
      /\ Len(log) \in Nat /\ Append(log, e)[Len(log) + 1] = e
      /\ \A i \in 1 .. Len(log) : Append(log, e)[i] = log[i]
  OBVIOUS
<1>2. ASSUME NEW what
      PROVE  Entries(Append(log, e), what) =
               Entries(log, what) \cup (IF e.what = what THEN {Len(log) + 1} ELSE {})
  BY <1>1, <1>2 DEF Entries
<1>3. QED
  BY <1>1, <1>2

LEMMA SaidStays ==
  ASSUME NEW log \in Seq(Event), NEW e \in Event, NEW what, NEW otherwise,
         NEW before \in Nat, NEW later \in Nat, before <= Len(log) + 1, before <= later,
         \A i \in Entries(Append(log, e), what) : i < later <=> i \in Entries(log, what) /\ i < before
  PROVE  Said(Append(log, e), what, later, otherwise) = Said(log, what, before, otherwise)
<1> DEFINE I == { i \in Entries(log, what) : i < before }
           J == { i \in Entries(Append(log, e), what) : i < later }
<1>1. \A i \in 1 .. Len(log) : Append(log, e)[i] = log[i]
  BY OneMore
<1>2. Entries(log, what) \subseteq Entries(Append(log, e), what)
  BY OneMore
<1>3. I = J
  BY <1>2
<1>4. CASE I = {}
  BY <1>3, <1>4 DEF Said
<1>5. CASE I # {}
  <2>1. PICK i : i = CHOOSE k \in I : \A j \in I : j <= k
    OBVIOUS
  <2>2. i \in I
    <3>1. I \in SUBSET (1 .. Len(log)) /\ Len(log) \in Nat
      BY DEF Entries
    <3>2. QED
      BY <1>5, <2>1, <3>1, Greatest
  <2>3. i \in 1 .. Len(log)
    BY <2>2 DEF Entries
  <2>4. Said(log, what, before, otherwise) = log[i].says
    BY <1>5, <2>1 DEF Said
  <2>5. Said(Append(log, e), what, later, otherwise) = Append(log, e)[i].says
    BY <1>3, <1>5, <2>1 DEF Said
  <2>6. QED
    BY <1>1, <2>3, <2>4, <2>5
<1>6. QED
  BY <1>4, <1>5

LEMMA SaidLast ==
  ASSUME NEW log \in Seq(Event), NEW e \in Event, NEW what, NEW otherwise
  PROVE  LET n == Len(log) + 1
         IN  Said(Append(log, e), what, n + 1, otherwise) =
               IF e.what = what THEN e.says ELSE Said(log, what, n, otherwise)
<1> DEFINE longer == Append(log, e)
           n == Len(log) + 1
<1>1. /\ longer \in Seq(Event) /\ Len(longer) = n /\ n \in Nat /\ Len(log) \in Nat /\ longer[n] = e
      /\ Entries(longer, what) = Entries(log, what) \cup (IF e.what = what THEN {n} ELSE {})
      /\ Entries(log, what) \subseteq 1 .. Len(log)
  BY OneMore DEF Entries
<1> HIDE DEF longer
<1>2. CASE e.what # what
  <2>1. \A j \in Entries(longer, what) : j < n + 1 <=> j \in Entries(log, what) /\ j < n
    BY <1>1, <1>2
  <2>2. Said(longer, what, n + 1, otherwise) = Said(log, what, n, otherwise)
    BY <1>1, <2>1, SaidStays DEF longer
  <2>3. QED
    BY <1>2, <2>2 DEF longer
<1>3. CASE e.what = what
  <2>1. n \in { i \in Entries(longer, what) : i < n + 1 }
    BY <1>1, <1>3
  <2>2. PICK i \in Entries(longer, what) :
          /\ i < n + 1
          /\ \A j \in Entries(longer, what) : j < n + 1 => j <= i
          /\ Said(longer, what, n + 1, otherwise) = longer[i].says
    BY <1>1, <2>1, EntriesBefore
  <2>3. i = n
    BY <1>1, <2>1, <2>2
  <2>4. Said(longer, what, n + 1, otherwise) = e.says
    BY <1>1, <2>2, <2>3
  <2>5. QED
    BY <1>3, <2>4 DEF longer
<1>4. QED
  BY <1>2, <1>3

\* One at a time decides on what is stated, or changes it.
LEMMA OneRecorder ==
  ASSUME IInv, NEW t \in Txs, WorkspaceLock \in tx[t].locks, NEW u \in Txs \ {t}
  PROVE  tx[u].pc # "record"
<1>1. TxInv(member, invite, u, tx[u]) /\ WorkspaceLock \notin tx[u].locks
  BY Asks, Excluded
<1>2. Preferences \subseteq WorkspaceWrites
  BY DEF WorkspaceWrites
<1>3. QED
  BY <1>1, <1>2 DEF TxInv, InPlace, HoldsItsAuthority

LEMMA NothingTold ==
  ASSUME TrailInv, UNCHANGED about, claims \subseteq claims',
         \A u \in Txs : tx'[u].pc = "record" => tx'[u] = tx[u] \/ tx'[u].seen = workspace
  PROVE  TrailInv'
<1>1. TheTrailTellsTheWorkspace'
  BY DEF TrailInv, TheTrailTellsTheWorkspace, about
<1>2. KeysAreKept'
  BY DEF TrailInv, KeysAreKept, about, Entries
<1>3. ReadStays'
  BY DEF TrailInv, ReadStays, about
<1>4. QED
  BY <1>1, <1>2, <1>3 DEF TrailInv

\* The entry a step of t adds, and the transactions it leaves.
LEMMA OneEntry ==
  ASSUME IInv, NEW t \in Txs, WorkspaceLock \in tx[t].locks, Caller(t) \in Accounts,
         NEW what \in {"renamed", "stated", "acknowledged"}, trail' = Recorded(t, what), Commit(t)
  PROVE  LET e == Entry(t, what)
         IN  /\ e \in Event /\ trail \in Seq(Event) /\ trail' = Append(trail, e)
             /\ claims \subseteq claims'
             /\ \A u \in Txs : tx'[u].pc # "record"
<1>1. tx \in [Txs -> Transaction] /\ tx[t] \in Transaction /\ tx[t].request \in Request
  BY Asks
<1>2. tx'[t].pc = "answered" /\ \A u \in Txs \ {t} : tx'[u] = tx[u]
  BY <1>1 DEF Commit, End, Idle
<1>3. \A u \in Txs : tx'[u].pc # "record"
  BY <1>2, OneRecorder
<1>4. QED
  BY <1>1, <1>3, EntryType DEF IInv, TypeOK, Recorded, Commit

LEMMA RenameTells ==
  ASSUME IInv, TrailInv, NEW t \in Txs, RenameWorkspace(t)
  PROVE  TrailInv'
<1> DEFINE e == Entry(t, "renamed")
           n == Len(trail) + 1
<1>1. /\ tx[t].pc = "act" /\ Op(t) = "rename" /\ WorkspaceLock \in tx[t].locks /\ Caller(t) \in Accounts
      /\ tx[t].request \in Request
  BY Unjudged, Asks DEF RenameWorkspace, WorkspaceWrites
<1>2. /\ workspace' = [workspace EXCEPT !.name = tx[t].request.words] /\ workspace \in Workspace
      /\ trail' = Recorded(t, "renamed") /\ Commit(t)
  BY DEF RenameWorkspace, IInv, TypeOK
<1>3. /\ e \in Event /\ trail \in Seq(Event) /\ trail' = Append(trail, e)
      /\ claims \subseteq claims' /\ \A u \in Txs : tx'[u].pc # "record"
  BY <1>1, <1>2, OneEntry
<1>4. /\ e.what = "renamed" /\ e.says = tx[t].request.words /\ e.key = tx[t].key
      /\ workspace'.name = e.says /\ workspace'.stated = workspace.stated
      /\ workspace'.consent = workspace.consent
  BY <1>1, <1>2, EntryType DEF Workspace
<1> HIDE DEF e
<1>5. /\ Len(trail') = n /\ n \in Nat /\ trail'[n] = e /\ \A i \in 1 .. Len(trail) : trail'[i] = trail[i]
      /\ Entries(trail', "renamed") = Entries(trail, "renamed") \cup {n}
      /\ Entries(trail', "stated") = Entries(trail, "stated")
      /\ Entries(trail', "acknowledged") = Entries(trail, "acknowledged")
      /\ \A what : Entries(trail, what) \subseteq 1 .. Len(trail)
  BY <1>3, <1>4, OneMore DEF Entries
<1>6. \* No name was given under this key before.
      \A i \in Entries(trail, "renamed") : trail[i].key # None => trail[i].key # e.key
  <2>1. Claimed(t) = {}
    BY <1>1 DEF RenameWorkspace, GoesOn, Judged, WorkspaceWrites
  <2>2. \A c \in claims : ~(c.key = e.key /\ c.fingerprint.op = "rename")
    BY <1>1, <1>4, <2>1 DEF Claimed
  <2>3. QED
    BY <2>2 DEF TrailInv, KeysAreKept
<1>7. TheTrailTellsTheWorkspace'
  <2>1. workspace'.name = Said(trail', "renamed", n + 1, Unstated.name)
    BY <1>3, <1>4, SaidLast
  <2>2. Details[workspace'.stated] = Said(trail', "stated", n + 1, Details[Unstated.stated])
    BY <1>3, <1>4, SaidLast DEF TrailInv, TheTrailTellsTheWorkspace
  <2>4. \A i, j \in Entries(trail', "renamed") : trail'[i].key = trail'[j].key /\ trail'[i].key # None => i = j
    <3>1. SUFFICES ASSUME NEW i \in Entries(trail', "renamed"), NEW j \in Entries(trail', "renamed"),
                          trail'[i].key = trail'[j].key, trail'[i].key # None
                   PROVE  i = j
      OBVIOUS
    <3>2. CASE i \in Entries(trail, "renamed") /\ j \in Entries(trail, "renamed")
      <4>1. trail'[i] = trail[i] /\ trail'[j] = trail[j]
        BY <1>5, <3>2
      <4>2. QED
        BY <3>1, <3>2, <4>1 DEF TrailInv, TheTrailTellsTheWorkspace
    <3>3. CASE i = n
      BY <1>5, <1>6, <3>1, <3>3
    <3>4. CASE j = n
      BY <1>5, <1>6, <3>1, <3>4
    <3>5. QED
      BY <1>5, <3>2, <3>3, <3>4
  <2>5. \/ Entries(trail', "acknowledged") = {} /\ workspace'.consent = None
        \/ \E i \in Entries(trail', "acknowledged") :
             Entries(trail', "acknowledged") = {i} /\ workspace'.consent = trail'[i].by
    BY <1>4, <1>5 DEF TrailInv, TheTrailTellsTheWorkspace
  <2>6. QED
    BY <1>5, <2>1, <2>2, <2>4, <2>5 DEF TheTrailTellsTheWorkspace
<1>8. KeysAreKept'
  <2>1. ASSUME e.key # None
        PROVE  \E c \in claims' : c.key = e.key /\ c.fingerprint.op = "rename"
    <3>1. [key |-> e.key, fingerprint |-> Fingerprint(tx[t].request)] \in claims'
      BY <1>2, <1>4, <2>1 DEF Commit
    <3>2. Fingerprint(tx[t].request).op = "rename"
      BY <1>1 DEF Fingerprint, Request, Op
    <3>3. QED
      BY <3>1, <3>2
  <2>2. ASSUME NEW i \in Entries(trail, "renamed"), trail'[i].key # None
        PROVE  \E c \in claims' : c.key = trail'[i].key /\ c.fingerprint.op = "rename"
    BY <1>3, <1>5, <2>2 DEF TrailInv, KeysAreKept
  <2>3. QED
    BY <1>5, <2>1, <2>2 DEF KeysAreKept
<1>9. ReadStays'
  BY <1>3 DEF ReadStays
<1>10. QED
  BY <1>7, <1>8, <1>9 DEF TrailInv

LEMMA RecordTells ==
  ASSUME IInv, TrailInv, NEW t \in Txs, RecordPreferences(t), ~NothingNew(t),
         workspace.row = tx[t].seen.row
  PROVE  TrailInv'
<1> DEFINE what == IF Op(t) = "state" THEN "stated" ELSE "acknowledged"
           e == Entry(t, what)
           n == Len(trail) + 1
<1>1. /\ tx[t].pc = "record" /\ Op(t) \in Preferences /\ WorkspaceLock \in tx[t].locks
      /\ Caller(t) \in Accounts
  <2>1. tx[t].pc = "record" /\ TxInv(member, invite, t, tx[t]) /\ Caller(t) \in Accounts
    BY Asks DEF RecordPreferences, Ended
  <2>2. QED
    BY <2>1 DEF TxInv, InPlace, HoldsItsAuthority, Op, WorkspaceWrites
<1>2. /\ workspace' = [workspace EXCEPT !.row = TRUE, !.consent = SetConsent(t),
                          !.stated = IF Op(t) = "state" THEN tx[t].request.words ELSE @]
      /\ trail' = Recorded(t, what) /\ Commit(t) /\ workspace \in Workspace
  BY DEF RecordPreferences, IInv, TypeOK
<1>3. /\ e \in Event /\ trail \in Seq(Event) /\ trail' = Append(trail, e)
      /\ claims \subseteq claims' /\ \A u \in Txs : tx'[u].pc # "record"
  <2> HIDE DEF what
  <2>1. what \in {"renamed", "stated", "acknowledged"}
    BY DEF what
  <2>2. QED
    BY <1>1, <1>2, <2>1, OneEntry
<1>4. /\ e.what = what /\ e.by = Caller(t)
      /\ workspace'.name = workspace.name
      /\ Details[workspace'.stated] = IF what = "stated" THEN e.says ELSE Details[workspace.stated]
      /\ workspace'.consent = IF what = "acknowledged" /\ workspace.consent = None
                              THEN e.by ELSE workspace.consent
  BY <1>1, <1>2, EntryType DEF Workspace, SetConsent, Preferences
<1>5. /\ what = "acknowledged" => workspace.consent = None
      /\ what \in {"stated", "acknowledged"}
  BY <1>1 DEF TrailInv, ReadStays, NothingNew, Preferences
<1> HIDE DEF e, what
<1>6. /\ Len(trail') = n /\ n \in Nat /\ trail'[n] = e /\ \A i \in 1 .. Len(trail) : trail'[i] = trail[i]
      /\ \A w : Entries(trail', w) = Entries(trail, w) \cup (IF what = w THEN {n} ELSE {})
      /\ \A w : Entries(trail, w) \subseteq 1 .. Len(trail)
  BY <1>3, <1>4, OneMore DEF Entries
<1>7. Entries(trail', "renamed") = Entries(trail, "renamed")
  BY <1>5, <1>6
<1>8. TheTrailTellsTheWorkspace'
  <2>1. workspace'.name = Said(trail', "renamed", n + 1, Unstated.name)
    BY <1>3, <1>4, <1>5, SaidLast DEF TrailInv, TheTrailTellsTheWorkspace
  <2>2. Details[workspace'.stated] = Said(trail', "stated", n + 1, Details[Unstated.stated])
    BY <1>3, <1>4, <1>5, SaidLast DEF TrailInv, TheTrailTellsTheWorkspace
  <2>4. \A i, j \in Entries(trail', "renamed") : trail'[i].key = trail'[j].key /\ trail'[i].key # None => i = j
    BY <1>6, <1>7 DEF TrailInv, TheTrailTellsTheWorkspace
  <2>5. \/ Entries(trail', "acknowledged") = {} /\ workspace'.consent = None
        \/ \E i \in Entries(trail', "acknowledged") :
             Entries(trail', "acknowledged") = {i} /\ workspace'.consent = trail'[i].by
    <3>1. CASE what = "acknowledged"
      <4>1. Entries(trail, "acknowledged") = {}
        <5>1. ASSUME NEW i \in Entries(trail, "acknowledged") PROVE trail[i].by \in Accounts
          <6>1. i \in 1 .. Len(trail)
            BY <1>6, <5>1
          <6>2. trail[i] \in Event
            BY <1>3, <6>1
          <6>3. QED
            BY <6>2 DEF Event
        <5>2. QED
          BY <1>5, <3>1, <5>1, MembershipAssumption DEF TrailInv, TheTrailTellsTheWorkspace
      <4>2. Entries(trail', "acknowledged") = {n} /\ workspace'.consent = trail'[n].by
        BY <1>4, <1>5, <1>6, <3>1, <4>1
      <4>3. QED
        BY <4>2
    <3>2. CASE what = "stated"
      BY <1>4, <1>6, <3>2 DEF TrailInv, TheTrailTellsTheWorkspace
    <3>3. QED
      BY <1>5, <3>1, <3>2
  <2>6. QED
    BY <1>6, <2>1, <2>2, <2>4, <2>5 DEF TheTrailTellsTheWorkspace
<1>9. KeysAreKept'
  BY <1>3, <1>6, <1>7 DEF TrailInv, KeysAreKept
<1>10. ReadStays'
  BY <1>3 DEF ReadStays
<1>11. QED
  BY <1>8, <1>9, <1>10 DEF TrailInv

\* Nobody else touches the name, what is stated, the consent, or the trail.
LEMMA LeavesTheTrail ==
  ASSUME IInv, NEW t \in Txs, Step(t), ~RenameWorkspace(t),
         RecordPreferences(t) => NothingNew(t) \/ workspace.row # tx[t].seen.row
  PROVE  /\ UNCHANGED about /\ claims \subseteq claims'
         /\ tx'[t].pc = "record" => tx'[t].seen = workspace
<1>1. tx \in [Txs -> Transaction] /\ tx[t] \in Transaction
  BY Asks
<1>2. \A answer \in Ended : End(t, answer) => tx'[t].pc # "record"
  BY <1>1 DEF End, Idle, Ended
<1>3. Commit(t) => tx'[t].pc # "record" /\ claims \subseteq claims'
  BY <1>2 DEF Commit, Ended
<1>4. Refuse(t) \/ Answer(t) => UNCHANGED tables /\ tx'[t].pc # "record"
  BY <1>2 DEF Refuse, Answer, Ended
<1>5. \A place : Go(t, place) => tx'[t].pc = place
  BY <1>1 DEF Go, Transaction
<1>6. UNCHANGED tables => UNCHANGED about /\ claims \subseteq claims'
  BY DEF tables
<1>7. CASE Begin(t)
  BY <1>6, <1>7, BeginKeepsIInv DEF Begin
<1>8. CASE BindSession(t) \/ Touch(t)
  <2>1. Bind(Op(t)) # "record"
    BY DEF Bind
  <2>2. CASE BindSession(t)
    BY <1>1, <1>2, <1>6, <2>2 DEF BindSession, Ended, Transaction
  <2>3. CASE Touch(t)
    BY <1>1, <1>4, <1>6, <2>1, <2>3 DEF Touch, Transaction
  <2>4. QED
    BY <1>8, <2>2, <2>3
<1>9. CASE LockWorkspace(t) \/ ShareOwnRow(t) \/ CheckInvitee(t)
  BY <1>4, <1>5, <1>6, <1>9 DEF LockWorkspace, ShareOwnRow, CheckInvitee
<1>10. CASE Disclose(t) \/ Judge(t) \/ Abort(t) \/ RecordPreferences(t)
  BY <1>4, <1>6, <1>10 DEF Disclose, Judge, Abort, RecordPreferences
<1>11. CASE Remove(t) \/ ReadPreferences(t)
  BY <1>1, <1>6, <1>11 DEF Remove, ReadPreferences, Transaction
<1>12. CASE UnbindRow(t)
  <2>1. PICK a \in tx[t].todo :
          LET hit == IF session[a] = Target(t) THEN {a} ELSE {} IN
          /\ Free(t, L("session", a, 3))
          /\ tx' = [tx EXCEPT ![t].todo = @ \ {a}, ![t].unbound = @ \cup hit,
                              ![t].locks = @ \cup { L("session", b, 3) : b \in hit }]
    BY <1>12 DEF UnbindRow
  <2>2. tx[t].pc = "unbind" /\ UNCHANGED tables
    BY <1>12 DEF UnbindRow
  <2>3. tx'[t].pc = "unbind"
    BY <1>1, <2>1, <2>2 DEF Transaction
  <2>4. QED
    BY <1>6, <2>2, <2>3
<1>13. CASE CommitRemoval(t) \/ ChangeRole(t) \/ InsertInvitation(t) \/ RevokeInvitation(t)
  BY <1>3, <1>4, <1>6, <1>13 DEF CommitRemoval, ChangeRole, InsertInvitation, RevokeInvitation
<1>14. CASE IssueCredential(t) \/ RotateCredential(t) \/ RevokeCredential(t)
  BY <1>3, <1>14 DEF IssueCredential, RotateCredential, RevokeCredential
<1>15. CASE LockInvitation(t) \/ InsertMembership(t)
  BY <1>2, <1>3, <1>4, <1>5, <1>6, <1>15 DEF LockInvitation, InsertMembership, Ended
<1>16. CASE SelectWorkspace(t) \/ CommitSession(t)
  <2>1. CASE CommitSession(t)
    BY <1>2, <2>1 DEF CommitSession, Ended
  <2>2. CASE SelectWorkspace(t) /\ MemberRows(Caller(t)) = {}
    BY <1>4, <1>6, <2>2 DEF SelectWorkspace
  <2>3. CASE SelectWorkspace(t) /\ MemberRows(Caller(t)) # {}
    <3>1. PICK m \in MemberRows(Caller(t)) :
            tx' = [tx EXCEPT ![t].pc = "commit", ![t].request.as = m] /\ UNCHANGED tables
      BY <2>3 DEF SelectWorkspace
    <3>2. tx'[t].pc = "commit"
      BY <1>1, <3>1 DEF Transaction
    <3>3. QED
      BY <1>6, <3>1, <3>2
  <2>4. QED
    BY <1>16, <2>1, <2>2, <2>3
<1>17. QED
  BY <1>7, <1>8, <1>9, <1>10, <1>11, <1>12, <1>13, <1>14, <1>15, <1>16 DEF Step

LEMMA StepKeepsTrailInv == IInv /\ TrailInv /\ [Next]_vars => TrailInv'
<1> SUFFICES ASSUME IInv, TrailInv, [Next]_vars PROVE TrailInv'
  OBVIOUS
<1>1. ASSUME NEW t \in Txs, Step(t) PROVE TrailInv'
  <2>1. CASE RenameWorkspace(t)
    BY <2>1, RenameTells
  <2>2. CASE RecordPreferences(t) /\ ~NothingNew(t) /\ workspace.row = tx[t].seen.row
    BY <2>2, RecordTells
  <2>3. CASE ~RenameWorkspace(t)
             /\ (RecordPreferences(t) => NothingNew(t) \/ workspace.row # tx[t].seen.row)
    BY <1>1, <2>3, LeavesTheTrail, OthersWait, NothingTold
  <2>4. QED
    BY <2>1, <2>2, <2>3
<1>2. CASE (\E i \in Rows : Expire(i)) \/ Done \/ UNCHANGED vars
  BY <1>2, NothingTold DEF Expire, Done, vars, tables
<1>3. QED
  BY <1>1, <1>2 DEF Next

LEMMA TrailInvariant == Spec => []TrailInv
<1>1. Init => TrailInv
  <2> SUFFICES ASSUME Init PROVE TrailInv
    OBVIOUS
  <2>1. workspace = Unstated /\ trail = <<>> /\ tx = [t \in Txs |-> Idle]
    BY Zenon DEF Init
  <2>2. \A what : Entries(trail, what) = {}
    BY <2>1 DEF Entries
  <2>3. TheTrailTellsTheWorkspace
    BY <2>1, <2>2 DEF TheTrailTellsTheWorkspace, Said, Unstated
  <2>4. QED
    BY <2>1, <2>2, <2>3 DEF TrailInv, KeysAreKept, ReadStays, Idle
<1>2. QED
  BY <1>1, Invariant, StepKeepsTrailInv, PTL DEF Spec

-----------------------------------------------------------------------------
(***************************************************************************)
(* Theorems                                                                *)
(***************************************************************************)

\* Every state is well typed, and at no time do two transactions hold locks that
\* conflict.
THEOREM TypeCorrect == Spec => []TypeOK
<1>1. IInv => TypeOK
  BY DEF IInv
<1>2. QED
  BY <1>1, Invariant, PTL

\* However removals, demotions, changes of role and acceptances of any number of
\* callers interleave, the workspace has an owner.
THEOREM AlwaysAnOwner == Spec => []AnOwnerRemains
<1>1. IInv => AnOwnerRemains
  BY DEF IInv
<1>2. QED
  BY <1>1, Invariant, PTL

\* No credential outlives its membership or exceeds the member's present role.
THEOREM CredentialsAlwaysFollow == Spec => []CredentialsFollowTheRole
<1>1. IInv => CredentialsFollowTheRole
  BY DEF IInv
<1>2. QED
  BY <1>1, Invariant, PTL

\* A member is never invited still, and nobody twice.
THEOREM InvitationsAreSpent == Spec => []NoInvitationIsLeftOver
<1>1. IInv => NoInvitationIsLeftOver
  BY DEF IInv
<1>2. QED
  BY <1>1, Invariant, PTL

\* An answered request was authorised by the membership and the role its caller has
\* when it is answered, and only owners make, unmake or invite owners.
THEOREM AuthorityIsAlwaysCurrent == Spec => AuthorityIsCurrent
<1>1. IInv /\ [Next]_vars =>
        [\A t \in Txs :
           tx[t].pc # "answered" /\ tx'[t].pc = "answered" /\ Op(t) \notin AccountMode =>
             /\ Authorised(t)
             /\ \/ Owners' # Owners
                \/ \E i \in Rows : Pending(i)' /\ ~Pending(i) /\ invite'[i].role = "owner"
                => MyRole(t) = "owner"]_vars
  <2> SUFFICES ASSUME IInv, Next, NEW t \in Txs, tx[t].pc # "answered", tx'[t].pc = "answered",
                      Op(t) \notin AccountMode
               PROVE  Authorised(t) /\ (Gains => MyRole(t) = "owner")
    BY DEF Gains
  <2>1. PICK u \in Txs : Step(u)
    BY DEF Next, Expire, Done, vars
  <2>2. u = t
    BY <2>1, OthersWait
  <2>3. QED
    BY <2>1, <2>2, AuthorityStep
<1>2. QED
  BY <1>1, Invariant, PTL DEF Spec, AuthorityIsCurrent

\* The trail tells the name and the statement in force, each change of the statement
\* and each keyed name once, and the consent once, with who gave it.
THEOREM TheTrailAlwaysTells == Spec => []TheTrailTellsTheWorkspace
<1>1. TrailInv => TheTrailTellsTheWorkspace
  BY DEF TrailInv
<1>2. QED
  BY <1>1, TrailInvariant, PTL
=============================================================================
