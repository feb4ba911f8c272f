---------------------------- MODULE AccountPlane ----------------------------
(***************************************************************************)
(* One customer account: its password and security epoch, the one-time     *)
(* tokens mailed to its owner, its browser sessions and API credentials    *)
(* (migrations 0005, 0006 and 0007 of control_plane/db).                   *)
(*                                                                         *)
(* Each member of Txs is one database transaction running one operation,   *)
(* whose statements interleave with the others' at the row locks they      *)
(* take.  PostgreSQL is modelled by what the functions rely on:            *)
(*   - READ COMMITTED: a statement reads what is committed when it starts; *)
(*   - an UPDATE or FOR UPDATE waits for the holder of a row, and then     *)
(*     looks at the row as it was committed before touching it;            *)
(*   - the foreign key of a new row takes a shared lock on the account,    *)
(*     which only FOR UPDATE keeps waiting;                                *)
(*   - every lock is kept until the transaction ends, and a transaction    *)
(*     waiting in a circle is aborted.                                     *)
(* A row inserted by a transaction carries its name; expiry is left out,   *)
(* and so are the operations on workspaces.                                *)
(***************************************************************************)
EXTENDS Naturals

CONSTANTS
  Txs,      \* the transactions of a behaviour
  Ops,      \* the operations they may run, see Operation
  Before    \* whatever was there before them

Operation == {"request_verification", "request_recovery", "verify", "recover",
              "login", "change", "issue", "sign_out", "end_others", "end_all"}

ASSUME AccountAssumption == Ops \subseteq Operation /\ Before \notin Txs

Tokens == {"verification", "recovery"}
Tables == Tokens \cup {"session", "credential"}
Rows == [table : Tables, by : Txs \cup {Before}]

\* Operations that lock the account row before anything else of the account.
AccountFirst == {"verify", "recover", "login", "change"}
Rekeying == {"recover", "change"}
TokenRequests == {"request_verification", "request_recovery"}
SessionBound == {"issue", "sign_out", "end_others", "end_all"}

VARIABLES
  account,   \* committed: accounts.status, security_epoch and the password
  row,       \* [Rows -> committed row]
  tx         \* [Txs -> transaction]

vars == <<account, row, tx>>

Epochs == Nat
Account == [active : BOOLEAN, epoch : Epochs, password : Txs \cup {Before}]

\* A row is live until it is consumed, superseded or revoked.  A credential is
\* stamped with an epoch; password is the one a session was opened under.
Row == [state : {"absent", "live", "ended"}, epoch : Epochs,
        password : Txs \cup {Before}]

NoRow == [state |-> "absent", epoch |-> 0, password |-> Before]

Places == {"idle", "account", "token", "challenge", "touch", "tokens", "tokenRows",
           "rekey", "sessions", "sessionRows", "insert", "commit", "done"}

Transaction ==
  [op : Operation \cup {"none"}, pc : Places,
   target : Rows,        \* the token or session presented
   seen : Account,       \* the account when the operation first read it
   held : SUBSET Rows,   \* rows locked
   owner : BOOLEAN,      \* holds the account row FOR UPDATE
   shares : BOOLEAN,     \* holds the account row FOR KEY SHARE
   todo : SUBSET Rows,   \* rows the running UPDATE matched and has not visited
   dead : SUBSET Rows,   \* rows it consumed, superseded or revoked
   rekeys : BOOLEAN,     \* it replaced the password and advanced the epoch
   born : SUBSET Rows,   \* rows it inserted
   stamp : Epochs]       \* the epoch read for a new credential

Idle(t) ==
  [op |-> "none", pc |-> "idle", target |-> [table |-> "session", by |-> t],
   seen |-> [active |-> FALSE, epoch |-> 0, password |-> Before],
   held |-> {}, owner |-> FALSE, shares |-> FALSE, todo |-> {}, dead |-> {},
   rekeys |-> FALSE, born |-> {}, stamp |-> 0]

\* Types, and no two transactions hold the same lock.
TypeOK ==
  /\ account \in Account
  /\ row \in [Rows -> Row]
  /\ tx \in [Txs -> Transaction]
  /\ \A t, u \in Txs : t # u =>
       /\ tx[t].held \cap tx[u].held = {}
       /\ tx[t].owner => ~tx[u].owner /\ ~tx[u].shares

(***************************************************************************)
(* An account that has just signed up, with its first verification link;   *)
(* or an active one with a session, a credential and a recovery link.      *)
(***************************************************************************)
Init ==
  /\ account \in [active : BOOLEAN, epoch : {0}, password : {Before}]
  /\ row = [r \in Rows |-> [NoRow EXCEPT !.state =
              IF r.by # Before \/ (~account.active /\ r.table # "verification") THEN "absent"
              ELSE IF account.active /\ r.table = "verification" THEN "ended" ELSE "live"]]
  /\ tx = [t \in Txs |-> Idle(t)]

(***************************************************************************)
(* Locks                                                                   *)
(***************************************************************************)
Others(t) == Txs \ {t}
HoldersOf(r, t) == { u \in Others(t) : r \in tx[u].held }

\* The row an operation inserts: a token, a session or a credential.
NewTable == [request_verification |-> "verification", request_recovery |-> "recovery",
             login |-> "session", change |-> "session", issue |-> "credential"]
NewRow(t) == [table |-> NewTable[tx[t].op], by |-> t]

\* A new session or token refers to the account; a credential does not
\* (auth_bindings.principal_id is no foreign key).
Refers(r) == r.table # "credential"

\* Where it is, t needs a lock that u holds.
Blocks(u, t) ==
  \/ tx[t].pc = "account" /\ (tx[u].owner \/ tx[u].shares)
  \/ tx[t].pc \in {"token", "touch"} /\ tx[t].target \in tx[u].held
  \/ tx[t].pc \in {"tokenRows", "sessionRows"} /\ tx[t].todo \cap tx[u].held # {}
  \/ tx[t].pc = "insert" /\ Refers(NewRow(t)) /\ tx[u].owner

WaitsFor(t) == { u \in Others(t) : Blocks(u, t) }

\* C waits in a circle: none of its members moves before another one does.
Circle(C) == C # {} /\ \A t \in C : WaitsFor(t) \cap C # {}

Go(t, place) == tx' = [tx EXCEPT ![t].pc = place]
End(t) == tx' = [tx EXCEPT ![t] = [Idle(t) EXCEPT !.op = tx[t].op, !.pc = "done"]]
Start(t, op, target, place) ==
  /\ op \in Ops /\ tx[t].pc = "idle"
  /\ tx' = [tx EXCEPT ![t].op = op, ![t].target = target, ![t].seen = account,
                      ![t].pc = place]
  /\ UNCHANGED <<account, row>>

(***************************************************************************)
(* How each operation starts: the read that does not lock.                 *)
(***************************************************************************)
RequestVerification(t) ==
  ~account.active /\ Start(t, "request_verification", Idle(t).target, "tokens")

RequestRecovery(t) == Start(t, "request_recovery", Idle(t).target, "tokens")

\* Mutant: the order of 0005, the presented row locked before the account's.
PresentLocking(t, op, table) ==
  \E r \in Rows :
    /\ r.table = table /\ row[r].state # "absent" /\ HoldersOf(r, t) = {}
    /\ op \in Ops /\ tx[t].pc = "idle"
    /\ tx' = [tx EXCEPT ![t].op = op, ![t].target = r, ![t].seen = account,
                        ![t].held = {r}, ![t].pc = "account"]
    /\ UNCHANGED <<account, row>>

\* The link names a token that was committed; whether it still works is decided
\* under the account row.
Present(t, op, table) ==
  \E r \in Rows : /\ r.table = table /\ row[r].state # "absent"
                  /\ Start(t, op, r, "account")

Verify(t) == Present(t, "verify", "verification")
Recover(t) == Present(t, "recover", "recovery")

\* login_lookup, and the password checked against the hash it returned.
Login(t) == Start(t, "login", Idle(t).target, "account")

\* The session was bound by an earlier transaction, so it may have ended since.
Change(t) == Present(t, "change", "session")

\* bind_session_context reads the session.
Bind(t, op) ==
  \E r \in Rows : /\ r.table = "session" /\ row[r].state = "live"
                  /\ Start(t, op, r, "touch")

Begin(t) ==
  \/ RequestVerification(t) \/ RequestRecovery(t)
  \/ Verify(t) \/ Recover(t) \/ Login(t) \/ Change(t)
  \/ \E op \in SessionBound : Bind(t, op)

(***************************************************************************)
(* The account row FOR UPDATE.                                             *)
(***************************************************************************)
LockAccount(t) ==
  /\ tx[t].pc = "account"
  /\ WaitsFor(t) = {}
  /\ tx' = [tx EXCEPT ![t].owner = TRUE,
                      ![t].pc = IF tx[t].op \in {"verify", "recover"} THEN "token" ELSE "challenge"]
  /\ UNCHANGED <<account, row>>

(***************************************************************************)
(* verify and recover: the token, re-read and locked under the account.    *)
(* One that no longer works ends the operation, which changes nothing.     *)
(***************************************************************************)
\* Mutant: the decision rests on the read made before the account was locked.
TokenWorksUnread(t) == TRUE

TokenWorks(t) == row[tx[t].target].state = "live"

LockToken(t) ==
  /\ tx[t].pc = "token"
  /\ WaitsFor(t) = {}
  /\ IF TokenWorks(t)
       THEN tx' = [tx EXCEPT ![t].held = @ \cup {tx[t].target},
                             ![t].dead = @ \cup {tx[t].target},
                             ![t].pc = IF tx[t].op = "recover" THEN "tokens" ELSE "commit"]
       ELSE End(t)
  /\ UNCHANGED <<account, row>>

(***************************************************************************)
(* login and change, under the account row: the account is active, login   *)
(* finds the epoch of the password it checked, change finds its session    *)
(* live and reads the hash its caller's password is checked against.       *)
(***************************************************************************)
\* Mutant: the epochs are not compared.
SameEpochUnchecked(t) == TRUE

SameEpoch(t) == account.epoch = tx[t].seen.epoch

Challenge(t) ==
  /\ tx[t].pc = "challenge"
  /\ \/ /\ tx[t].op = "login" /\ account.active /\ SameEpoch(t)
        /\ Go(t, "insert")
     \/ /\ tx[t].op = "change" /\ account.active /\ row[tx[t].target].state = "live"
        /\ tx' = [tx EXCEPT ![t].seen = account, ![t].pc = "tokens"]
     \/ /\ ~account.active \/ IF tx[t].op = "login" THEN ~SameEpoch(t)
                                                   ELSE row[tx[t].target].state # "live"
        /\ End(t)
  /\ UNCHANGED <<account, row>>

(***************************************************************************)
(* Bound operations: last_seen_at is written whatever became of the        *)
(* session while its row was waited for.                                   *)
(***************************************************************************)

Touch(t) ==
  /\ tx[t].pc = "touch"
  /\ WaitsFor(t) = {}
  /\ tx' = [tx EXCEPT ![t].held = @ \cup {tx[t].target},
                      ![t].pc = IF tx[t].op = "issue" THEN "insert" ELSE "sessions"]
  /\ UNCHANGED <<account, row>>

(***************************************************************************)
(* The UPDATEs over many rows.  One matches the rows live when it starts   *)
(* and visits them in some order; a row it waited for is looked at again.  *)
(***************************************************************************)
\* Mutant: a recovery or a change supersedes recovery tokens alone.
EndsRecoveryTokens(t, r) ==
  \/ tx[t].op \in TokenRequests /\ r.table = NewTable[tx[t].op]
  \/ tx[t].pc = "tokens" /\ r.table = "recovery"
  \/ tx[t].pc = "sessions" /\ r.table = "session"

Ends(t, r) ==
  \/ tx[t].op \in TokenRequests /\ r.table = NewTable[tx[t].op]
  \/ tx[t].op \in Rekeying /\ tx[t].pc = "tokens" /\ r.table \in Tokens
  \/ tx[t].op \in Rekeying \cup {"end_all"} /\ tx[t].pc = "sessions" /\ r.table = "session"
  \/ tx[t].op = "end_others" /\ r.table = "session" /\ r # tx[t].target
  \/ tx[t].op = "sign_out" /\ r = tx[t].target

Matched(t) == { r \in Rows \ tx[t].dead : row[r].state = "live" /\ Ends(t, r) }

StartUpdate(t) ==
  /\ tx[t].pc \in {"tokens", "sessions"}
  /\ tx' = [tx EXCEPT ![t].todo = Matched(t),
                      ![t].pc = IF @ = "tokens" THEN "tokenRows" ELSE "sessionRows"]
  /\ UNCHANGED <<account, row>>

UpdateRow(t) ==
  /\ tx[t].pc \in {"tokenRows", "sessionRows"}
  /\ \E r \in tx[t].todo :
       /\ HoldersOf(r, t) = {}
       /\ LET hit == IF row[r].state = "live" THEN {r} ELSE {}
          IN  tx' = [tx EXCEPT ![t].todo = @ \ {r}, ![t].held = @ \cup hit,
                               ![t].dead = @ \cup hit]
  /\ UNCHANGED <<account, row>>

AfterUpdate(t) ==
  IF tx[t].pc = "tokenRows"
    THEN IF tx[t].op \in TokenRequests THEN "insert" ELSE "rekey"
    ELSE IF tx[t].op = "change" THEN "insert" ELSE "commit"

UpdateDone(t) ==
  /\ tx[t].pc \in {"tokenRows", "sessionRows"} /\ tx[t].todo = {}
  /\ Go(t, AfterUpdate(t))
  /\ UNCHANGED <<account, row>>

(***************************************************************************)
(* recover and change: the new password (change compares it with the one   *)
(* it read), the next epoch, and the bindings that are committed by then.  *)
(***************************************************************************)
Credentials == { r \in Rows : r.table = "credential" /\ row[r].state = "live" }

Rekey(t) ==
  /\ tx[t].pc = "rekey"
  /\ IF tx[t].op = "change" /\ account.password # tx[t].seen.password
       THEN End(t)
       ELSE tx' = [tx EXCEPT ![t].rekeys = TRUE, ![t].dead = @ \cup Credentials,
                             ![t].pc = "sessions"]
  /\ UNCHANGED <<account, row>>

(***************************************************************************)
(* The new row: the token of a request, the session of login and change,   *)
(* the credential of issue, stamped with the epoch committed now.          *)
(***************************************************************************)
Insert(t) ==
  /\ tx[t].pc = "insert"
  /\ WaitsFor(t) = {}
  /\ tx' = [tx EXCEPT ![t].born = {NewRow(t)}, ![t].stamp = account.epoch,
                      ![t].shares = @ \/ Refers(NewRow(t)), ![t].pc = "commit"]
  /\ UNCHANGED <<account, row>>

Commit(t) ==
  /\ tx[t].pc = "commit"
  /\ account' = [active |-> account.active \/ tx[t].op \in {"verify", "recover"},
                 epoch |-> IF tx[t].rekeys THEN account.epoch + 1 ELSE account.epoch,
                 password |-> IF tx[t].rekeys THEN t ELSE account.password]
  /\ row' = [r \in Rows |->
               IF r \in tx[t].born
                 THEN [state |-> "live", epoch |-> tx[t].stamp,
                       password |-> IF tx[t].rekeys THEN t ELSE tx[t].seen.password]
               ELSE IF r \in tx[t].dead THEN [row[r] EXCEPT !.state = "ended"]
               ELSE row[r]]
  /\ End(t)

\* The client goes away, a statement times out, the server restarts, or
\* PostgreSQL picks this transaction to break a circle.
Abort(t) == /\ tx[t].pc \notin {"idle", "done"}
            /\ End(t)
            /\ UNCHANGED <<account, row>>

Step(t) ==
  \/ LockAccount(t) \/ LockToken(t) \/ Challenge(t) \/ Touch(t)
  \/ StartUpdate(t) \/ UpdateRow(t) \/ UpdateDone(t) \/ Rekey(t)
  \/ Insert(t) \/ Commit(t)

Done == (\A t \in Txs : tx[t].pc = "done") /\ UNCHANGED vars

Next ==
  \/ \E t \in Txs : Begin(t) \/ Step(t) \/ Abort(t)
  \/ Done

Spec == Init /\ [][Next]_vars

(***************************************************************************)
(* Properties                                                              *)
(***************************************************************************)

\* What can still act for the account: a credential of an earlier epoch is
\* refused by bind_authenticated_context, whatever its row says.
Usable(r) == /\ row[r].state = "live"
             /\ r.table = "credential" => row[r].epoch = account.epoch

\* Every live session was opened with the password the account has now: no login
\* that checked the old one slips past a recovery or a change (0005, the
\* recovery/login race).
SessionsAreCurrent ==
  \A r \in Rows :
    r.table = "session" /\ row[r].state = "live" => row[r].password = account.password

\* A mailed link acts at most once, and only while it is neither consumed nor
\* superseded by what committed while the account row was waited for (0006).
TokensActWhileLive ==
  [][\A t \in Txs :
       tx[t].pc = "commit" /\ tx[t].op \in {"verify", "recover"} /\ row' # row
         => row[tx[t].target].state = "live"]_vars

\* When a recovery or a change commits, every token, session and credential
\* committed before it has lost its effect, those that were committed while it
\* ran included (0007, complete_account_recovery).
AnAdvanceEndsWhatCameBefore ==
  [][account'.epoch # account.epoch => \A r \in Rows : row[r].state = "live" => ~Usable(r)']_vars

\* The lock order of 0006: the operations that take the account row first never
\* wait for one another in a circle.
WritersNeverWaitInACircle ==
  \A C \in SUBSET { t \in Txs : tx[t].op \in AccountFirst } : ~Circle(C)

=============================================================================
