---------------------------- MODULE AccountProofs ----------------------------
(***************************************************************************)
(* Proofs about AccountPlane, for any number of transactions; and about    *)
(* PortalSession, which shows an account, for any number of sessions,      *)
(* workspaces and events.                                                  *)
(***************************************************************************)
EXTENDS AccountPlane, PortalSession, FiniteSetTheorems, TLAPS

AfterTokens == {"rekey", "sessions", "sessionRows", "insert", "commit"}
AfterSessions == {"insert", "commit"}
AfterRekey == {"sessions", "sessionRows"} \cup AfterSessions

\* Where an operation may be.
InPlace(x) ==
  \/ x.op = "none" /\ x.pc = "idle"
  \/ x.op # "none" /\ x.pc = "done"
  \/ x.op = "verify" /\ x.pc \in {"account", "token", "commit"}
  \/ x.op = "recover" /\ x.pc \in {"account", "token", "tokens", "tokenRows", "rekey",
                                  "sessions", "sessionRows", "commit"}
  \/ x.op = "login" /\ x.pc \in {"account", "challenge", "insert", "commit"}
  \/ x.op = "change" /\ x.pc \in {"account", "challenge", "tokens", "tokenRows", "rekey",
                                 "sessions", "sessionRows", "insert", "commit"}
  \/ x.op \in TokenRequests /\ x.pc \in {"tokens", "tokenRows", "insert", "commit"}
  \/ x.op = "issue" /\ x.pc \in {"touch", "insert", "commit"}
  \/ x.op \in SessionBound \ {"issue"} /\ x.pc \in {"touch", "sessions", "sessionRows", "commit"}

LiveIn(tables) == { r \in Rows : r.table \in tables /\ row[r].state = "live" }

-----------------------------------------------------------------------------
(***************************************************************************)
(* What is true of a transaction x running as t, given what is committed.  *)
(***************************************************************************)
\* Before it starts it has nothing; before it ends nothing of it is committed.
IsolatedUntilCommit(t, x) ==
  /\ x.pc = "idle" => x = Idle(t)
  /\ x.pc # "done" => \A r \in Rows : r.by = t => row[r].state = "absent"

\* An operation that takes the account first holds it wherever it holds or
\* decides anything; no other operation ever does.
HoldsTheAccount(x) ==
  /\ InPlace(x)
  /\ x.owner => x.op \in AccountFirst
  /\ x.op \in AccountFirst /\ x.pc \notin {"account", "done"} => x.owner
  /\ x.op \in AccountFirst /\ (x.held # {} \/ x.shares) => x.owner

\* A row it will end exists and is locked, but for the credentials of a rekeying.
EndsWhatItHolds(x) ==
  /\ \A r \in x.dead : /\ row[r].state # "absent"
                       /\ Refers(r) => r \in x.held
  /\ x.rekeys <=> x.op \in Rekeying /\ x.pc \in AfterRekey

\* A row it will insert keeps the account from being locked.
SharesForWhatIsBorn(t, x) ==
  /\ x.born # {} => x.pc = "commit" /\ x.stamp <= account.epoch
  /\ \A r \in x.born :
       /\ r.by = t
       /\ Refers(r) => x.shares
       /\ r.table = "session" => x.op \in {"login", "change"}

\* The token a verification or a recovery acts on is live and locked.
ActsOnALiveToken(x) ==
  x.op \in {"verify", "recover"} /\ x.pc # "done" =>
    /\ x.target.table \in Tokens
    /\ x.pc \notin {"account", "token"} =>
         x.target \in x.held /\ row[x.target].state = "live"

\* A login knows the password of its epoch.
KnowsThePassword(x) ==
  x.op = "login" /\ x.pc # "done" =>
    /\ x.seen.epoch <= account.epoch
    /\ x.seen.epoch = account.epoch => x.seen.password = account.password
    /\ x.pc \in {"insert", "commit"} => x.seen.epoch = account.epoch

\* The two sweeps of a rekeying leave nothing behind.
Sweeps(x) ==
  x.op \in Rekeying =>
    /\ x.pc = "tokenRows" => LiveIn(Tokens) \subseteq x.dead \cup x.todo
    /\ x.pc \in AfterTokens => LiveIn(Tokens) \subseteq x.dead
    /\ x.pc = "sessionRows" => LiveIn({"session"}) \subseteq x.dead \cup x.todo
    /\ x.pc \in AfterSessions => LiveIn({"session"}) \subseteq x.dead

TxInv(t, x) ==
  /\ IsolatedUntilCommit(t, x)
  /\ HoldsTheAccount(x)
  /\ EndsWhatItHolds(x)
  /\ SharesForWhatIsBorn(t, x)
  /\ ActsOnALiveToken(x)
  /\ KnowsThePassword(x)
  /\ Sweeps(x)

StampsAreOld == \A r \in Rows : row[r].epoch <= account.epoch

IInv ==
  /\ TypeOK
  /\ SessionsAreCurrent
  /\ StampsAreOld
  /\ \A t \in Txs : TxInv(t, tx[t])

\* Locks of x do not clash with those of the transactions other than t.
Compatible(t, x) ==
  \A u \in Others(t) :
    /\ x.held \cap tx[u].held = {}
    /\ x.owner => ~tx[u].owner /\ ~tx[u].shares
    /\ tx[u].owner => ~x.owner /\ ~x.shares

-----------------------------------------------------------------------------
LEMMA IdleType == \A t \in Txs : Idle(t) \in Transaction
<1> TAKE t \in Txs
<1>1. [table |-> "session", by |-> t] \in Rows
  BY DEF Rows, Tables, Tokens
<1>2. [active |-> FALSE, epoch |-> 0, password |-> Before] \in Account
  BY DEF Account, Epochs
<1>3. QED
  BY <1>1, <1>2 DEF Idle, Transaction, Operation, Places, Epochs

LEMMA InitIInv == Init => IInv
<1> SUFFICES ASSUME Init PROVE IInv
  OBVIOUS
<1>1. account \in Account /\ account.epoch = 0 /\ account.password = Before
  BY DEF Init, Account, Epochs
<1>2. \A r \in Rows : row[r] \in Row /\ row[r].epoch = 0 /\ row[r].password = Before
  BY DEF Init, Row, NoRow, Epochs
<1>3. \A t \in Txs : tx[t] = Idle(t)
  BY DEF Init
<1>4. \A t \in Txs : Idle(t) \in Transaction
  BY IdleType
<1>5. TypeOK
  <2>1. row \in [Rows -> Row] /\ tx \in [Txs -> Transaction]
    BY <1>2, <1>3, <1>4 DEF Init
  <2>2. QED
    BY <1>1, <1>3, <2>1 DEF TypeOK, Idle
<1>6. SessionsAreCurrent /\ StampsAreOld
  BY <1>1, <1>2 DEF SessionsAreCurrent, StampsAreOld
<1>7. \A t \in Txs : TxInv(t, Idle(t))
  <2> TAKE t \in Txs
  <2> DEFINE x == Idle(t)
  <2>1. /\ x.op = "none" /\ x.pc = "idle" /\ x.held = {} /\ ~x.owner /\ ~x.shares
        /\ x.dead = {} /\ ~x.rekeys /\ x.born = {}
    BY DEF Idle
  <2> HIDE DEF x
  <2>2. IsolatedUntilCommit(t, x)
    <3>1. \A r \in Rows : r.by = t => row[r].state = "absent"
      BY AccountAssumption DEF Init, NoRow
    <3>2. QED
      BY <2>1, <3>1 DEF IsolatedUntilCommit, x
  <2>3. TxInv(t, x)
    BY <2>1, <2>2 DEF TxInv, InPlace, HoldsTheAccount, EndsWhatItHolds, SharesForWhatIsBorn,
       ActsOnALiveToken, KnowsThePassword, Sweeps, AccountFirst, Rekeying
  <2>4. QED
    BY <2>3 DEF x
<1>8. QED
  BY <1>3, <1>5, <1>6, <1>7 DEF IInv

\* A step of t that commits nothing has only to keep what is true of t.
LEMMA LocalStep ==
  ASSUME IInv, NEW t \in Txs, NEW x \in Transaction, UNCHANGED <<account, row>>,
         tx' = [tx EXCEPT ![t] = x], TxInv(t, x), Compatible(t, x)
  PROVE IInv'
<1>1. tx' \in [Txs -> Transaction] /\ tx'[t] = x /\ \A u \in Txs : u # t => tx'[u] = tx[u]
  BY DEF IInv, TypeOK
<1>2. TypeOK'
  <2>1. ASSUME NEW u \in Txs, NEW v \in Txs, u # v
        PROVE /\ tx'[u].held \cap tx'[v].held = {}
              /\ tx'[u].owner => ~tx'[v].owner /\ ~tx'[v].shares
    <3>1. CASE u = t
      BY <1>1, <2>1, <3>1 DEF Compatible, Others
    <3>2. CASE v = t
      BY <1>1, <2>1, <3>2 DEF Compatible, Others
    <3>3. CASE u # t /\ v # t
      BY <1>1, <2>1, <3>3 DEF IInv, TypeOK
    <3>4. QED
      BY <3>1, <3>2, <3>3
  <2>2. QED
    BY <1>1, <2>1 DEF IInv, TypeOK
<1>3. SessionsAreCurrent' /\ StampsAreOld'
  BY DEF IInv, SessionsAreCurrent, StampsAreOld
<1>4. ASSUME NEW u \in Txs PROVE TxInv(u, tx[u])' <=> TxInv(u, tx'[u])
  BY DEF TxInv, IsolatedUntilCommit, HoldsTheAccount, EndsWhatItHolds, SharesForWhatIsBorn, ActsOnALiveToken,
         KnowsThePassword, Sweeps, LiveIn
<1>5. \A u \in Txs : TxInv(u, tx'[u])
  BY <1>1 DEF IInv
<1>6. QED
  BY <1>2, <1>3, <1>4, <1>5 DEF IInv

\* t's locks stay apart from the others' when it takes rows nobody else holds.
LEMMA RowsOnly ==
  ASSUME IInv, NEW t \in Txs, NEW x \in Transaction, x.owner = tx[t].owner,
         x.shares = tx[t].shares, x.held = tx[t].held
                                  \/ \E r : HoldersOf(r, t) = {} /\ x.held = tx[t].held \cup {r}
  PROVE Compatible(t, x)
<1> SUFFICES ASSUME NEW u \in Others(t)
             PROVE /\ x.held \cap tx[u].held = {}
                   /\ x.owner => ~tx[u].owner /\ ~tx[u].shares
                   /\ tx[u].owner => ~x.owner /\ ~x.shares
  BY DEF Compatible
<1>1. u \in Txs /\ u # t /\ tx[t].held \cap tx[u].held = {}
  BY DEF Others, IInv, TypeOK
<1>2. x.held \cap tx[u].held = {}
  BY <1>1 DEF HoldersOf
<1>3. QED
  BY <1>1, <1>2 DEF IInv, TypeOK

\* Ending without committing.
LEMMA EndKeepsIInv ==
  ASSUME IInv, NEW t \in Txs, End(t), UNCHANGED <<account, row>>, tx[t].op # "none"
  PROVE IInv'
<1> DEFINE x == [Idle(t) EXCEPT !.op = tx[t].op, !.pc = "done"]
<1>1. /\ x.op = tx[t].op /\ x.pc = "done" /\ x.held = {} /\ ~x.owner /\ ~x.shares
      /\ x.dead = {} /\ ~x.rekeys /\ x.born = {}
  BY DEF Idle
<1>2. x \in Transaction
  <2>1. tx[t] \in Transaction /\ Idle(t) \in Transaction
    BY IdleType DEF IInv, TypeOK
  <2>2. QED
    BY <2>1 DEF Transaction, Places
<1>3. tx' = [tx EXCEPT ![t] = x]
  BY DEF End
<1> HIDE DEF x
<1>4. x.op \in Operation
  BY <1>2, <1>1 DEF IInv, TypeOK, Transaction
<1>5. TxInv(t, x)
  <2>1. IsolatedUntilCommit(t, x)
    BY <1>1 DEF IsolatedUntilCommit
  <2>2. InPlace(x)
    BY <1>1 DEF InPlace
  <2>3. ActsOnALiveToken(x)
    BY <1>1 DEF ActsOnALiveToken
  <2>4. QED
    BY <1>1, <2>1, <2>2, <2>3 DEF TxInv, HoldsTheAccount, EndsWhatItHolds,
       SharesForWhatIsBorn, KnowsThePassword, Sweeps, AfterRekey, AfterTokens, AfterSessions
<1>6. Compatible(t, x)
  BY <1>1 DEF Compatible
<1>7. QED
  BY <1>2, <1>3, <1>5, <1>6, LocalStep

LEMMA StartKeepsIInv ==
  ASSUME IInv, NEW t \in Txs, NEW op \in Operation, NEW target \in Rows, NEW place \in Places,
         Start(t, op, target, place),
         InPlace([op |-> op, pc |-> place]), place \notin {"challenge", "token", "insert", "commit"},
         op \in AccountFirst <=> place = "account",
         op \in {"verify", "recover"} => target.table \in Tokens
  PROVE IInv'
<1> DEFINE x == [Idle(t) EXCEPT !.op = op, !.target = target, !.seen = account, !.pc = place]
<1>1. /\ x.op = op /\ x.pc = place /\ x.target = target /\ x.seen = account
      /\ x.held = {} /\ ~x.owner /\ ~x.shares /\ x.dead = {} /\ ~x.rekeys /\ x.born = {}
  BY DEF Idle
<1>2. x \in Transaction
  <2>1. account \in Account
    BY DEF IInv, TypeOK
  <2> QED  BY <2>1, IdleType DEF Transaction
<1>3. tx' = [tx EXCEPT ![t] = x] /\ UNCHANGED <<account, row>>
  BY DEF Start, IInv, TxInv, IsolatedUntilCommit
<1>4. tx[t].pc # "done"
  BY DEF Start
<1> HIDE DEF x
<1>5. TxInv(t, x)
  <2>1. IsolatedUntilCommit(t, x)
    BY <1>1, <1>4 DEF IInv, TxInv, IsolatedUntilCommit, InPlace, Operation
  <2>2. HoldsTheAccount(x)
    BY <1>1 DEF HoldsTheAccount, InPlace
  <2>3. EndsWhatItHolds(x) /\ SharesForWhatIsBorn(t, x) /\ ActsOnALiveToken(x)
    BY <1>1 DEF EndsWhatItHolds, SharesForWhatIsBorn, ActsOnALiveToken, AccountFirst,
       InPlace, AfterRekey, AfterSessions, Rekeying
  <2>4. KnowsThePassword(x) /\ Sweeps(x)
    BY <1>1 DEF KnowsThePassword, Sweeps, AccountFirst, Rekeying, AfterTokens, AfterSessions,
       IInv, TypeOK, Account, Epochs
  <2>5. QED
    BY <2>1, <2>2, <2>3, <2>4 DEF TxInv
<1>6. Compatible(t, x)
  BY <1>1 DEF Compatible
<1>7. QED
  BY <1>2, <1>3, <1>5, <1>6, LocalStep

LEMMA BeginKeepsIInv ==
  ASSUME IInv, NEW t \in Txs, Begin(t)
  PROVE IInv'
<1> USE DEF Operation, Places, InPlace, AccountFirst, TokenRequests, SessionBound, Tokens
<1>1. Idle(t).target \in Rows
  BY IdleType DEF Transaction
<1>2. CASE RequestVerification(t)
  BY <1>1, <1>2, StartKeepsIInv DEF RequestVerification
<1>3. CASE RequestRecovery(t)
  BY <1>1, <1>3, StartKeepsIInv DEF RequestRecovery
<1>4. CASE Verify(t)
  BY <1>4, StartKeepsIInv DEF Verify, Present
<1>5. CASE Recover(t)
  BY <1>5, StartKeepsIInv DEF Recover, Present
<1>6. CASE Login(t)
  BY <1>1, <1>6, StartKeepsIInv DEF Login
<1>7. CASE Change(t)
  BY <1>7, StartKeepsIInv DEF Change, Present
<1>8. CASE \E op \in SessionBound : Bind(t, op)
  <2>1. PICK op \in SessionBound, r \in Rows : Start(t, op, r, "touch")
    BY <1>8 DEF Bind
  <2>2. QED
    BY <2>1, StartKeepsIInv
<1>9. QED
  BY <1>2, <1>3, <1>4, <1>5, <1>6, <1>7, <1>8 DEF Begin

LEMMA LockAccountKeepsIInv ==
  ASSUME IInv, NEW t \in Txs, LockAccount(t)
  PROVE IInv'
<1> DEFINE y == tx[t]
           x == [y EXCEPT !.owner = TRUE,
                          !.pc = IF y.op \in {"verify", "recover"} THEN "token" ELSE "challenge"]
<1>1. y \in Transaction /\ y.pc = "account" /\ TxInv(t, y)
  BY DEF IInv, TypeOK, LockAccount
<1>2. x \in Transaction /\ tx' = [tx EXCEPT ![t] = x] /\ UNCHANGED <<account, row>>
  BY <1>1 DEF LockAccount, Transaction, Places
<1>3. y.op \in AccountFirst
  BY <1>1 DEF TxInv, HoldsTheAccount, InPlace, AccountFirst, TokenRequests, SessionBound
<1>4. \A u \in Others(t) : ~tx[u].owner /\ ~tx[u].shares
  BY <1>1 DEF LockAccount, WaitsFor, Blocks
<1>5. Compatible(t, x)
  BY <1>1, <1>4 DEF Compatible, IInv, TypeOK, Others, Transaction
<1>6. /\ x.op = y.op /\ x.held = y.held /\ x.shares = y.shares /\ x.owner /\ x.dead = y.dead
      /\ x.born = y.born /\ x.rekeys = y.rekeys /\ x.seen = y.seen /\ x.target = y.target
      /\ x.pc = IF y.op \in {"verify", "recover"} THEN "token" ELSE "challenge"
  BY <1>1 DEF Transaction
<1> HIDE DEF x, y
<1>7. TxInv(t, x)
  <2>1. InPlace(x) /\ HoldsTheAccount(x)
    BY <1>3, <1>6 DEF InPlace, HoldsTheAccount, AccountFirst
  <2>2. IsolatedUntilCommit(t, x) /\ EndsWhatItHolds(x) /\ SharesForWhatIsBorn(t, x)
    BY <1>1, <1>6 DEF TxInv, IsolatedUntilCommit, EndsWhatItHolds, SharesForWhatIsBorn,
       AfterRekey, AfterSessions
  <2>3. ActsOnALiveToken(x) /\ KnowsThePassword(x) /\ Sweeps(x)
    BY <1>1, <1>6 DEF TxInv, ActsOnALiveToken, KnowsThePassword, Sweeps, AfterTokens, AfterSessions
  <2>4. QED
    BY <2>1, <2>2, <2>3 DEF TxInv
<1>8. QED
  BY <1>2, <1>5, <1>7, LocalStep

LEMMA LockTokenKeepsIInv ==
  ASSUME IInv, NEW t \in Txs, LockToken(t)
  PROVE IInv'
<1> DEFINE y == tx[t]
           x == [y EXCEPT !.held = @ \cup {y.target}, !.dead = @ \cup {y.target},
                          !.pc = IF y.op = "recover" THEN "tokens" ELSE "commit"]
<1>1. y \in Transaction /\ y.pc = "token" /\ TxInv(t, y) /\ UNCHANGED <<account, row>>
  BY DEF IInv, TypeOK, LockToken
<1>2. y.op \in {"verify", "recover"} /\ y.target \in Rows
  BY <1>1 DEF TxInv, HoldsTheAccount, InPlace, TokenRequests, SessionBound, Transaction
<1>3. CASE ~TokenWorks(t)
  BY <1>1, <1>2, <1>3, EndKeepsIInv DEF LockToken
<1>4. CASE TokenWorks(t)
  <2>1. x \in Transaction /\ tx' = [tx EXCEPT ![t] = x]
    BY <1>1, <1>2, <1>4 DEF LockToken, Transaction, Places
  <2>2. /\ x.op = y.op /\ x.held = y.held \cup {y.target} /\ x.shares = y.shares
        /\ x.owner = y.owner /\ x.dead = y.dead \cup {y.target} /\ x.born = y.born
        /\ x.rekeys = y.rekeys /\ x.seen = y.seen /\ x.target = y.target
        /\ x.pc = IF y.op = "recover" THEN "tokens" ELSE "commit"
    BY <1>1 DEF Transaction
  <2>3. row[y.target].state = "live"
    BY <1>4 DEF TokenWorks
  <2>4. Compatible(t, x)
    <3>1. HoldersOf(y.target, t) = {}
      BY <1>1 DEF LockToken, WaitsFor, Blocks, HoldersOf
    <3>2. QED
      BY <2>1, <2>2, <3>1, RowsOnly
  <2> HIDE DEF x, y
  <2>5. TxInv(t, x)
    <3>1. InPlace(x) /\ HoldsTheAccount(x)
      BY <1>1, <1>2, <2>2 DEF TxInv, InPlace, HoldsTheAccount, AccountFirst
    <3>2. IsolatedUntilCommit(t, x) /\ SharesForWhatIsBorn(t, x)
      BY <1>1, <2>2 DEF TxInv, IsolatedUntilCommit, SharesForWhatIsBorn
    <3>3. EndsWhatItHolds(x)
      BY <1>1, <1>2, <2>2, <2>3 DEF TxInv, EndsWhatItHolds, Rekeying, AfterRekey, AfterSessions
    <3>4. ActsOnALiveToken(x) /\ KnowsThePassword(x) /\ Sweeps(x)
      BY <1>1, <1>2, <2>2, <2>3 DEF TxInv, ActsOnALiveToken, KnowsThePassword, Sweeps,
         Rekeying, AfterTokens, AfterSessions
    <3>5. QED
      BY <3>1, <3>2, <3>3, <3>4 DEF TxInv
  <2>6. QED
    BY <1>1, <2>1, <2>4, <2>5, LocalStep
<1>5. QED
  BY <1>3, <1>4

LEMMA ChallengeKeepsIInv ==
  ASSUME IInv, NEW t \in Txs, Challenge(t)
  PROVE IInv'
<1> DEFINE y == tx[t]
           x(seen, pc) == [y EXCEPT !.seen = seen, !.pc = pc]
<1>1. y \in Transaction /\ y.pc = "challenge" /\ TxInv(t, y) /\ UNCHANGED <<account, row>>
  BY DEF IInv, TypeOK, Challenge
<1>2. y.op \in {"login", "change"}
  BY <1>1 DEF TxInv, HoldsTheAccount, InPlace, TokenRequests, SessionBound
<1>3. ASSUME NEW seen \in Account, NEW pc \in Places, tx' = [tx EXCEPT ![t] = x(seen, pc)],
             \/ y.op = "login" /\ pc = "insert" /\ seen = y.seen /\ SameEpoch(t)
             \/ y.op = "change" /\ pc = "tokens"
      PROVE IInv'
  <2> DEFINE z == x(seen, pc)
  <2>1. z \in Transaction
    BY <1>1, <1>3 DEF Transaction
  <2>2. /\ z.op = y.op /\ z.held = y.held /\ z.shares = y.shares /\ z.owner = y.owner
        /\ z.dead = y.dead /\ z.born = y.born /\ z.rekeys = y.rekeys /\ z.seen = seen
        /\ z.target = y.target /\ z.pc = pc
    BY <1>1 DEF Transaction
  <2>3. Compatible(t, z)
    BY <2>1, <2>2, RowsOnly
  <2> HIDE DEF z
  <2>4. TxInv(t, z)
    <3>1. InPlace(z) /\ HoldsTheAccount(z) /\ IsolatedUntilCommit(t, z)
      BY <1>1, <1>3, <2>2 DEF TxInv, InPlace, HoldsTheAccount, AccountFirst, IsolatedUntilCommit
    <3>2. EndsWhatItHolds(z) /\ SharesForWhatIsBorn(t, z) /\ ActsOnALiveToken(z)
      BY <1>1, <1>3, <2>2 DEF TxInv, EndsWhatItHolds, SharesForWhatIsBorn, ActsOnALiveToken,
         AfterRekey, AfterSessions, Rekeying
    <3>3. KnowsThePassword(z) /\ Sweeps(z)
      BY <1>1, <1>3, <2>2 DEF TxInv, KnowsThePassword, SameEpoch, Sweeps, Rekeying,
         AfterTokens, AfterSessions
    <3>4. QED
      BY <3>1, <3>2, <3>3 DEF TxInv
  <2>5. QED
    BY <1>1, <1>3, <2>1, <2>3, <2>4, LocalStep DEF z
<1>4. CASE y.op = "login" /\ SameEpoch(t) /\ Go(t, "insert")
  <2>1. y.seen \in Account /\ tx' = [tx EXCEPT ![t] = x(y.seen, "insert")]
    BY <1>1, <1>4 DEF Go, Transaction
  <2>2. QED
    BY <1>3, <1>4, <2>1 DEF Places
<1>5. CASE y.op = "change" /\ tx' = [tx EXCEPT ![t].seen = account, ![t].pc = "tokens"]
  <2>1. account \in Account /\ tx' = [tx EXCEPT ![t] = x(account, "tokens")]
    BY <1>5 DEF IInv, TypeOK
  <2>2. QED
    BY <1>3, <1>5, <2>1 DEF Places
<1>6. CASE End(t)
  BY <1>1, <1>2, <1>6, EndKeepsIInv
<1>7. QED
  BY <1>4, <1>5, <1>6 DEF Challenge

LEMMA TouchKeepsIInv ==
  ASSUME IInv, NEW t \in Txs, Touch(t)
  PROVE IInv'
<1> DEFINE y == tx[t]
           x == [y EXCEPT !.held = @ \cup {y.target},
                          !.pc = IF y.op = "issue" THEN "insert" ELSE "sessions"]
<1>1. y \in Transaction /\ y.pc = "touch" /\ TxInv(t, y) /\ UNCHANGED <<account, row>>
  BY DEF IInv, TypeOK, Touch
<1>2. y.op \in SessionBound /\ y.target \in Rows
  BY <1>1 DEF TxInv, HoldsTheAccount, InPlace, Transaction, SessionBound
<1>3. x \in Transaction /\ tx' = [tx EXCEPT ![t] = x]
  BY <1>1, <1>2 DEF Touch, Transaction, Places
<1>4. /\ x.op = y.op /\ x.held = y.held \cup {y.target} /\ x.shares = y.shares
      /\ x.owner = y.owner /\ x.dead = y.dead /\ x.born = y.born /\ x.rekeys = y.rekeys
      /\ x.pc = IF y.op = "issue" THEN "insert" ELSE "sessions"
  BY <1>1 DEF Transaction
<1>5. Compatible(t, x)
  <2>1. HoldersOf(y.target, t) = {}
    BY <1>1 DEF Touch, WaitsFor, Blocks, HoldersOf
  <2>2. QED
    BY <1>3, <1>4, <2>1, RowsOnly
<1> HIDE DEF x, y
<1>6. TxInv(t, x)
  <2>1. InPlace(x) /\ HoldsTheAccount(x)
    BY <1>1, <1>2, <1>4 DEF TxInv, InPlace, HoldsTheAccount, AccountFirst, SessionBound
  <2>2. IsolatedUntilCommit(t, x) /\ EndsWhatItHolds(x) /\ SharesForWhatIsBorn(t, x)
    BY <1>1, <1>2, <1>4 DEF TxInv, IsolatedUntilCommit, EndsWhatItHolds, SharesForWhatIsBorn,
       SessionBound, Rekeying
  <2>3. ActsOnALiveToken(x) /\ KnowsThePassword(x) /\ Sweeps(x)
    BY <1>2, <1>4 DEF ActsOnALiveToken, KnowsThePassword, Sweeps, SessionBound, Rekeying
  <2>4. QED
    BY <2>1, <2>2, <2>3 DEF TxInv
<1>7. QED
  BY <1>1, <1>3, <1>5, <1>6, LocalStep

\* The UPDATE of a rekeying matches every live row of its tables.
LEMMA StartUpdateKeepsIInv ==
  ASSUME IInv, NEW t \in Txs, StartUpdate(t)
  PROVE IInv'
<1> DEFINE y == tx[t]
           x == [y EXCEPT !.todo = Matched(t),
                          !.pc = IF y.pc = "tokens" THEN "tokenRows" ELSE "sessionRows"]
<1>1. y \in Transaction /\ y.pc \in {"tokens", "sessions"} /\ TxInv(t, y)
      /\ UNCHANGED <<account, row>>
  BY DEF IInv, TypeOK, StartUpdate
<1>2. x \in Transaction /\ tx' = [tx EXCEPT ![t] = x]
  BY <1>1 DEF StartUpdate, Transaction, Places, Matched
<1>3. /\ x.op = y.op /\ x.held = y.held /\ x.shares = y.shares /\ x.owner = y.owner
      /\ x.dead = y.dead /\ x.born = y.born /\ x.rekeys = y.rekeys /\ x.target = y.target
      /\ x.seen = y.seen /\ x.todo = Matched(t)
      /\ x.pc = IF y.pc = "tokens" THEN "tokenRows" ELSE "sessionRows"
  BY <1>1 DEF Transaction
<1>4. Compatible(t, x)
  BY <1>2, <1>3, RowsOnly
<1>5. y.op \in Rekeying =>
        /\ y.pc = "tokens" => LiveIn(Tokens) \subseteq y.dead \cup Matched(t)
        /\ y.pc = "sessions" => LiveIn({"session"}) \subseteq y.dead \cup Matched(t)
  BY DEF LiveIn, Matched, Ends
<1> HIDE DEF x, y
<1>6. TxInv(t, x)
  <2>1. InPlace(x) /\ HoldsTheAccount(x)
    BY <1>1, <1>3 DEF TxInv, InPlace, HoldsTheAccount, AccountFirst, SessionBound, TokenRequests
  <2>2. IsolatedUntilCommit(t, x) /\ EndsWhatItHolds(x) /\ SharesForWhatIsBorn(t, x)
    BY <1>1, <1>3 DEF TxInv, IsolatedUntilCommit, EndsWhatItHolds, SharesForWhatIsBorn,
       AfterRekey, AfterSessions
  <2>3. ActsOnALiveToken(x) /\ KnowsThePassword(x)
    BY <1>1, <1>3 DEF TxInv, ActsOnALiveToken, KnowsThePassword
  <2>4. Sweeps(x)
    BY <1>1, <1>3, <1>5 DEF TxInv, Sweeps, AfterTokens, AfterSessions
  <2>5. QED
    BY <2>1, <2>2, <2>3, <2>4 DEF TxInv
<1>7. QED
  BY <1>1, <1>2, <1>4, <1>6, LocalStep

\* A matched row is ended if it is still live, and is ended already if it is not.
LEMMA UpdateRowKeepsIInv ==
  ASSUME IInv, NEW t \in Txs, UpdateRow(t)
  PROVE IInv'
<1> DEFINE y == tx[t]
<1>1. y \in Transaction /\ y.pc \in {"tokenRows", "sessionRows"} /\ TxInv(t, y)
      /\ UNCHANGED <<account, row>>
  BY DEF IInv, TypeOK, UpdateRow
<1>2. PICK r \in y.todo :
        /\ HoldersOf(r, t) = {}
        /\ LET hit == IF row[r].state = "live" THEN {r} ELSE {}
           IN  tx' = [tx EXCEPT ![t].todo = @ \ {r}, ![t].held = @ \cup hit,
                                ![t].dead = @ \cup hit]
  BY DEF UpdateRow
<1> DEFINE hit == IF row[r].state = "live" THEN {r} ELSE {}
           x == [y EXCEPT !.todo = @ \ {r}, !.held = @ \cup hit, !.dead = @ \cup hit]
<1>h. hit = {} \/ hit = {r}
  OBVIOUS
<1>3. r \in Rows
  BY <1>1, <1>2 DEF Transaction
<1>4. x \in Transaction /\ tx' = [tx EXCEPT ![t] = x]
  BY <1>1, <1>2, <1>3 DEF Transaction
<1>5. /\ x.op = y.op /\ x.held = y.held \cup hit /\ x.shares = y.shares
      /\ x.owner = y.owner /\ x.dead = y.dead \cup hit /\ x.born = y.born
      /\ x.rekeys = y.rekeys /\ x.target = y.target /\ x.seen = y.seen
      /\ x.todo = y.todo \ {r} /\ x.pc = y.pc
  BY <1>1 DEF Transaction
<1> HIDE DEF x, hit
<1>6. Compatible(t, x)
  <2>1. x.held = y.held \/ x.held = y.held \cup {r}
    BY <1>5, <1>h
  <2>2. x.held = y.held \/ \E q : HoldersOf(q, t) = {} /\ x.held = y.held \cup {q}
    BY <1>2, <2>1
  <2>3. x \in Transaction /\ x.owner = y.owner /\ x.shares = y.shares
    BY <1>4, <1>5
  <2>4. QED
    BY <2>2, <2>3, RowsOnly
<1> HIDE DEF y
<1> USE DEF hit
<1>7. TxInv(t, x)
  <2>1. InPlace(x)
    BY <1>1, <1>5 DEF TxInv, HoldsTheAccount, InPlace
  <2>2. HoldsTheAccount(x) /\ IsolatedUntilCommit(t, x)
    BY <1>1, <1>5, <2>1 DEF TxInv, HoldsTheAccount, IsolatedUntilCommit
  <2>6. EndsWhatItHolds(x)
    BY <1>1, <1>5 DEF TxInv, EndsWhatItHolds
  <2>3. SharesForWhatIsBorn(t, x) /\ ActsOnALiveToken(x) /\ KnowsThePassword(x)
    BY <1>1, <1>5 DEF TxInv, SharesForWhatIsBorn, ActsOnALiveToken, KnowsThePassword
  <2>4. Sweeps(x)
    BY <1>1, <1>5 DEF TxInv, Sweeps, LiveIn, AfterTokens, AfterSessions
  <2>5. QED
    BY <2>1, <2>2, <2>3, <2>4, <2>6 DEF TxInv
<1>8. QED
  BY <1>1, <1>4, <1>6, <1>7, LocalStep

LEMMA UpdateDoneKeepsIInv ==
  ASSUME IInv, NEW t \in Txs, UpdateDone(t)
  PROVE IInv'
<1> DEFINE y == tx[t]
           x == [y EXCEPT !.pc = AfterUpdate(t)]
<1>1. y \in Transaction /\ y.pc \in {"tokenRows", "sessionRows"} /\ y.todo = {} /\ TxInv(t, y)
      /\ UNCHANGED <<account, row>>
  BY DEF IInv, TypeOK, UpdateDone
<1>2. x \in Transaction /\ tx' = [tx EXCEPT ![t] = x]
  BY <1>1 DEF UpdateDone, Go, AfterUpdate, Transaction, Places
<1>3. /\ x.op = y.op /\ x.held = y.held /\ x.shares = y.shares /\ x.owner = y.owner
      /\ x.dead = y.dead /\ x.born = y.born /\ x.rekeys = y.rekeys /\ x.target = y.target
      /\ x.seen = y.seen /\ x.pc = AfterUpdate(t)
  BY <1>1 DEF Transaction
<1>4. AfterUpdate(t) = IF y.pc = "tokenRows"
                         THEN IF y.op \in TokenRequests THEN "insert" ELSE "rekey"
                         ELSE IF y.op = "change" THEN "insert" ELSE "commit"
  BY DEF AfterUpdate
<1>5. Compatible(t, x)
  BY <1>2, <1>3, RowsOnly
<1> HIDE DEF x, y
<1>6. TxInv(t, x)
  <2>1. InPlace(x)
    BY <1>1, <1>3, <1>4 DEF TxInv, HoldsTheAccount, InPlace, SessionBound, TokenRequests
  <2>2. HoldsTheAccount(x) /\ IsolatedUntilCommit(t, x) /\ EndsWhatItHolds(x)
    BY <1>1, <1>3, <1>4, <2>1 DEF TxInv, HoldsTheAccount, InPlace, IsolatedUntilCommit,
       EndsWhatItHolds, Rekeying, AfterRekey, AfterSessions, TokenRequests, SessionBound
  <2>3. SharesForWhatIsBorn(t, x) /\ ActsOnALiveToken(x) /\ KnowsThePassword(x)
    BY <1>1, <1>3, <1>4 DEF TxInv, SharesForWhatIsBorn, ActsOnALiveToken, KnowsThePassword,
       HoldsTheAccount, InPlace, TokenRequests, SessionBound
  <2>4. Sweeps(x)
    BY <1>1, <1>3, <1>4 DEF TxInv, Sweeps, LiveIn, AfterTokens, AfterSessions, Rekeying,
       TokenRequests
  <2>5. QED
    BY <2>1, <2>2, <2>3, <2>4 DEF TxInv
<1>7. QED
  BY <1>1, <1>2, <1>5, <1>6, LocalStep

LEMMA RekeyKeepsIInv ==
  ASSUME IInv, NEW t \in Txs, Rekey(t)
  PROVE IInv'
<1> DEFINE y == tx[t]
           x == [y EXCEPT !.rekeys = TRUE, !.dead = @ \cup Credentials, !.pc = "sessions"]
<1>1. y \in Transaction /\ y.pc = "rekey" /\ TxInv(t, y) /\ UNCHANGED <<account, row>>
  BY DEF IInv, TypeOK, Rekey
<1>2. y.op \in Rekeying
  BY <1>1 DEF TxInv, HoldsTheAccount, InPlace, SessionBound, TokenRequests, Rekeying
<1>3. CASE End(t)
  BY <1>1, <1>2, <1>3, EndKeepsIInv DEF Rekeying
<1>4. CASE ~ (y.op = "change" /\ account.password # y.seen.password)
  <2>1. x \in Transaction /\ tx' = [tx EXCEPT ![t] = x]
    BY <1>1, <1>4 DEF Rekey, Transaction, Places, Credentials
  <2>2. /\ x.op = y.op /\ x.held = y.held /\ x.shares = y.shares /\ x.owner = y.owner
        /\ x.dead = y.dead \cup Credentials /\ x.born = y.born /\ x.rekeys
        /\ x.target = y.target /\ x.seen = y.seen /\ x.pc = "sessions"
    BY <1>1 DEF Transaction
  <2>3. Compatible(t, x)
    BY <2>1, <2>2, RowsOnly
  <2>4. \A r \in Credentials : row[r].state = "live" /\ ~Refers(r)
    BY DEF Credentials, Refers
  <2> HIDE DEF x, y
  <2>5. TxInv(t, x)
    <3>1. InPlace(x) /\ HoldsTheAccount(x) /\ IsolatedUntilCommit(t, x)
      BY <1>1, <1>2, <2>2 DEF TxInv, InPlace, HoldsTheAccount, IsolatedUntilCommit, Rekeying
    <3>2. EndsWhatItHolds(x)
      BY <1>1, <1>2, <2>2, <2>4 DEF TxInv, EndsWhatItHolds, AfterRekey
    <3>3. SharesForWhatIsBorn(t, x) /\ ActsOnALiveToken(x) /\ KnowsThePassword(x)
      BY <1>1, <1>2, <2>2 DEF TxInv, SharesForWhatIsBorn, ActsOnALiveToken, KnowsThePassword,
         Rekeying
    <3>4. Sweeps(x)
      BY <1>1, <2>2 DEF TxInv, Sweeps, AfterTokens, AfterSessions
    <3>5. QED
      BY <3>1, <3>2, <3>3, <3>4 DEF TxInv
  <2>6. QED
    BY <1>1, <2>1, <2>3, <2>5, LocalStep
<1>5. QED
  BY <1>3, <1>4 DEF Rekey

\* A token or a session is inserted only when nobody holds the account.
LEMMA InsertKeepsIInv ==
  ASSUME IInv, NEW t \in Txs, Insert(t)
  PROVE IInv'
<1> DEFINE y == tx[t]
           n == NewRow(t)
           x == [y EXCEPT !.born = {n}, !.stamp = account.epoch,
                          !.shares = @ \/ Refers(n), !.pc = "commit"]
<1>1. y \in Transaction /\ y.pc = "insert" /\ TxInv(t, y) /\ UNCHANGED <<account, row>>
  BY DEF IInv, TypeOK, Insert
<1>2. y.op \in {"login", "change", "issue"} \cup TokenRequests
  BY <1>1 DEF TxInv, HoldsTheAccount, InPlace, SessionBound
<1>3. /\ n \in Rows /\ n.by = t
      /\ n.table = "session" => y.op \in {"login", "change"}
  BY <1>2 DEF NewRow, NewTable, Rows, Tables, Tokens, TokenRequests
<1>4. x \in Transaction /\ tx' = [tx EXCEPT ![t] = x]
  BY <1>1, <1>3 DEF Insert, Transaction, Places, IInv, TypeOK, Account, Refers
<1>5. /\ x.op = y.op /\ x.held = y.held /\ x.shares = (y.shares \/ Refers(n))
      /\ x.owner = y.owner /\ x.dead = y.dead /\ x.born = {n} /\ x.stamp = account.epoch
      /\ x.rekeys = y.rekeys /\ x.target = y.target /\ x.seen = y.seen /\ x.pc = "commit"
  BY <1>1 DEF Transaction
<1>6. Compatible(t, x)
  <2>1. Refers(n) => \A u \in Others(t) : ~tx[u].owner
    BY <1>1 DEF Insert, WaitsFor, Blocks
  <2>2. QED
    BY <1>5, <2>1 DEF Compatible, IInv, TypeOK, Others
<1>7. account.epoch <= account.epoch
  BY DEF IInv, TypeOK, Account, Epochs
<1> HIDE DEF x, y, n
<1>8. TxInv(t, x)
  <2>1. InPlace(x) /\ HoldsTheAccount(x) /\ IsolatedUntilCommit(t, x)
    BY <1>1, <1>2, <1>5 DEF TxInv, InPlace, HoldsTheAccount, IsolatedUntilCommit
  <2>2. EndsWhatItHolds(x)
    BY <1>1, <1>2, <1>5 DEF TxInv, EndsWhatItHolds, AfterRekey, AfterSessions
  <2>3. SharesForWhatIsBorn(t, x)
    BY <1>1, <1>3, <1>5, <1>7 DEF SharesForWhatIsBorn
  <2>4. ActsOnALiveToken(x) /\ KnowsThePassword(x)
    BY <1>1, <1>2, <1>5 DEF TxInv, ActsOnALiveToken, KnowsThePassword, TokenRequests
  <2>5. Sweeps(x)
    BY <1>1, <1>5 DEF TxInv, Sweeps, AfterTokens, AfterSessions
  <2>6. QED
    BY <2>1, <2>2, <2>3, <2>4, <2>5 DEF TxInv
<1>9. QED
  BY <1>1, <1>4, <1>6, <1>8, LocalStep

-----------------------------------------------------------------------------
(***************************************************************************)
(* The commit of t, and what it leaves alone.                              *)
(***************************************************************************)
LEMMA CommitTypes ==
  ASSUME IInv, NEW t \in Txs, Commit(t)
  PROVE TypeOK'
<1> DEFINE y == tx[t]
           x == [Idle(t) EXCEPT !.op = y.op, !.pc = "done"]
<1>1. y \in Transaction /\ account \in Account /\ row \in [Rows -> Row]
  BY DEF IInv, TypeOK
<1>2. x \in Transaction /\ x.held = {} /\ ~x.owner /\ ~x.shares
  <2>1. y.op \in Operation \cup {"none"} /\ "done" \in Places
    BY <1>1 DEF Transaction, Places
  <2>2. x \in Transaction
    BY <2>1, IdleType DEF Transaction
  <2> QED  BY <2>2 DEF Idle
<1>3. tx' = [tx EXCEPT ![t] = x]
  BY DEF Commit, End
<1>4. y.seen \in Account /\ y.stamp \in Nat
  BY <1>1 DEF Transaction, Epochs
<1>5. account' \in Account
  BY <1>1 DEF Commit, Account, Epochs
<1>6. \A r \in Rows : row'[r] \in Row
  BY <1>1, <1>4 DEF Commit, Row, Account, Epochs
<1>7. row' \in [Rows -> Row]
  BY <1>6 DEF Commit
<1> HIDE DEF x
<1>8. tx' \in [Txs -> Transaction]
  BY <1>2, <1>3 DEF IInv, TypeOK
<1>9. \A u, v \in Txs : u # v =>
        /\ tx'[u].held \cap tx'[v].held = {}
        /\ tx'[u].owner => ~tx'[v].owner /\ ~tx'[v].shares
  BY <1>2, <1>3 DEF IInv, TypeOK
<1>10. QED
  BY <1>5, <1>7, <1>8, <1>9 DEF TypeOK

\* What a row is after the commit.
LEMMA CommitRow ==
  ASSUME IInv, NEW t \in Txs, Commit(t), NEW r \in Rows
  PROVE /\ r \in tx[t].born =>
             /\ row'[r].state = "live" /\ row'[r].epoch = tx[t].stamp
             /\ row'[r].password = IF tx[t].rekeys THEN t ELSE tx[t].seen.password
        /\ r \notin tx[t].born => row'[r].epoch = row[r].epoch /\ row'[r].password = row[r].password
        /\ r \notin tx[t].born /\ r \in tx[t].dead => row'[r].state = "ended"
        /\ r \notin tx[t].born \cup tx[t].dead => row'[r].state = row[r].state
<1>1. row[r] \in Row
  BY DEF IInv, TypeOK
<1>2. QED
  BY <1>1 DEF Commit, Row

\* The epoch moves by one with the password, and only for a holder of the account.
LEMMA CommitAccount ==
  ASSUME IInv, NEW t \in Txs, Commit(t)
  PROVE /\ account'.epoch = IF tx[t].rekeys THEN account.epoch + 1 ELSE account.epoch
        /\ account'.password = IF tx[t].rekeys THEN t ELSE account.password
        /\ tx[t].rekeys => tx[t].owner /\ tx[t].op \in Rekeying
        /\ account.epoch \in Nat /\ account.epoch <= account'.epoch
<1>1. /\ account'.epoch = IF tx[t].rekeys THEN account.epoch + 1 ELSE account.epoch
      /\ account'.password = IF tx[t].rekeys THEN t ELSE account.password
  BY DEF Commit
<1>2. tx[t].pc = "commit" /\ TxInv(t, tx[t])
  BY DEF Commit, IInv
<1>3. tx[t].rekeys => tx[t].owner /\ tx[t].op \in Rekeying
  BY <1>2 DEF TxInv, EndsWhatItHolds, HoldsTheAccount, Rekeying, AccountFirst
<1>4. account.epoch \in Nat
  BY DEF IInv, TypeOK, Account, Epochs
<1>5. QED
  BY <1>1, <1>3, <1>4

\* While another transaction holds the account, no token and no session appears.
LEMMA NothingAppearsBehindTheOwner ==
  ASSUME IInv, NEW t \in Txs, Commit(t), NEW u \in Txs, u # t, tx[u].owner
  PROVE /\ ~tx[t].rekeys
        /\ \A r \in Rows : Refers(r) /\ row'[r].state = "live" => row[r].state = "live"
<1>1. ~tx[t].owner /\ ~tx[t].shares /\ TxInv(t, tx[t])
  BY DEF IInv, TypeOK
<1>2. \A r \in tx[t].born : ~Refers(r)
  BY <1>1 DEF TxInv, SharesForWhatIsBorn
<1>3. QED
  BY <1>1, <1>2, CommitRow, CommitAccount

LEMMA CommitKeepsOthers ==
  ASSUME IInv, NEW t \in Txs, Commit(t), NEW u \in Txs, u # t
  PROVE TxInv(u, tx[u])'
<1> DEFINE x == tx[u]
<1>1. tx'[u] = x /\ TxInv(u, x) /\ x \in Transaction
  BY DEF Commit, End, IInv, TypeOK
<1>2. tx[t].pc = "commit" /\ TxInv(t, tx[t]) /\ tx[t] \in Transaction
  BY DEF Commit, IInv, TypeOK
<1>3. tx[t].held \cap x.held = {}
  BY DEF IInv, TypeOK
<1> HIDE DEF x
<1>4. IsolatedUntilCommit(u, x)'
  <2>1. ASSUME NEW r \in Rows, r.by = u, row[r].state = "absent"
        PROVE row'[r].state = "absent"
    <3>1. r \notin tx[t].born /\ r \notin tx[t].dead
      BY <1>2, <2>1 DEF TxInv, SharesForWhatIsBorn, EndsWhatItHolds
    <3>2. QED
      BY <2>1, <3>1, CommitRow
  <2>2. QED
    BY <1>1, <2>1 DEF TxInv, IsolatedUntilCommit, x
<1>5. (HoldsTheAccount(x) /\ EndsWhatItHolds(x))'
  <2>1. \A r \in Rows : row[r].state # "absent" => row'[r].state # "absent"
    BY CommitRow
  <2>2. x.dead \subseteq Rows
    BY <1>1 DEF Transaction
  <2>3. QED
    BY <1>1, <2>1, <2>2 DEF TxInv, HoldsTheAccount, EndsWhatItHolds, InPlace, x
<1>6. SharesForWhatIsBorn(u, x)'
  <2>1. x.stamp \in Nat /\ account.epoch \in Nat /\ account'.epoch \in Nat
    BY <1>1, CommitAccount DEF Transaction, Epochs
  <2>2. QED
    BY <1>1, <2>1, CommitAccount DEF TxInv, SharesForWhatIsBorn, x
<1>7. ActsOnALiveToken(x)'
  <2>1. ASSUME x.target \in x.held, x.target.table \in Tokens, row[x.target].state = "live"
        PROVE row'[x.target].state = "live"
    <3>1. x.target \in Rows /\ Refers(x.target)
      BY <1>1, <2>1 DEF Transaction, Refers, Tokens
    <3>2. x.target \notin tx[t].dead
      BY <1>2, <1>3, <2>1, <3>1 DEF TxInv, EndsWhatItHolds
    <3>3. QED
      BY <2>1, <3>1, <3>2, CommitRow
  <2>2. QED
    BY <1>1, <2>1 DEF TxInv, ActsOnALiveToken, x
<1>8. KnowsThePassword(x)'
  <2>1. CASE ~tx[t].rekeys
    BY <1>1, <2>1, CommitAccount DEF TxInv, KnowsThePassword, x
  <2>2. CASE tx[t].rekeys
    <3>1. ~x.owner
      BY <2>2, NothingAppearsBehindTheOwner DEF x
    <3>2. x.op = "login" => x.pc \notin {"insert", "commit"}
      BY <1>1, <3>1 DEF TxInv, HoldsTheAccount, AccountFirst
    <3>3. x.seen.epoch \in Nat
      BY <1>1 DEF Transaction, Account, Epochs
    <3>4. QED
      BY <1>1, <2>2, <3>2, <3>3, CommitAccount DEF TxInv, KnowsThePassword, x
  <2>3. QED
    BY <2>1, <2>2
<1>9. Sweeps(x)'
  <2>1. CASE x.op \in Rekeying /\ x.pc \in AfterTokens \cup {"tokenRows"}
    <3>1. x.owner
      BY <1>1, <2>1 DEF TxInv, HoldsTheAccount, Rekeying, AccountFirst, AfterTokens
    <3>2. LiveIn(Tokens)' \subseteq LiveIn(Tokens) /\ LiveIn({"session"})' \subseteq LiveIn({"session"})
      BY <3>1, NothingAppearsBehindTheOwner DEF LiveIn, Refers, Tokens, x
    <3>3. QED
      BY <1>1, <3>2 DEF TxInv, Sweeps, x
  <2>2. CASE ~ (x.op \in Rekeying /\ x.pc \in AfterTokens \cup {"tokenRows"})
    BY <1>1, <2>2 DEF Sweeps, AfterTokens, AfterSessions, x
  <2>3. QED
    BY <2>1, <2>2
<1>10. QED
  BY <1>1, <1>4, <1>5, <1>6, <1>7, <1>8, <1>9 DEF TxInv, x

LEMMA CommitKeepsIInv ==
  ASSUME IInv, NEW t \in Txs, Commit(t)
  PROVE IInv'
<1> DEFINE y == tx[t]
<1>1. y.pc = "commit" /\ TxInv(t, y) /\ y \in Transaction
  BY DEF Commit, IInv, TypeOK
<1>2. ASSUME NEW r \in Rows, r.table = "session", row'[r].state = "live"
      PROVE row'[r].password = account'.password
  <2>1. CASE y.rekeys
    <3>1. y.op \in Rekeying
      BY <2>1, CommitAccount
    <3>2. r \in y.born
      BY <1>1, <1>2, <3>1, CommitRow DEF TxInv, Sweeps, AfterSessions, LiveIn
    <3>3. QED
      BY <2>1, <3>2, CommitRow, CommitAccount
  <2>2. CASE ~y.rekeys /\ r \in y.born
    <3>1. y.op = "login"
      BY <1>1, <1>2, <2>2 DEF TxInv, SharesForWhatIsBorn, EndsWhatItHolds, Rekeying, AfterRekey,
         AfterSessions
    <3>2. y.seen.password = account.password
      BY <1>1, <3>1 DEF TxInv, KnowsThePassword
    <3>3. QED
      BY <2>2, <3>2, CommitRow, CommitAccount
  <2>3. CASE ~y.rekeys /\ r \notin y.born
    BY <1>2, <2>3, CommitRow, CommitAccount DEF IInv, SessionsAreCurrent
  <2>4. QED
    BY <2>1, <2>2, <2>3
<1>3. SessionsAreCurrent'
  BY <1>2 DEF SessionsAreCurrent
<1>4. StampsAreOld'
  <2>1. \A r \in Rows : row[r].epoch \in Nat /\ row[r].epoch <= account.epoch
    BY DEF IInv, TypeOK, Row, Epochs, StampsAreOld
  <2>2. y.stamp \in Nat
    BY <1>1 DEF Transaction, Epochs
  <2>3. account.epoch \in Nat /\ account'.epoch \in Nat /\ account.epoch <= account'.epoch
    BY CommitAccount
  <2>4. y.born # {} => y.stamp <= account.epoch
    BY <1>1 DEF TxInv, SharesForWhatIsBorn
  <2>5. QED
    BY <2>1, <2>2, <2>3, <2>4, CommitRow DEF StampsAreOld
<1>5. TxInv(t, tx[t])'
  <2> DEFINE x == [Idle(t) EXCEPT !.op = y.op, !.pc = "done"]
  <2>1. tx'[t] = x
    BY DEF Commit, End, IInv, TypeOK
  <2>2. /\ x.op = y.op /\ x.pc = "done" /\ x.held = {} /\ ~x.owner /\ ~x.shares
        /\ x.dead = {} /\ ~x.rekeys /\ x.born = {}
    BY DEF Idle
  <2>3. y.op # "none"
    BY <1>1 DEF TxInv, HoldsTheAccount, InPlace, TokenRequests, SessionBound
  <2> HIDE DEF x
  <2>4. QED
    BY <2>1, <2>2, <2>3 DEF TxInv, IsolatedUntilCommit, HoldsTheAccount, InPlace, EndsWhatItHolds,
       SharesForWhatIsBorn, ActsOnALiveToken, KnowsThePassword, Sweeps, AfterRekey, AfterTokens,
       AfterSessions
<1>6. QED
  BY <1>3, <1>4, <1>5, CommitTypes, CommitKeepsOthers DEF IInv

-----------------------------------------------------------------------------
LEMMA NextKeepsIInv == IInv /\ [Next]_vars => IInv'
<1> SUFFICES ASSUME IInv, [Next]_vars PROVE IInv'
  OBVIOUS
<1>1. CASE UNCHANGED vars
  BY <1>1 DEF vars, IInv, TypeOK, SessionsAreCurrent, StampsAreOld, TxInv, IsolatedUntilCommit,
     HoldsTheAccount, EndsWhatItHolds, SharesForWhatIsBorn, ActsOnALiveToken, KnowsThePassword,
     Sweeps, LiveIn
<1>2. ASSUME NEW t \in Txs, Begin(t) \/ Step(t) \/ Abort(t) PROVE IInv'
  <2>1. CASE Begin(t)
    BY <2>1, BeginKeepsIInv
  <2>2. CASE Abort(t)
    <3>1. tx[t].op # "none"
      BY <2>2 DEF Abort, IInv, TxInv, HoldsTheAccount, InPlace, TokenRequests, SessionBound
    <3>2. QED
      BY <2>2, <3>1, EndKeepsIInv DEF Abort
  <2>3. CASE Step(t)
    BY <2>3, LockAccountKeepsIInv, LockTokenKeepsIInv, ChallengeKeepsIInv, TouchKeepsIInv,
       StartUpdateKeepsIInv, UpdateRowKeepsIInv, UpdateDoneKeepsIInv, RekeyKeepsIInv,
       InsertKeepsIInv, CommitKeepsIInv DEF Step
  <2>4. QED
    BY <1>2, <2>1, <2>2, <2>3
<1>3. QED
  BY <1>1, <1>2 DEF Next, Done

LEMMA Invariance == Spec => []IInv
<1>1. QED
  BY InitIInv, NextKeepsIInv, PTL DEF Spec

\* Types, and no lock is ever held twice (the row locks of every operation).
THEOREM AccountsAreTyped == Spec => []TypeOK
<1>1. IInv => TypeOK
  BY DEF IInv
<1>2. QED
  BY <1>1, Invariance, PTL

\* Whatever runs at once, a live session was opened with the password the account
\* has now (open_browser_session, complete_account_recovery,
\* change_account_password).
THEOREM SessionsFollowThePassword == Spec => []SessionsAreCurrent
<1>1. IInv => SessionsAreCurrent
  BY DEF IInv
<1>2. QED
  BY <1>1, Invariance, PTL

\* No number of verifications, recoveries, logins and changes waits in a circle:
\* one that waits for another waits for the account, and the one that has it
\* waits for none of them.
THEOREM WritersMakeWay == Spec => []WritersNeverWaitInACircle
<1>1. ASSUME IInv, NEW C \in SUBSET { t \in Txs : tx[t].op \in AccountFirst }, Circle(C)
      PROVE FALSE
  <2>1. ASSUME NEW t \in C PROVE \E u \in C : u # t /\ Blocks(u, t) /\ tx[u].owner
    <3>1. PICK u \in C : u \in WaitsFor(t)
      BY <1>1 DEF Circle
    <3>2. u \in Txs /\ u # t /\ Blocks(u, t) /\ tx[u].op \in AccountFirst
      BY <1>1, <3>1 DEF WaitsFor, Others
    <3>3. tx[u].held # {} \/ tx[u].shares => tx[u].owner
      BY <1>1, <3>2 DEF IInv, TxInv, HoldsTheAccount
    <3>4. QED
      BY <3>2, <3>3 DEF Blocks
  <2>2. PICK t \in C : TRUE
    BY <1>1 DEF Circle
  <2>3. PICK u \in C : tx[u].owner
    BY <2>1, <2>2
  <2>4. PICK v \in C : v # u /\ tx[v].owner
    BY <2>1, <2>3
  <2>5. QED
    BY <1>1, <2>3, <2>4 DEF IInv, TypeOK
<1>2. IInv => WritersNeverWaitInACircle
  BY <1>1 DEF WritersNeverWaitInACircle
<1>3. QED
  BY <1>2, Invariance, PTL

\* A link that acts is live at the commit: neither consumed nor superseded while
\* the account was waited for (verify_account_email, complete_account_recovery).
THEOREM LinksActWhileLive == Spec => TokensActWhileLive
<1>1. ASSUME IInv
      PROVE \A t \in Txs : tx[t].pc = "commit" /\ tx[t].op \in {"verify", "recover"} /\ row' # row
                             => row[tx[t].target].state = "live"
  BY <1>1 DEF IInv, TxInv, ActsOnALiveToken
<1>2. IInv => [\A t \in Txs :
                  tx[t].pc = "commit" /\ tx[t].op \in {"verify", "recover"} /\ row' # row
                    => row[tx[t].target].state = "live"]_vars
  BY <1>1
<1>3. QED
  BY <1>2, Invariance, PTL DEF TokensActWhileLive

\* A recovery or a change ends whatever could act for the account before it,
\* however many tokens, sessions and credentials were committed while it ran.
THEOREM AdvancesEndWhatCameBefore == Spec => AnAdvanceEndsWhatCameBefore
<1>1. ASSUME IInv, [Next]_vars, account'.epoch # account.epoch, NEW r \in Rows, row[r].state = "live"
      PROVE ~Usable(r)'
  <2>1. PICK t \in Txs : Commit(t)
    <3>1. PICK t \in Txs : Begin(t) \/ Step(t) \/ Abort(t)
      BY <1>1 DEF Next, vars, Done
    <3>2. ~Begin(t)
      BY <1>1 DEF Begin, RequestVerification, RequestRecovery, Verify, Recover, Login, Change,
         Bind, Present, Start
    <3>3. ~Abort(t)
      BY <1>1 DEF Abort
    <3>4. Step(t) => Commit(t)
      BY <1>1 DEF Step, LockAccount, LockToken, Challenge, Touch, StartUpdate, UpdateRow,
         UpdateDone, Rekey, Insert
    <3>5. QED
      BY <3>1, <3>2, <3>3, <3>4
  <2>2. tx[t].rekeys /\ tx[t].op \in Rekeying /\ account.epoch \in Nat
        /\ account'.epoch = account.epoch + 1
    BY <1>1, <2>1, CommitAccount
  <2>3. tx[t].pc = "commit" /\ TxInv(t, tx[t])
    BY <1>1, <2>1 DEF Commit, IInv
  <2>4. r \notin tx[t].born
    BY <1>1, <2>3 DEF TxInv, SharesForWhatIsBorn, IsolatedUntilCommit
  <2>5. CASE Refers(r)
    <3>1. r.table \in Tokens \cup {"session"}
      BY <2>5 DEF Refers, Rows, Tables
    <3>2. r \in tx[t].dead
      BY <1>1, <2>2, <2>3, <3>1 DEF TxInv, Sweeps, LiveIn, AfterTokens, AfterSessions
    <3>3. QED
      BY <1>1, <2>1, <2>4, <3>2, CommitRow DEF Usable
  <2>6. CASE ~Refers(r)
    <3>1. r.table = "credential" /\ row[r].epoch \in Nat /\ row[r].epoch <= account.epoch
      BY <1>1, <2>6 DEF Refers, IInv, StampsAreOld, TypeOK, Row, Epochs
    <3>2. row'[r].epoch = row[r].epoch
      BY <1>1, <2>1, <2>4, CommitRow
    <3>3. QED
      BY <2>2, <3>1, <3>2 DEF Usable
  <2>7. QED
    BY <2>5, <2>6
<1>2. IInv /\ [Next]_vars =>
        [account'.epoch # account.epoch =>
           \A r \in Rows : row[r].state = "live" => ~Usable(r)']_vars
  BY <1>1
<1>3. QED
  BY <1>2, Invariance, PTL DEF AnAdvanceEndsWhatCameBefore, Spec

-----------------------------------------------------------------------------
(* The portal's session: what is inductive. *)

Known == Sessions \union {Nobody}
Bindings == Workspaces \union {Unbound}
Leases == [generation: Int, session: Known]
Screens == [status: {"loading", "anonymous", "authenticated"}, ready: BOOLEAN, of: Known,
            names: Bindings, workspace: Bindings, loading: BOOLEAN, problem: BOOLEAN]
Portals == [generation: Nat, session: Known, latest: Nat, inFlight: Leases, signingOut: Leases,
            replacing: Int, deferred: Leases, screen: Screens]
Reads == {"profile", "detail", "check", "read"}
Askers == {"refusal", "ending"}
Answers == [is: {"awaited", "ok", "failed", "forbidden", "unauthenticated", "lost"},
            session: Known, workspace: Bindings]
Awaited == [kind: Reads \union Askers \union Mutations \union {"login"}, lease: Leases,
            number: Int, under: Leases, attempt: Int, asked: Bindings, cookie: Known,
            answer: Answers]
History == [gestures: Int, losses: Int, elsewhere: Int, dropped: BOOLEAN, misled: BOOLEAN]
Typed ==
  /\ portal \in Portals /\ requests \subseteq Awaited /\ cookie \in Known
  /\ api \in [opened: Sessions, live: SUBSET Sessions, bound: [Sessions -> Bindings]]
  /\ api.live \subseteq 1..api.opened
  /\ happened \in History

\* Every session anybody names has been opened.
OpenedSoFar ==
  /\ portal.session <= api.opened /\ cookie <= api.opened
  /\ \A r \in requests : r.cookie <= api.opened /\ r.answer.session <= api.opened

\* An answer that opens a session, and: that session is nobody's yet. No other answer names
\* it, no cookie carries it, and the provider does not hold it.
Brings(r) == r.kind \in {"login", "change"} /\ r.answer.is = "ok"
NewIsNew ==
  \A f \in requests : Brings(f) =>
    /\ f.answer.session \notin {portal.session, cookie}
    /\ \A r \in requests : /\ r.cookie # f.answer.session
                           /\ r # f => r.answer.session # f.answer.session

\* A lease was taken in a generation that has begun; a reading of the workspace is asked for
\* only of a session that is known (loadDetail is called with one).
LeasesArePast ==
  /\ portal.inFlight.generation <= portal.generation
  /\ \A r \in requests :
       /\ r.lease.generation <= portal.generation /\ r.under.generation <= portal.generation
       /\ r.kind = "check" => r.number <= portal.generation
       /\ Asker(r) => r.number = r.lease.generation
       /\ r.kind = "detail" => r.lease.session # Nobody

\* What an answer says was so when it was given, and of dead sessions it stays so.
AnswersAreTheServers ==
  \A r \in requests :
    /\ r.answer.is = "ok" /\ r.kind \in {"profile", "check", "refusal", "ending", "login", "change"}
         => r.answer.session # Nobody
    /\ r.answer.is = "unauthenticated" /\ r.kind \in Reads => r.cookie \notin api.live
    /\ r.answer.is = "ok" /\ r.kind = "logout" => r.cookie \notin api.live

\* A request whose answer the provider would still listen to: its lease, or the lease of the
\* validity read it waits for, is the one held. A validity read goes by its generation. A
\* page's read that was sent for another session speaks of that one.
Speaks(r) ==
  IF r.kind = "check" THEN r.number = portal.generation
  ELSE ~Stranger(r) /\ (Holding(portal, r.lease) \/ Holding(portal, r.under))
\* The provider's session has ended, or the browser's cookie is another one by now.
Gone == portal.session \notin api.live \/ portal.session # cookie

\* What is still listened to was sent with the session held, or that session is not the
\* cookie's any more; so a refusal that is listened to is about a session that is gone.
BelievedIsTrue ==
  portal.session # Nobody =>
    \A r \in requests :
      /\ Speaks(r) => r.cookie = portal.session \/ portal.session # cookie
      /\ Asker(r) /\ r.answer.is = "unauthenticated" /\ Holding(portal, r.lease) => Gone

\* Without a session nobody is shown as signed in.
Anonymous == portal.session = Nobody => portal.screen.status # "authenticated"

PortalInv ==
  /\ Typed /\ OpenedSoFar /\ NewIsNew /\ LeasesArePast /\ AnswersAreTheServers /\ BelievedIsTrue
  /\ Anonymous /\ ShowsOneSession

-----------------------------------------------------------------------------
(* What the provider's functions make of its state. *)

\* A state of the provider that shows nothing it should not.
Good(p) ==
  /\ p \in Portals /\ p.inFlight.generation <= p.generation
  /\ p.session = Nobody => p.screen.status # "authenticated"
  /\ ShownAsRead(p.screen) =>
       p.screen.of = p.session /\ p.screen.workspace \in {Unbound, p.screen.names}

LEMMA Constants ==
  /\ MaxSessions \in Nat \ {0} /\ MaxEvents \in Nat
  /\ Nobody \in Known /\ Nobody = 0 /\ Nobody \notin Sessions
  /\ 1 \in Sessions
  /\ Sessions \subseteq Nat /\ Known \subseteq Nat /\ Unbound \in Bindings
  /\ NoLease \in Leases /\ NoLease.generation = -1 /\ NoLease.session = Nobody
  /\ Empty \in Screens
<1> USE DEF Known, Sessions, Nobody, Bindings, NoLease, Leases, Empty, Screens
<1>1. MaxSessions \in Nat \ {0} /\ MaxEvents \in Nat
  BY PortalBounds DEF PortalBounds
<1>2. Nobody \in Known /\ Nobody = 0 /\ Nobody \notin Sessions /\ 1 \in Sessions
  BY <1>1
<1>3. Sessions \subseteq Nat /\ Known \subseteq Nat /\ Unbound \in Bindings
  BY <1>1
<1>4. NoLease \in Leases /\ NoLease.generation = -1 /\ NoLease.session = Nobody
  BY <1>2
<1>5. Empty \in Screens
  BY <1>2, <1>3
<1> QED  BY <1>1, <1>2, <1>3, <1>4, <1>5

LEMMA LeaseIs ==
  ASSUME NEW p \in Portals
  PROVE  /\ LeaseOf(p) \in Leases /\ Holding(p, LeaseOf(p))
         /\ LeaseOf(p).generation = p.generation /\ LeaseOf(p).session = p.session
         /\ \A lease \in Leases :
              Holding(p, lease) <=> lease.generation = p.generation /\ lease.session = p.session
BY DEF LeaseOf, Holding, Leases, Portals

LEMMA AdoptIs ==
  ASSUME NEW p, Good(p), NEW session \in Known, NEW keep \in BOOLEAN
  PROVE  /\ Good(Adopt(p, session, keep))
         /\ Adopt(p, session, keep).generation = p.generation + 1
         /\ Adopt(p, session, keep).session = session
         /\ Adopt(p, session, keep).inFlight = NoLease
<1> DEFINE before == IF keep /\ p.screen.status = "authenticated" THEN p.screen ELSE Empty
           screen == [before EXCEPT
                        !.status = IF session = Nobody THEN "anonymous" ELSE "authenticated",
                        !.ready = TRUE, !.loading = session # Nobody, !.problem = FALSE]
           q == Adopt(p, session, keep)
<1>1. p \in Portals /\ p.screen \in Screens /\ p.generation \in Nat
  BY DEF Good, Portals
<1>2. screen \in Screens /\ ~ShownAsRead(screen)
      /\ (session = Nobody => screen.status # "authenticated")
  <2>1. before \in Screens
    BY <1>1, Constants
  <2> HIDE DEF before
  <2> QED  BY <2>1 DEF Screens, ShownAsRead
<1>3. q = [[p EXCEPT !.latest = @ + 1, !.inFlight = NoLease] EXCEPT
             !.generation = @ + 1, !.session = session, !.signingOut = NoLease,
             !.screen = screen]
  BY <1>1 DEF Adopt, InvalidateLoads, Portals
<1> HIDE DEF q, screen
<1>4. p.latest + 1 \in Nat /\ p.generation + 1 \in Nat
  BY <1>1 DEF Portals
<1>5. /\ q \in Portals /\ q.generation = p.generation + 1 /\ q.session = session
      /\ q.inFlight = NoLease /\ q.screen = screen
  <2> DEFINE g == p.generation + 1
             l == p.latest + 1
  <2>1. q = [[p EXCEPT !.latest = l, !.inFlight = NoLease] EXCEPT
               !.generation = g, !.session = session, !.signingOut = NoLease,
               !.screen = screen]
    BY <1>1, <1>3 DEF Portals
  <2>2. g \in Nat /\ l \in Nat /\ NoLease \in Leases
    BY <1>4, Constants
  <2> HIDE DEF g, l
  <2>3. /\ q \in Portals /\ q.generation = g /\ q.session = session
        /\ q.inFlight = NoLease /\ q.screen = screen
    BY <1>1, <1>2, <2>1, <2>2 DEF Portals
  <2> QED  BY <2>3 DEF g
<1>6. Good(q)
  BY <1>1, <1>2, <1>5, Constants DEF Good
<1> QED  BY <1>5, <1>6 DEF q

LEMMA LoadIs ==
  ASSUME NEW p, Good(p), NEW lease \in Leases
  PROVE  /\ Good(Load(p, lease))
         /\ Load(p, lease).generation = p.generation /\ Load(p, lease).session = p.session
<1>1. p \in Portals /\ p.screen \in Screens /\ p.generation \in Nat
  BY DEF Good, Portals
<1>2. CASE ~Holding(p, lease) \/ Holding(p, p.inFlight)
  BY <1>2 DEF Load
<1>3. CASE Holding(p, lease) /\ ~Holding(p, p.inFlight)
  <2> DEFINE screen == [p.screen EXCEPT !.loading = TRUE, !.problem = FALSE]
             q == Load(p, lease)
  <2>1. screen \in Screens /\ ~ShownAsRead(screen) /\ screen.status = p.screen.status
    BY <1>1 DEF Screens, ShownAsRead
  <2>2. q = [p EXCEPT !.latest = @ + 1, !.inFlight = lease, !.screen = screen]
    BY <1>1, <1>3 DEF Load, Portals
  <2>3. lease.generation = p.generation
    BY <1>1, <1>3, LeaseIs
  <2> HIDE DEF q, screen
  <2>4. /\ q \in Portals /\ q.generation = p.generation /\ q.session = p.session
        /\ q.inFlight = lease /\ q.screen = screen
    <3> DEFINE l == p.latest + 1
    <3>1. l \in Nat /\ q = [p EXCEPT !.latest = l, !.inFlight = lease, !.screen = screen]
      BY <1>1, <2>2 DEF Portals
    <3> HIDE DEF l
    <3> QED  BY <1>1, <2>1, <3>1 DEF Portals
  <2>5. Good(q)
    BY <1>1, <2>1, <2>3, <2>4 DEF Good
  <2> QED  BY <2>4, <2>5 DEF q
<1> QED  BY <1>2, <1>3

LEMMA AdoptAndLoadIs ==
  ASSUME NEW p, Good(p), NEW session \in Known, NEW keep \in BOOLEAN
  PROVE  /\ Good(AdoptAndLoad(p, session, keep))
         /\ AdoptAndLoad(p, session, keep).generation = p.generation + 1
         /\ AdoptAndLoad(p, session, keep).session = session
<1> DEFINE q == Adopt(p, session, keep)
<1>1. Good(q) /\ q.generation = p.generation + 1 /\ q.session = session
  BY AdoptIs
<1>2. AdoptAndLoad(p, session, keep) = Load(q, LeaseOf(q))
  BY DEF AdoptAndLoad
<1> HIDE DEF q
<1>3. q \in Portals
  BY <1>1 DEF Good
<1>4. LeaseOf(q) \in Leases
  BY <1>3, LeaseIs
<1> QED  BY <1>1, <1>2, <1>4, LoadIs

LEMMA ForgetIs ==
  ASSUME NEW p, Good(p)
  PROVE  /\ Good(Forget(p)) /\ Forget(p).generation = p.generation + 1
         /\ Forget(p).session = Nobody
BY AdoptIs, Constants DEF Forget

\* What settles a refusal leaves the provider as it is, or forgets the session
\* under whose lease the refused request was sent.
LEMMA ClearIs ==
  ASSUME NEW p, Good(p), NEW lease \in Leases
  PROVE  /\ Good(ClearForRefusal(p, lease))
         /\ \/ /\ ClearForRefusal(p, lease).generation = p.generation
               /\ ClearForRefusal(p, lease).session = p.session
            \/ /\ Holding(p, lease)
               /\ ClearForRefusal(p, lease).generation = p.generation + 1
               /\ ClearForRefusal(p, lease).session = Nobody
<1>1. CASE ~Holding(p, lease)
  BY <1>1 DEF ClearForRefusal
<1>2. CASE Holding(p, lease) /\ p.replacing > 0
  <2> DEFINE q == ClearForRefusal(p, lease)
  <2>1. q = [p EXCEPT !.deferred = lease]
    BY <1>2 DEF ClearForRefusal
  <2> HIDE DEF q
  <2>2. /\ q \in Portals /\ q.generation = p.generation /\ q.session = p.session
        /\ q.inFlight = p.inFlight /\ q.screen = p.screen
    BY <2>1 DEF Good, Portals
  <2>3. Good(q)
    BY <2>2 DEF Good
  <2> QED  BY <2>2, <2>3 DEF q
<1>3. CASE Holding(p, lease) /\ ~ (p.replacing > 0)
  BY <1>3, ForgetIs DEF ClearForRefusal
<1> QED  BY <1>1, <1>2, <1>3

\* A load that fails forgets the session only when it was refused.
LEMMA FailLoadIs ==
  ASSUME NEW p, Good(p), NEW under \in Leases, NEW number, NEW refused \in BOOLEAN
  PROVE  /\ Good(FailLoad(p, under, number, refused))
         /\ \/ /\ FailLoad(p, under, number, refused).generation = p.generation
               /\ FailLoad(p, under, number, refused).session = p.session
            \/ /\ Holding(p, under) /\ (refused \/ p.session = Nobody)
               /\ FailLoad(p, under, number, refused).generation = p.generation + 1
               /\ FailLoad(p, under, number, refused).session = Nobody
<1>1. CASE ~Current(p, under, number)
  BY <1>1 DEF FailLoad
<1>2. CASE Current(p, under, number) /\ refused
  BY <1>2, ClearIs DEF FailLoad, Current
<1>3. CASE Current(p, under, number) /\ ~refused /\ under.session = Nobody
  <2>1. p.session = Nobody /\ Holding(p, under)
    BY <1>3, LeaseIs DEF Good, Current
  <2> QED  BY <1>3, <2>1, ForgetIs DEF FailLoad
<1>4. CASE Current(p, under, number) /\ ~refused /\ under.session # Nobody
  <2> DEFINE screen == [p.screen EXCEPT !.loading = FALSE, !.problem = TRUE]
             q == FailLoad(p, under, number, refused)
  <2>1. q = [p EXCEPT !.screen = screen]
    BY <1>4 DEF FailLoad, Good, Portals
  <2>2. screen \in Screens /\ ~ShownAsRead(screen) /\ screen.status = p.screen.status
    BY DEF Screens, ShownAsRead, Good, Portals
  <2> HIDE DEF q, screen
  <2>3. /\ q \in Portals /\ q.generation = p.generation /\ q.session = p.session
        /\ q.inFlight = p.inFlight /\ q.screen = screen
    BY <2>1, <2>2 DEF Good, Portals
  <2>4. Good(q)
    BY <2>2, <2>3 DEF Good
  <2> QED  BY <2>3, <2>4 DEF q
<1> QED  BY <1>1, <1>2, <1>3, <1>4

LEMMA FinishedIs ==
  ASSUME NEW p, Good(p), NEW number
  PROVE  /\ Good(Finished(p, number))
         /\ Finished(p, number).generation = p.generation
         /\ Finished(p, number).session = p.session
<1>1. CASE p.latest # number
  BY <1>1 DEF Finished
<1>2. CASE p.latest = number
  <2> DEFINE q == Finished(p, number)
  <2>1. q = [p EXCEPT !.inFlight = NoLease]
    BY <1>2 DEF Finished
  <2> HIDE DEF q
  <2>2. /\ q \in Portals /\ q.generation = p.generation /\ q.session = p.session
        /\ q.inFlight = NoLease /\ q.screen = p.screen
    BY <2>1, Constants DEF Good, Portals
  <2>3. p.generation \in Nat
    BY DEF Good, Portals
  <2>4. Good(q)
    BY <2>2, <2>3, Constants DEF Good
  <2> QED  BY <2>2, <2>4 DEF q
<1> QED  BY <1>1, <1>2
-----------------------------------------------------------------------------
(* Requests. *)

\* A request sent in this step.
FromNow(x) ==
  /\ x \in Awaited /\ x.answer = NoAnswer /\ x.cookie = cookie'
  /\ x.lease.generation <= portal'.generation /\ x.under.generation <= portal'.generation
  /\ x.kind = "check" => x.number <= portal'.generation
  /\ Asker(x) => x.number = x.lease.generation
  /\ x.kind = "detail" => x.lease.session # Nobody

LEMMA NoAnswerIs ==
  /\ NoAnswer \in Answers /\ NoAnswer.is = "awaited" /\ NoAnswer.session = Nobody
  /\ \A v \in {"ok", "failed", "forbidden", "unauthenticated", "lost"} :
       Says(v) \in Answers /\ Says(v).is = v /\ Says(v).session = Nobody
<1>1. Nobody \in Known /\ Unbound \in Bindings
  BY Constants
<1> QED  BY <1>1 DEF NoAnswer, Answers, Says

LEMMA RequestIs ==
  ASSUME NEW kind \in Reads \union Askers \union Mutations \union {"login"},
         NEW lease \in Leases, NEW number \in Int, cookie' \in Known
  PROVE  /\ Request(kind, lease, number) \in Awaited
         /\ Request(kind, lease, number).kind = kind
         /\ Request(kind, lease, number).lease = lease
         /\ Request(kind, lease, number).under = lease
         /\ Request(kind, lease, number).number = number
         /\ Request(kind, lease, number).cookie = cookie'
         /\ Request(kind, lease, number).answer = NoAnswer
BY NoAnswerIs, Constants DEF Request, Awaited

\* A request that is of no special kind is sent under a lease of now or before.
LEMMA SentNow ==
  ASSUME NEW kind \in (Reads \union Mutations \union {"login"}) \ {"check", "detail"},
         NEW lease \in Leases, NEW number \in Int, cookie' \in Known,
         lease.generation <= portal'.generation
  PROVE  FromNow(Request(kind, lease, number))
<1> DEFINE x == Request(kind, lease, number)
<1>1. /\ x \in Awaited /\ x.kind = kind /\ x.lease = lease /\ x.under = lease
      /\ x.cookie = cookie' /\ x.answer = NoAnswer
  BY RequestIs
<1>2. kind \notin {"check", "detail", "refusal", "ending"}
  BY DEF Reads, Mutations
<1> HIDE DEF x
<1> QED  BY <1>1, <1>2 DEF FromNow, Asker, x

LEMMA BegunIs ==
  ASSUME Typed, NEW p, Good(p), portal' = p, cookie' \in Known, NEW x \in Begun(p)
  PROVE  FromNow(x)
<1>1. /\ x = Request("profile", p.inFlight, p.latest)
      /\ p.inFlight \in Leases /\ p.latest \in Int
      /\ p.inFlight.generation <= portal'.generation
  BY DEF Begun, Good, Portals
<1>2. "profile" \in (Reads \union Mutations \union {"login"}) \ {"check", "detail"}
  BY DEF Reads
<1> QED  BY <1>1, <1>2, SentNow

LEMMA AskingIs ==
  ASSUME Typed, NEW kind \in Askers, NEW lease \in Leases, cookie' \in Known,
         lease.generation = portal.generation, portal'.generation \in Nat,
         portal.generation <= portal'.generation,
         NEW x \in Asking(kind, lease)
  PROVE  FromNow(x)
<1>1. portal.generation \in Nat
  BY DEF Typed, Portals
<1>2. CASE x = Request(kind, lease, portal.generation)
  <2>1. /\ x \in Awaited /\ x.kind = kind /\ x.lease = lease /\ x.under = lease
        /\ x.number = portal.generation /\ x.cookie = cookie' /\ x.answer = NoAnswer
    BY <1>1, <1>2, RequestIs
  <2> QED  BY <2>1 DEF FromNow, Asker, Askers
<1>3. CASE x = Request("check", NoLease, portal.generation)
  <2>1. "check" \in Reads /\ NoLease \in Leases /\ NoLease.generation = -1
    BY Constants DEF Reads
  <2>2. /\ x \in Awaited /\ x.kind = "check" /\ x.lease = NoLease /\ x.under = NoLease
        /\ x.number = portal.generation /\ x.cookie = cookie' /\ x.answer = NoAnswer
    BY <1>1, <1>3, <2>1, RequestIs
  <2> QED  BY <1>1, <2>1, <2>2 DEF FromNow, Asker
<1> QED  BY <1>2, <1>3 DEF Asking

\* A turn leaves what was awaited but for what it settles, and sends now.
LEMMA TurnIs ==
  ASSUME Typed, NEW p, Good(p), NEW r, NEW more, Turn(p, r, more), cookie' \in Known,
         \A x \in more : FromNow(x)
  PROVE  /\ portal' = p
         /\ \A x \in requests' : x \in requests \ {r} \/ FromNow(x)
<1>1. portal' = p
  BY DEF Turn
<1>2. \A x \in Begun(p) : FromNow(x)
  BY <1>1, BegunIs
<1> QED  BY <1>1, <1>2 DEF Turn

-----------------------------------------------------------------------------
(* A step in which answers are settled and requests are sent. *)

\* The provider changes its session with its generation, or not at all; and the
\* session is the one it was, none, or one that a settled answer brought.
Moved(settled) ==
  /\ Good(portal')
  /\ \/ portal'.generation = portal.generation /\ portal'.session = portal.session
     \/ portal'.generation = portal.generation + 1
  /\ portal'.session \in {portal.session, Nobody} \union {r.answer.session : r \in settled}
  /\ cookie' \in {cookie, Nobody} \union {r.answer.session : r \in settled}
  /\ cookie' # cookie /\ portal'.generation = portal.generation => cookie' # portal.session
  /\ \A x \in requests' : x \in requests \ settled \/ FromNow(x)
  /\ api' = api /\ happened' \in History

LEMMA MovedTypes ==
  ASSUME PortalInv, NEW settled \in SUBSET requests, Moved(settled)
  PROVE  /\ Typed' /\ OpenedSoFar' /\ portal'.session \in Known /\ portal'.generation \in Nat
         /\ portal.generation \in Nat /\ portal.generation <= portal'.generation
<1>1. /\ portal \in Portals /\ requests \subseteq Awaited /\ cookie \in Known
      /\ api.opened \in Nat /\ portal' \in Portals
  BY Constants DEF PortalInv, Typed, Moved, Good
<1>2. \A r \in requests : r.answer.session \in Known
  BY <1>1 DEF Awaited, Answers
<1>3. portal'.session \in Known /\ portal'.generation \in Nat /\ portal.generation \in Nat
  BY <1>1 DEF Portals
<1>4. cookie' \in Known
  BY <1>1, <1>2, Constants DEF Moved
<1>5. requests' \subseteq Awaited
  BY <1>1 DEF Moved, FromNow
<1>6. Typed'
  BY <1>1, <1>4, <1>5 DEF PortalInv, Typed, Moved
<1>7. portal'.session <= api.opened /\ cookie' <= api.opened
  BY <1>1, Constants DEF PortalInv, OpenedSoFar, Moved
<1>8. OpenedSoFar'
  <2>1. ASSUME NEW x \in requests'
        PROVE  x.cookie <= api.opened /\ x.answer.session <= api.opened
    <3>1. CASE x \in requests
      BY <3>1 DEF PortalInv, OpenedSoFar
    <3>2. CASE FromNow(x)
      BY <1>1, <1>7, <3>2, NoAnswerIs, Constants DEF FromNow
    <3> QED  BY <3>1, <3>2 DEF Moved
  <2> QED  BY <1>7, <2>1 DEF OpenedSoFar, Moved
<1>9. portal.generation <= portal'.generation
  BY <1>3 DEF Moved
<1> QED  BY <1>3, <1>6, <1>8, <1>9

LEMMA MovedKeepsAnswers ==
  ASSUME PortalInv, NEW settled \in SUBSET requests, Moved(settled)
  PROVE  NewIsNew' /\ LeasesArePast' /\ AnswersAreTheServers'
<1>1. /\ portal'.generation \in Nat /\ portal.generation \in Nat
      /\ portal.generation <= portal'.generation
      /\ requests \subseteq Awaited
  BY MovedTypes DEF PortalInv, Typed
<1>2. \A x \in requests' : x \in requests \ settled \/ FromNow(x)
  BY DEF Moved
<1>3. NewIsNew'
  <2> SUFFICES ASSUME NEW f \in requests', Brings(f)
               PROVE  /\ f.answer.session \notin {portal'.session, cookie'}
                      /\ \A r \in requests' : /\ r.cookie # f.answer.session
                                              /\ r # f => r.answer.session # f.answer.session
    BY DEF NewIsNew, Brings
  <2>1. f \in requests \ settled
    BY <1>2, NoAnswerIs DEF Brings, FromNow
  <2>2. f.answer.session # Nobody
    BY <2>1 DEF PortalInv, AnswersAreTheServers, Brings
  <2>3. /\ f.answer.session \notin {portal.session, cookie}
        /\ \A r \in requests : /\ r.cookie # f.answer.session
                               /\ r # f => r.answer.session # f.answer.session
    BY <2>1 DEF PortalInv, NewIsNew
  <2>4. f.answer.session \notin {portal'.session, cookie'}
    BY <2>1, <2>2, <2>3 DEF Moved
  <2>5. ASSUME NEW r \in requests'
        PROVE  /\ r.cookie # f.answer.session
               /\ r # f => r.answer.session # f.answer.session
    <3>1. CASE r \in requests
      BY <2>3, <3>1
    <3>2. CASE FromNow(r)
      BY <2>2, <2>4, <3>2, NoAnswerIs DEF FromNow
    <3> QED  BY <1>2, <3>1, <3>2
  <2> QED  BY <2>4, <2>5
<1>4. LeasesArePast'
  <2>1. portal'.inFlight.generation <= portal'.generation
    BY DEF Moved, Good
  <2>2. ASSUME NEW x \in requests'
        PROVE  /\ x.lease.generation <= portal'.generation
               /\ x.under.generation <= portal'.generation
               /\ x.kind = "check" => x.number <= portal'.generation
               /\ Asker(x) => x.number = x.lease.generation
               /\ x.kind = "detail" => x.lease.session # Nobody
    <3>1. CASE x \in requests
      <4>1. x.lease.generation \in Int /\ x.under.generation \in Int /\ x.number \in Int
        BY <1>1, <3>1 DEF Awaited, Leases
      <4>2. /\ x.lease.generation <= portal.generation
            /\ x.under.generation <= portal.generation
            /\ x.kind = "check" => x.number <= portal.generation
            /\ Asker(x) => x.number = x.lease.generation
            /\ x.kind = "detail" => x.lease.session # Nobody
        BY <3>1 DEF PortalInv, LeasesArePast
      <4> QED  BY <1>1, <4>1, <4>2
    <3>2. CASE FromNow(x)
      BY <3>2 DEF FromNow
    <3> QED  BY <1>2, <3>1, <3>2
  <2> QED  BY <2>1, <2>2 DEF LeasesArePast, Asker
<1>5. AnswersAreTheServers'
  <2>1. api' = api
    BY DEF Moved
  <2>2. ASSUME NEW x \in requests', x.answer.is \in {"ok", "unauthenticated"}
        PROVE  x \in requests
    BY <1>2, <2>2, NoAnswerIs DEF FromNow
  <2> QED  BY <2>1, <2>2 DEF PortalInv, AnswersAreTheServers
<1> QED  BY <1>3, <1>4, <1>5

LEMMA MovedKeeps ==
  ASSUME PortalInv, NEW settled \in SUBSET requests, Moved(settled)
  PROVE  PortalInv'
<1>1. /\ Typed' /\ OpenedSoFar' /\ NewIsNew' /\ LeasesArePast' /\ AnswersAreTheServers'
      /\ portal'.generation \in Nat /\ portal.generation \in Nat
      /\ requests \subseteq Awaited /\ portal \in Portals /\ portal' \in Portals
  BY MovedTypes, MovedKeepsAnswers DEF PortalInv, Typed
<1>2. \A x \in requests' : x \in requests \ settled \/ FromNow(x)
  BY DEF Moved
<1>3. BelievedIsTrue'
  <2> SUFFICES ASSUME portal'.session # Nobody, NEW x \in requests'
               PROVE  /\ Speaks(x)' => x.cookie = portal'.session \/ portal'.session # cookie'
                      /\ Asker(x) /\ x.answer.is = "unauthenticated"
                           /\ Holding(portal', x.lease) => Gone'
    BY DEF BelievedIsTrue, Asker
  <2>1. CASE FromNow(x)
    BY <2>1, NoAnswerIs DEF FromNow
  <2>2. CASE x \in requests /\ portal'.generation = portal.generation + 1
    <3>1. /\ x.lease.generation \in Int /\ x.under.generation \in Int /\ x.number \in Int
          /\ x.lease \in Leases /\ x.under \in Leases
      BY <1>1, <2>2 DEF Awaited, Leases
    <3>2. /\ x.lease.generation <= portal.generation /\ x.under.generation <= portal.generation
          /\ x.kind = "check" => x.number <= portal.generation
      BY <2>2 DEF PortalInv, LeasesArePast
    <3>3. /\ x.lease.generation # portal'.generation /\ x.under.generation # portal'.generation
          /\ x.kind = "check" => x.number # portal'.generation
      BY <1>1, <2>2, <3>1, <3>2
    <3>4. ~Holding(portal', x.lease) /\ ~Holding(portal', x.under)
      BY <1>1, <3>1, <3>3, LeaseIs
    <3> QED  BY <3>3, <3>4 DEF Speaks, Stranger
  <2>3. CASE /\ x \in requests
             /\ portal'.generation = portal.generation /\ portal'.session = portal.session
    <3>1. x.lease \in Leases /\ x.under \in Leases
      BY <1>1, <2>3 DEF Awaited
    <3>2. /\ Holding(portal', x.lease) <=> Holding(portal, x.lease)
          /\ Holding(portal', x.under) <=> Holding(portal, x.under)
      BY <1>1, <2>3, <3>1, LeaseIs
    <3>3. Speaks(x)' <=> Speaks(x)
      BY <2>3, <3>2 DEF Speaks, Stranger
    <3>4. cookie' # cookie => cookie' # portal.session
      BY <2>3 DEF Moved
    <3>5. Gone => Gone'
      BY <2>3, <3>4 DEF Gone, Moved
    <3>6. /\ Speaks(x) => x.cookie = portal.session \/ portal.session # cookie
          /\ Asker(x) /\ x.answer.is = "unauthenticated" /\ Holding(portal, x.lease) => Gone
      BY <2>3 DEF PortalInv, BelievedIsTrue
    <3> QED  BY <2>3, <3>2, <3>3, <3>4, <3>5, <3>6
  <2> QED  BY <1>2, <2>1, <2>2, <2>3 DEF Moved
<1>4. Anonymous' /\ ShowsOneSession'
  BY DEF Moved, Good, Anonymous, ShowsOneSession, ShownAsRead
<1> QED  BY <1>1, <1>3, <1>4 DEF PortalInv

-----------------------------------------------------------------------------
(* What applying an answer makes of the provider. *)

\* Under the invariant a turn of the event loop that settles "r" and makes the
\* provider p moves as it may.
TurnsTo(p, r) ==
  /\ portal' = p /\ Good(p)
  /\ \/ p.generation = portal.generation /\ p.session = portal.session
     \/ p.generation = portal.generation + 1
  /\ p.session \in {portal.session, Nobody, r.answer.session}
  /\ cookie' \in {cookie, Nobody, r.answer.session}
  /\ cookie' # cookie => p.generation = portal.generation + 1
  /\ portal.session # Nobody /\ p.session = Nobody => Gone \/ Deceives(r)
  /\ \A x \in requests' : x \in requests \ {r} \/ FromNow(x)

\* What is known of an answer that is applied.
LEMMA AppliedIs ==
  ASSUME PortalInv, NEW r \in requests, r.answer # NoAnswer, cookie' = SetCookie(r)
  PROVE  /\ r \in Awaited /\ r.lease \in Leases /\ r.under \in Leases /\ r.number \in Int
         /\ r.answer.session \in Known /\ r.answer.workspace \in Bindings
         /\ cookie' \in Known /\ cookie' \in {cookie, Nobody, r.answer.session}
         /\ r.kind \notin {"login", "change", "logout"} => cookie' = cookie
         /\ r.answer.is # "ok" => cookie' = cookie
         /\ portal.generation \in Nat /\ portal \in Portals /\ Typed
<1>1. /\ portal \in Portals /\ requests \subseteq Awaited /\ cookie \in Known /\ Typed
  BY DEF PortalInv, Typed
<1>2. r.answer.session \in Known /\ r.answer.workspace \in Bindings
  BY <1>1 DEF Awaited, Answers
<1> QED  BY <1>1, <1>2, Constants DEF SetCookie, Awaited, Portals

LEMMA PortalIsGood == PortalInv => Good(portal)
BY DEF PortalInv, Typed, LeasesArePast, Anonymous, ShowsOneSession, Good, ShownAsRead

\* The session a refused answer speaks of is gone, when it is the one held and the answer
\* is not a stranger's.
LEMMA RefusalsAreBelieved ==
  ASSUME PortalInv, NEW r \in requests, portal.session # Nobody
  PROVE  /\ r.kind \in Reads \ {"check"} /\ r.answer.is = "unauthenticated"
              /\ (Holding(portal, r.lease) \/ Holding(portal, r.under)) => Gone \/ Stranger(r)
         /\ r.kind = "logout" /\ r.answer.is = "ok" /\ Holding(portal, r.lease) => Gone
         /\ Asker(r) /\ r.answer.is = "unauthenticated" /\ Holding(portal, r.lease) => Gone
<1>1. /\ Speaks(r) => r.cookie = portal.session \/ portal.session # cookie
      /\ Asker(r) /\ r.answer.is = "unauthenticated" /\ Holding(portal, r.lease) => Gone
  BY DEF PortalInv, BelievedIsTrue
<1>2. /\ r.answer.is = "unauthenticated" /\ r.kind \in Reads => r.cookie \notin api.live
      /\ r.answer.is = "ok" /\ r.kind = "logout" => r.cookie \notin api.live
  BY DEF PortalInv, AnswersAreTheServers
<1> QED  BY <1>1, <1>2 DEF Speaks, Stranger, Gone

\* A turn to a provider that is what it was, for session and generation.
LEMMA TurnStays ==
  ASSUME PortalInv, NEW r \in requests, r.answer # NoAnswer, cookie' = SetCookie(r),
         cookie' = cookie, NEW p, Good(p),
         p.generation = portal.generation, p.session = portal.session,
         NEW more, Turn(p, r, more), \A x \in more : FromNow(x)
  PROVE  TurnsTo(p, r)
BY AppliedIs, TurnIs DEF TurnsTo

LEMMA TurnRests ==
  ASSUME PortalInv, NEW r \in requests, r.answer # NoAnswer, cookie' = SetCookie(r),
         cookie' = cookie, NEW p, Good(p),
         p.generation = portal.generation, p.session = portal.session, Turn(p, r, {})
  PROVE  TurnsTo(p, r)
<1> DEFINE more == {}
<1>1. Turn(p, r, more) /\ \A x \in more : FromNow(x)
  OBVIOUS
<1> HIDE DEF more
<1> QED  BY <1>1, TurnStays

\* A turn to a provider that forgot the session, because it is gone or a stranger
\* said so.
LEMMA TurnForgets ==
  ASSUME PortalInv, NEW r \in requests, r.answer # NoAnswer, cookie' = SetCookie(r),
         NEW p, Good(p), p.generation = portal.generation + 1, p.session = Nobody,
         portal.session # Nobody => Gone \/ Deceives(r), Turn(p, r, {})
  PROVE  TurnsTo(p, r)
BY AppliedIs, TurnIs DEF TurnsTo

\* A turn to a provider that took the session the answer speaks of.
LEMMA TurnAdopts ==
  ASSUME PortalInv, NEW r \in requests, r.answer # NoAnswer, cookie' = SetCookie(r),
         NEW p, Good(p), p.generation = portal.generation + 1,
         p.session = r.answer.session, r.answer.session # Nobody,
         NEW more, Turn(p, r, more), \A x \in more : FromNow(x)
  PROVE  TurnsTo(p, r)
BY AppliedIs, TurnIs DEF TurnsTo

LEMMA LoadFailedIs ==
  ASSUME PortalInv, NEW r \in requests, r.answer # NoAnswer, cookie' = SetCookie(r),
         r.kind \in {"profile", "detail"}, LoadFailed(r)
  PROVE  TurnsTo(portal', r)
<1> DEFINE refused == r.answer.is = "unauthenticated"
           failed == FailLoad(portal, r.under, r.number, refused)
           p == Finished(failed, r.number)
<1>1. /\ Good(portal) /\ r.under \in Leases /\ refused \in BOOLEAN /\ cookie' = cookie
      /\ cookie' \in Known
  BY PortalIsGood, AppliedIs
<1>2. /\ Good(failed)
      /\ \/ failed.generation = portal.generation /\ failed.session = portal.session
         \/ /\ Holding(portal, r.under) /\ (refused \/ portal.session = Nobody)
            /\ failed.generation = portal.generation + 1 /\ failed.session = Nobody
  <2> HIDE DEF refused
  <2> QED  BY <1>1, FailLoadIs
<1> HIDE DEF failed
<1>3. Good(p) /\ p.generation = failed.generation /\ p.session = failed.session
  BY <1>2, FinishedIs
<1>4. Turn(p, r, {}) /\ portal' = p
  BY DEF LoadFailed, Turn, failed
<1> HIDE DEF p
<1>5. CASE failed.generation = portal.generation /\ failed.session = portal.session
  BY <1>1, <1>3, <1>4, <1>5, TurnRests
<1>6. CASE /\ Holding(portal, r.under) /\ (refused \/ portal.session = Nobody)
           /\ failed.generation = portal.generation + 1 /\ failed.session = Nobody
  <2>1. r.kind \in Reads \ {"check"} /\ ~Stranger(r)
    BY DEF Reads, Stranger
  <2>2. portal.session # Nobody => Gone
    BY <1>6, <2>1, RefusalsAreBelieved
  <2> QED  BY <1>3, <1>4, <1>6, <2>2, TurnForgets
<1> QED  BY <1>2, <1>5, <1>6

LEMMA IdentifyIs ==
  ASSUME PortalInv, NEW r \in requests, r.answer # NoAnswer, cookie' = SetCookie(r),
         r.kind = "profile", r.answer.is = "ok", Current(portal, r.lease, r.number),
         Identify(r)
  PROVE  TurnsTo(portal', r)
<1> DEFINE found == r.answer.session
<1>1. /\ Good(portal) /\ r.lease \in Leases /\ r.under \in Leases /\ r.number \in Int
      /\ cookie' = cookie /\ cookie' \in Known /\ found \in Known
      /\ portal \in Portals /\ portal.generation \in Nat /\ r \in Awaited
      /\ r.answer.workspace \in Bindings
  BY PortalIsGood, AppliedIs
<1>2. found # Nobody
  BY DEF PortalInv, AnswersAreTheServers
<1>3. /\ Holding(portal, r.lease) /\ r.lease.generation = portal.generation
      /\ r.lease.session = portal.session
  BY <1>1, LeaseIs DEF Current
<1>4. r.under.generation \in Int /\ r.under.generation <= portal.generation
  BY <1>1 DEF PortalInv, LeasesArePast, Leases
<1>5. ASSUME NEW lease \in Leases, lease.session = found,
             lease.generation <= portal'.generation, portal'.generation \in Nat,
             portal.generation <= portal'.generation,
             NEW x \in DetailOf(r, lease)
      PROVE  FromNow(x)
  <2> DEFINE q == Request("detail", lease, r.number)
  <2>1. /\ q \in Awaited /\ q.kind = "detail" /\ q.lease = lease /\ q.cookie = cookie'
        /\ q.answer = NoAnswer
    BY <1>1, <1>5, RequestIs DEF Reads
  <2> HIDE DEF q
  <2>2. x = [q EXCEPT !.under = r.under, !.attempt = r.attempt, !.asked = r.answer.workspace]
    BY <1>5 DEF DetailOf, q
  <2>3. /\ x \in Awaited /\ x.kind = "detail" /\ x.lease = lease /\ x.cookie = cookie'
        /\ x.answer = NoAnswer /\ x.under = r.under
    BY <1>1, <2>1, <2>2 DEF Awaited
  <2>4. x.under.generation <= portal'.generation
    BY <1>1, <1>4, <1>5, <2>3
  <2> QED  BY <1>2, <1>5, <2>3, <2>4 DEF FromNow, Asker
<1>6. CASE found = r.lease.session
  <2>1. Turn(portal, r, DetailOf(r, r.lease)) /\ portal' = portal
    BY <1>6 DEF Identify, Turn
  <2>2. \A x \in DetailOf(r, r.lease) : FromNow(x)
    BY <1>1, <1>3, <1>5, <1>6, <2>1
  <2> QED  BY <1>1, <2>1, <2>2, TurnStays
<1>7. CASE found # r.lease.session /\ r.lease.session = Nobody
  <2> DEFINE claimed == Claim(portal, found)
  <2>1. /\ claimed.generation = portal.generation + 1 /\ claimed.session = found
        /\ claimed.screen = portal.screen /\ claimed.inFlight = portal.inFlight
        /\ claimed \in Portals
    <3> DEFINE g == portal.generation + 1
    <3>1. g \in Nat /\ claimed = [portal EXCEPT !.generation = g, !.session = found,
                                                !.signingOut = NoLease]
      BY <1>1 DEF Claim, Portals
    <3>2. NoLease \in Leases
      BY Constants
    <3> HIDE DEF g, claimed
    <3>3. /\ claimed.generation = g /\ claimed.session = found
          /\ claimed.screen = portal.screen /\ claimed.inFlight = portal.inFlight
          /\ claimed \in Portals
      BY <1>1, <3>1, <3>2 DEF Portals
    <3> QED  BY <3>3 DEF g
  <2>2. Turn(claimed, r, DetailOf(r, LeaseOf(claimed))) /\ portal' = claimed
    BY <1>7 DEF Identify, Turn
  <2> HIDE DEF claimed
  <2>3. Good(claimed)
    <3>1. portal.inFlight.generation \in Int /\ portal.inFlight.generation <= portal.generation
      BY <1>1 DEF Good, Portals, Leases
    <3>2. portal.screen.status # "authenticated"
      BY <1>1, <1>3, <1>7 DEF Good
    <3> QED  BY <1>1, <1>2, <2>1, <3>1, <3>2 DEF Good, ShownAsRead
  <2>4. LeaseOf(claimed) \in Leases /\ LeaseOf(claimed).session = found
        /\ LeaseOf(claimed).generation = portal.generation + 1
    BY <2>1, LeaseIs
  <2>5. \A x \in DetailOf(r, LeaseOf(claimed)) : FromNow(x)
    BY <1>1, <1>5, <2>1, <2>2, <2>4
  <2> QED  BY <1>2, <2>1, <2>2, <2>3, <2>5, TurnAdopts
<1>8. CASE found # r.lease.session /\ r.lease.session # Nobody
  <2> DEFINE p == AdoptAndLoad(portal, found, FALSE)
  <2>1. Good(p) /\ p.generation = portal.generation + 1 /\ p.session = found
    BY <1>1, AdoptAndLoadIs
  <2>2. Turn(p, r, {}) /\ portal' = p
    BY <1>8 DEF Identify, Turn
  <2> HIDE DEF p
  <2> QED  BY <1>2, <2>1, <2>2, TurnAdopts
<1> QED  BY <1>6, <1>7, <1>8

\* A load that is no longer current ends without effect on what is shown.
LEMMA StaleIs ==
  ASSUME PortalInv, NEW r \in requests, r.answer # NoAnswer, cookie' = SetCookie(r),
         r.kind \in {"profile", "detail"}, Turn(Finished(portal, r.number), r, {})
  PROVE  TurnsTo(portal', r)
<1> DEFINE p == Finished(portal, r.number)
<1>1. Good(p) /\ p.generation = portal.generation /\ p.session = portal.session
  BY PortalIsGood, FinishedIs
<1>2. portal' = p /\ cookie' = cookie
  BY AppliedIs DEF Turn
<1>3. Turn(p, r, {})
  OBVIOUS
<1> HIDE DEF p
<1> QED  BY <1>1, <1>2, <1>3, TurnRests

LEMMA ProfileAnsweredIs ==
  ASSUME PortalInv, NEW r \in requests, r.answer # NoAnswer, cookie' = SetCookie(r),
         ProfileAnswered(r)
  PROVE  TurnsTo(portal', r)
BY LoadFailedIs, StaleIs, IdentifyIs DEF ProfileAnswered

LEMMA DetailAnsweredIs ==
  ASSUME PortalInv, NEW r \in requests, r.answer # NoAnswer, cookie' = SetCookie(r),
         DetailAnswered(r)
  PROVE  TurnsTo(portal', r)
<1>1. /\ Good(portal) /\ r.lease \in Leases /\ r.number \in Int /\ cookie' = cookie
      /\ cookie' \in Known /\ portal \in Portals /\ portal.generation \in Nat
      /\ r \in Awaited /\ r.answer.workspace \in Bindings /\ r.kind = "detail"
  BY PortalIsGood, AppliedIs DEF DetailAnswered
<1>2. CASE r.answer.is # "ok"
  BY <1>1, <1>2, LoadFailedIs DEF DetailAnswered
<1>3. CASE r.answer.is = "ok" /\ ~Current(portal, r.lease, r.number)
  BY <1>1, <1>3, StaleIs DEF DetailAnswered
<1>4. CASE r.answer.is = "ok" /\ Current(portal, r.lease, r.number)
  <2>1. /\ Holding(portal, r.lease) /\ r.lease.generation = portal.generation
        /\ r.lease.session = portal.session /\ r.lease.session # Nobody
    BY <1>1, <1>4, LeaseIs DEF Current, PortalInv, LeasesArePast
  <2>2. CASE Coherent(r)
    <3> DEFINE shown == Publish(portal, r)
               p == Finished(shown, r.number)
               screen == [status |-> "authenticated", ready |-> TRUE, of |-> r.lease.session,
                          names |-> r.asked, workspace |-> r.answer.workspace,
                          loading |-> FALSE, problem |-> FALSE]
    <3>1. /\ screen \in Screens /\ screen.of = portal.session
          /\ screen.workspace \in {Unbound, screen.names}
      BY <1>1, <2>1, <2>2 DEF Screens, Awaited, Leases, Coherent
    <3>2. shown = [portal EXCEPT !.screen = screen]
      BY DEF Publish
    <3> HIDE DEF screen, shown
    <3>3. /\ shown \in Portals /\ shown.generation = portal.generation
          /\ shown.session = portal.session /\ shown.inFlight = portal.inFlight
          /\ shown.screen = screen
      BY <1>1, <3>1, <3>2 DEF Portals
    <3>4. Good(shown)
      BY <1>1, <2>1, <3>1, <3>3 DEF Good
    <3>5. Good(p) /\ p.generation = portal.generation /\ p.session = portal.session
      BY <3>3, <3>4, FinishedIs
    <3>6. Turn(p, r, {}) /\ portal' = p
      BY <1>4, <2>2 DEF DetailAnswered, Turn, shown
    <3> HIDE DEF p
    <3> QED  BY <1>1, <3>5, <3>6, TurnRests
  <2>3. CASE ~Coherent(r) /\ r.attempt = 1
    <3> DEFINE x == [Request("profile", r.lease, r.number) EXCEPT !.attempt = 2]
               q == Request("profile", r.lease, r.number)
    <3>1. Turn(portal, r, {x}) /\ portal' = portal
      BY <1>4, <2>3 DEF DetailAnswered, Turn
    <3>2. FromNow(x)
      <4>1. /\ q \in Awaited /\ q.kind = "profile" /\ q.lease = r.lease /\ q.under = r.lease
            /\ q.cookie = cookie' /\ q.answer = NoAnswer
        BY <1>1, RequestIs DEF Reads
      <4> HIDE DEF q
      <4>2. x = [q EXCEPT !.attempt = 2]
        BY DEF q
      <4> HIDE DEF x
      <4>3. /\ x \in Awaited /\ x.kind = "profile" /\ x.lease = r.lease /\ x.under = r.lease
            /\ x.cookie = cookie' /\ x.answer = NoAnswer
        BY <4>1, <4>2 DEF Awaited
      <4> QED  BY <1>1, <2>1, <3>1, <4>3 DEF FromNow, Asker
    <3> HIDE DEF x
    <3> QED  BY <1>1, <3>1, <3>2, TurnStays
  <2>4. CASE ~Coherent(r) /\ r.attempt # 1
    <3> DEFINE failed == FailLoad(portal, r.lease, r.number, FALSE)
               p == Finished(failed, r.number)
    <3>1. /\ Good(failed) /\ failed.generation = portal.generation
          /\ failed.session = portal.session
      BY <1>1, <2>1, FailLoadIs
    <3>2. Turn(p, r, {}) /\ portal' = p
      BY <1>4, <2>4 DEF DetailAnswered, Turn
    <3> HIDE DEF failed
    <3>3. Good(p) /\ p.generation = portal.generation /\ p.session = portal.session
      BY <3>1, FinishedIs
    <3> HIDE DEF p
    <3> QED  BY <1>1, <3>2, <3>3, TurnRests
  <2> QED  BY <2>2, <2>3, <2>4
<1> QED  BY <1>2, <1>3, <1>4

LEMMA AmbiguousIs ==
  ASSUME PortalInv, NEW r \in requests, r.answer # NoAnswer, cookie' = SetCookie(r),
         cookie' = cookie, Ambiguous(portal, r, r.lease)
  PROVE  TurnsTo(portal', r)
<1> DEFINE more == IF Holding(portal, r.lease) THEN Asking("refusal", r.lease) ELSE {}
<1>1. /\ Good(portal) /\ r.lease \in Leases /\ cookie' \in Known /\ portal \in Portals
      /\ portal.generation \in Nat /\ Typed
  BY PortalIsGood, AppliedIs
<1>2. Turn(portal, r, more) /\ portal' = portal
  BY DEF Ambiguous, Turn
<1>3. \A x \in more : FromNow(x)
  <2> SUFFICES ASSUME Holding(portal, r.lease), NEW x \in Asking("refusal", r.lease)
               PROVE  FromNow(x)
    OBVIOUS
  <2>1. r.lease.generation = portal.generation
    BY <1>1, LeaseIs
  <2>2. "refusal" \in Askers
    BY DEF Askers
  <2> QED  BY <1>1, <1>2, <2>1, <2>2, AskingIs
<1> HIDE DEF more
<1> QED  BY <1>1, <1>2, <1>3, TurnStays

\* A refusal that is believed forgets the session; the one held is then gone (Gone), or
\* the refusal is a stranger's.
LEMMA ClearedIs ==
  ASSUME PortalInv, NEW r \in requests, r.answer # NoAnswer, cookie' = SetCookie(r),
         r.answer.is = "unauthenticated", r.kind \in {"read", "refusal"},
         Turn(ClearForRefusal(portal, r.lease), r, {})
  PROVE  TurnsTo(portal', r)
<1> DEFINE p == ClearForRefusal(portal, r.lease)
<1>1. Good(portal) /\ r.lease \in Leases /\ cookie' = cookie
  BY PortalIsGood, AppliedIs
<1>2. /\ Good(p)
      /\ \/ p.generation = portal.generation /\ p.session = portal.session
         \/ /\ Holding(portal, r.lease)
            /\ p.generation = portal.generation + 1 /\ p.session = Nobody
  BY <1>1, ClearIs
<1>3. Turn(p, r, {}) /\ portal' = p
  BY DEF Turn
<1>4. Holding(portal, r.lease) /\ portal.session # Nobody => Gone \/ Deceives(r)
  BY RefusalsAreBelieved DEF Reads, Asker, Deceives
<1> HIDE DEF p
<1>5. CASE p.generation = portal.generation /\ p.session = portal.session
  BY <1>1, <1>2, <1>3, <1>5, TurnRests
<1>6. CASE /\ Holding(portal, r.lease)
           /\ p.generation = portal.generation + 1 /\ p.session = Nobody
  BY <1>2, <1>3, <1>4, <1>6, TurnForgets
<1> QED  BY <1>2, <1>5, <1>6

\* The provider begins, or joins, a load of the session it holds.
LEMMA LoadingIs ==
  ASSUME PortalInv, NEW r \in requests, r.answer # NoAnswer, cookie' = SetCookie(r),
         cookie' = cookie, NEW p, Good(p), p.generation = portal.generation,
         p.session = portal.session, Turn(Load(p, r.lease), r, {})
  PROVE  TurnsTo(portal', r)
<1> DEFINE q == Load(p, r.lease)
<1>1. Good(q) /\ q.generation = portal.generation /\ q.session = portal.session
  BY AppliedIs, LoadIs
<1>2. Turn(q, r, {}) /\ portal' = q
  BY DEF Turn
<1> HIDE DEF q
<1> QED  BY <1>1, <1>2, TurnRests

\* An answer that is dropped.
LEMMA DroppedIs ==
  ASSUME PortalInv, NEW r \in requests, r.answer # NoAnswer, cookie' = SetCookie(r),
         cookie' = cookie, Turn(portal, r, {})
  PROVE  TurnsTo(portal', r)
<1>1. portal' = portal
  BY DEF Turn
<1> QED  BY <1>1, PortalIsGood, TurnRests

LEMMA RefusalSettledIs ==
  ASSUME PortalInv, NEW r \in requests, r.answer # NoAnswer, cookie' = SetCookie(r),
         RefusalSettled(r)
  PROVE  TurnsTo(portal', r)
<1>1. r.kind = "refusal" /\ cookie' = cookie
  BY AppliedIs DEF RefusalSettled
<1>2. CASE r.answer.is = "unauthenticated"
  BY <1>1, <1>2, ClearedIs DEF RefusalSettled
<1>3. CASE r.answer.is = "ok" /\ Turn(AdoptAndLoad(portal, r.answer.session, TRUE), r, {})
  <2> DEFINE p == AdoptAndLoad(portal, r.answer.session, TRUE)
  <2>1. /\ Good(p) /\ p.generation = portal.generation + 1 /\ p.session = r.answer.session
    BY PortalIsGood, AppliedIs, AdoptAndLoadIs
  <2>2. r.answer.session # Nobody
    BY <1>1, <1>3 DEF PortalInv, AnswersAreTheServers
  <2>3. Turn(p, r, {}) /\ portal' = p
    BY <1>3 DEF Turn
  <2> HIDE DEF p
  <2> DEFINE more == {}
  <2>4. Turn(p, r, more) /\ \A x \in more : FromNow(x)
    BY <2>3
  <2> HIDE DEF more
  <2> QED  BY <2>1, <2>2, <2>3, <2>4, TurnAdopts
<1>4. CASE r.answer.is # "unauthenticated" /\ Turn(portal, r, {})
  BY <1>1, <1>4, DroppedIs
<1> QED  BY <1>2, <1>3, <1>4 DEF RefusalSettled

LEMMA PageAnsweredIs ==
  ASSUME PortalInv, NEW r \in requests, r.answer # NoAnswer, cookie' = SetCookie(r),
         PageAnswered(r)
  PROVE  TurnsTo(portal', r)
<1>1. r.kind \in {"read", "mutation"} /\ cookie' = cookie
  BY AppliedIs DEF PageAnswered
<1>2. CASE Turn(portal, r, {})
  BY <1>1, <1>2, DroppedIs
<1>3. CASE Turn(Load(portal, r.lease), r, {})
  BY <1>1, <1>3, PortalIsGood, LoadingIs
<1>4. CASE /\ r.answer.is = "unauthenticated" /\ r.kind = "read"
           /\ Turn(ClearForRefusal(portal, r.lease), r, {})
  BY <1>4, ClearedIs
<1>5. CASE Ambiguous(portal, r, r.lease)
  BY <1>1, <1>5, AmbiguousIs
<1> QED  BY <1>2, <1>3, <1>4, <1>5 DEF PageAnswered

LEMMA ReplacedIs ==
  ASSUME PortalInv, NEW r \in requests, r.answer # NoAnswer, cookie' = SetCookie(r),
         Replaced(r)
  PROVE  TurnsTo(portal', r)
<1>1. /\ Good(portal) /\ portal \in Portals /\ r.lease \in Leases /\ r.answer.session \in Known
      /\ portal.generation \in Nat /\ cookie' \in Known /\ Typed
      /\ r.kind \in {"login", "change"} /\ portal.deferred \in Leases
  BY PortalIsGood, AppliedIs DEF Replaced, Portals
<1>2. /\ Unawaited \in Portals /\ Unawaited.generation = portal.generation
      /\ Unawaited.session = portal.session /\ Unawaited.inFlight = portal.inFlight
      /\ Unawaited.screen = portal.screen
  <2> DEFINE n == portal.replacing - 1
  <2>1. n \in Int /\ Unawaited = [portal EXCEPT !.replacing = n, !.deferred = NoLease]
    BY <1>1 DEF Portals, Unawaited
  <2> HIDE DEF n
  <2> QED  BY <1>1, <2>1, Constants DEF Portals
<1>3. Good(Unawaited)
  BY <1>1, <1>2 DEF Good
<1>4. CASE r.answer.is = "ok"
  <2> DEFINE p == AdoptAndLoad(Unawaited, r.answer.session, TRUE)
  <2>1. Turn(p, r, {}) /\ portal' = p
    BY <1>4 DEF Replaced, Turn
  <2>2. Good(p) /\ p.generation = portal.generation + 1 /\ p.session = r.answer.session
    <3> DEFINE session == r.answer.session
    <3>1. session \in Known /\ Unawaited.generation = portal.generation
      BY <1>1, <1>2
    <3>2. p = AdoptAndLoad(Unawaited, session, TRUE)
      OBVIOUS
    <3> HIDE DEF p, session
    <3>3. Good(p) /\ p.generation = Unawaited.generation + 1 /\ p.session = session
      BY <1>3, <3>1, <3>2, AdoptAndLoadIs
    <3> QED  BY <3>1, <3>3 DEF session
  <2>3. r.answer.session # Nobody
    BY <1>1, <1>4 DEF PortalInv, AnswersAreTheServers
  <2> HIDE DEF p
  <2> DEFINE more == {}
  <2>4. Turn(p, r, more) /\ \A x \in more : FromNow(x)
    BY <2>1
  <2> HIDE DEF more
  <2> QED  BY <2>1, <2>2, <2>3, <2>4, TurnAdopts
<1>5. CASE r.answer.is # "ok"
  <2>1. PICK p, more :
          /\ p \in {Unawaited, Load(Unawaited, r.lease)} /\ Turn(p, r, more)
          /\ more \subseteq
               (IF Holding(Unawaited, portal.deferred) THEN Asking("refusal", portal.deferred)
                ELSE {})
               \union (IF Holding(Unawaited, r.lease) THEN Asking("refusal", r.lease) ELSE {})
    BY <1>5 DEF Replaced, ReplacementFailed
  <2>2. Good(p) /\ p.generation = portal.generation /\ p.session = portal.session
    BY <1>1, <1>2, <1>3, <2>1, LoadIs
  <2>3. portal' = p /\ cookie' = cookie
    BY <1>5, <2>1, AppliedIs DEF Turn
  <2>4. ASSUME NEW lease \in Leases, Holding(Unawaited, lease), NEW x \in Asking("refusal", lease)
        PROVE  FromNow(x)
    <3>1. lease.generation = portal.generation
      BY <1>2, <2>4, LeaseIs
    <3>2. "refusal" \in Askers
      BY DEF Askers
    <3> QED  BY <1>1, <2>2, <2>3, <2>4, <3>1, <3>2, AskingIs
  <2>5. \A x \in more : FromNow(x)
    BY <1>1, <2>1, <2>4
  <2> QED  BY <2>1, <2>2, <2>3, <2>5, TurnStays
<1> QED  BY <1>4, <1>5

LEMMA ConcludedIs ==
  ASSUME PortalInv
  PROVE  /\ Good(Concluded) /\ Concluded.generation = portal.generation
         /\ Concluded.session = portal.session
<1>1. Good(portal) /\ portal \in Portals
  BY PortalIsGood DEF Good
<1>2. /\ Concluded \in Portals /\ Concluded.generation = portal.generation
      /\ Concluded.session = portal.session /\ Concluded.inFlight = portal.inFlight
      /\ Concluded.screen = portal.screen
  BY <1>1, Constants DEF Concluded, Portals
<1> QED  BY <1>1, <1>2 DEF Good

\* A sign-out that was made, or found made, forgets the session.
LEMMA ForgottenIs ==
  ASSUME PortalInv, NEW r \in requests, r.answer # NoAnswer, cookie' = SetCookie(r),
         portal.session # Nobody => Gone, Turn(Forget(Concluded), r, {})
  PROVE  TurnsTo(portal', r)
<1> DEFINE p == Forget(Concluded)
<1>1. Good(p) /\ p.generation = portal.generation + 1 /\ p.session = Nobody
  BY ConcludedIs, ForgetIs
<1>2. Turn(p, r, {}) /\ portal' = p
  BY DEF Turn
<1> HIDE DEF p
<1> QED  BY <1>1, <1>2, TurnForgets

LEMMA LogoutAnsweredIs ==
  ASSUME PortalInv, NEW r \in requests, r.answer # NoAnswer, cookie' = SetCookie(r),
         LogoutAnswered(r)
  PROVE  TurnsTo(portal', r)
<1>1. /\ Good(portal) /\ r.lease \in Leases /\ portal \in Portals /\ cookie' \in Known
      /\ portal.generation \in Nat /\ Typed /\ r.kind = "logout"
  BY PortalIsGood, AppliedIs DEF LogoutAnswered
<1>2. CASE ~Pending(r.lease)
  <2>1. cookie' = cookie
    BY <1>1, <1>2 DEF SetCookie
  <2> QED  BY <1>2, <2>1, DroppedIs DEF LogoutAnswered
<1>3. CASE Pending(r.lease) /\ r.answer.is = "ok"
  <2>1. Holding(portal, r.lease)
    BY <1>3 DEF Pending
  <2>2. portal.session # Nobody => Gone
    BY <1>1, <1>3, <2>1, RefusalsAreBelieved
  <2> QED  BY <1>3, <2>2, ForgottenIs DEF LogoutAnswered
<1>4. CASE Pending(r.lease) /\ r.answer.is # "ok"
  <2>1. cookie' = cookie
    BY <1>4, AppliedIs
  <2>2. Turn(portal, r, Asking("ending", r.lease)) /\ portal' = portal
    BY <1>4 DEF LogoutAnswered, Turn
  <2>3. r.lease.generation = portal.generation
    BY <1>1, <1>4, LeaseIs DEF Pending
  <2>4. "ending" \in Askers
    BY DEF Askers
  <2>5. \A x \in Asking("ending", r.lease) : FromNow(x)
    BY <1>1, <2>2, <2>3, <2>4, AskingIs
  <2> QED  BY <1>1, <2>1, <2>2, <2>5, TurnStays
<1> QED  BY <1>2, <1>3, <1>4

LEMMA EndingSettledIs ==
  ASSUME PortalInv, NEW r \in requests, r.answer # NoAnswer, cookie' = SetCookie(r),
         EndingSettled(r)
  PROVE  TurnsTo(portal', r)
<1>1. r.kind = "ending" /\ cookie' = cookie
  BY AppliedIs DEF EndingSettled
<1>2. CASE ~Pending(r.lease)
  BY <1>1, <1>2, DroppedIs DEF EndingSettled
<1>3. CASE Pending(r.lease) /\ r.answer.is = "unauthenticated"
  <2>1. Holding(portal, r.lease)
    BY <1>3 DEF Pending
  <2>2. portal.session # Nobody => Gone
    BY <1>1, <1>3, <2>1, RefusalsAreBelieved DEF Asker
  <2> QED  BY <1>3, <2>2, ForgottenIs DEF EndingSettled
<1>4. CASE Pending(r.lease) /\ r.answer.is # "unauthenticated"
  <2>1. Turn(Concluded, r, {}) /\ portal' = Concluded
    BY <1>4 DEF EndingSettled, Turn
  <2> QED  BY <1>1, <2>1, ConcludedIs, TurnRests
<1> QED  BY <1>2, <1>3, <1>4

LEMMA SelectAnsweredIs ==
  ASSUME PortalInv, NEW r \in requests, r.answer # NoAnswer, cookie' = SetCookie(r),
         SelectAnswered(r)
  PROVE  TurnsTo(portal', r)
<1>1. /\ Good(portal) /\ r.lease \in Leases /\ portal \in Portals /\ cookie' = cookie
      /\ portal.generation \in Nat /\ r.kind = "select" /\ r.answer.workspace \in Bindings
  BY PortalIsGood, AppliedIs DEF SelectAnswered
<1>2. CASE Turn(portal, r, {})
  BY <1>1, <1>2, DroppedIs
<1>3. CASE Ambiguous(portal, r, r.lease)
  BY <1>1, <1>3, AmbiguousIs
<1>4. CASE Turn(Load(portal, r.lease), r, {})
  BY <1>1, <1>4, LoadingIs
<1>5. CASE Holding(portal, r.lease) /\ Turn(Load(Switched(portal, r), r.lease), r, {})
  <2> DEFINE names == IF portal.screen.of = Nobody THEN portal.screen.names
                      ELSE r.answer.workspace
             l == portal.latest + 1
             screen == [portal.screen EXCEPT !.workspace = r.answer.workspace,
                                             !.problem = FALSE, !.names = names]
             q == Load(Switched(portal, r), r.lease)
             shown == [screen EXCEPT !.loading = TRUE, !.problem = FALSE]
  <2>1. /\ screen \in Screens /\ screen.status = portal.screen.status /\ names \in Bindings
    BY <1>1 DEF Portals, Screens
  <2>2. l \in Nat /\ NoLease \in Leases /\ l + 1 \in Nat
    BY <1>1, Constants DEF Portals
  <2>3. Switched(portal, r) = [portal EXCEPT !.latest = l, !.inFlight = NoLease,
                                             !.screen = screen]
    <3> DEFINE p == InvalidateLoads(portal)
    <3>1. p = [portal EXCEPT !.latest = l, !.inFlight = NoLease]
      BY <1>1 DEF InvalidateLoads, Portals
    <3>2. p.screen = portal.screen
      BY <1>1, <3>1 DEF Portals
    <3>3. Switched(portal, r) = [p EXCEPT !.screen = screen]
      BY <1>1, <3>2 DEF Switched, Portals, Screens
    <3> HIDE DEF p, screen, l
    <3> QED  BY <1>1, <3>1, <3>3 DEF Portals
  <2> HIDE DEF screen, l, names
  <2>4. /\ Switched(portal, r) \in Portals
        /\ Switched(portal, r).generation = portal.generation
        /\ Switched(portal, r).session = portal.session
        /\ Switched(portal, r).latest = l
        /\ Switched(portal, r).screen = screen
        /\ Switched(portal, r).inFlight = NoLease
    BY <1>1, <2>1, <2>2, <2>3 DEF Portals
  <2> DEFINE switched == Switched(portal, r)
  <2> HIDE DEF switched
  <2>5. Holding(switched, r.lease) /\ ~Holding(switched, switched.inFlight)
        /\ r.lease.generation = portal.generation
    BY <1>1, <1>5, <2>2, <2>4, LeaseIs, Constants DEF switched
  <2>6. /\ shown \in Screens /\ ~ShownAsRead(shown) /\ shown.status = portal.screen.status
    BY <2>1 DEF Screens, ShownAsRead
  <2>7. q = [switched EXCEPT !.latest = l + 1, !.inFlight = r.lease, !.screen = shown]
    BY <2>4, <2>5 DEF Load, switched
  <2> HIDE DEF shown, q
  <2>8. /\ q \in Portals /\ q.generation = portal.generation /\ q.session = portal.session
        /\ q.screen = shown /\ q.inFlight = r.lease
    <3> DEFINE m == l + 1
    <3>1. m \in Nat /\ q = [switched EXCEPT !.latest = m, !.inFlight = r.lease, !.screen = shown]
      BY <2>2, <2>7
    <3> HIDE DEF m
    <3> QED  BY <1>1, <2>4, <2>6, <3>1 DEF Portals, switched
  <2>9. Good(q)
    BY <1>1, <2>5, <2>6, <2>8 DEF Good
  <2>10. Turn(q, r, {}) /\ portal' = q
    BY <1>5 DEF Turn, q
  <2> QED  BY <1>1, <2>8, <2>9, <2>10, TurnRests
<1> QED  BY <1>2, <1>3, <1>4, <1>5 DEF SelectAnswered

-----------------------------------------------------------------------------
(* Applying an answer. *)

LEMMA TurnKeeps ==
  ASSUME PortalInv, NEW r \in requests, r.answer # NoAnswer, cookie' = SetCookie(r),
         TurnsTo(portal', r), api' = api, happened' \in History
  PROVE  PortalInv'
<1> DEFINE settled == {r}
<1>1. settled \subseteq requests /\ portal.generation \in Nat
  BY AppliedIs
<1>2. \A x : x \in requests \ {r} <=> x \in requests \ settled
  OBVIOUS
<1>3. {r.answer.session} = {x.answer.session : x \in settled}
  OBVIOUS
<1>4. happened' \in History
  BY DEF PortalInv, Typed
<1> HIDE DEF settled
<1>5. Moved(settled)
  BY <1>1, <1>2, <1>3, <1>4 DEF TurnsTo, Moved
<1> QED  BY <1>1, <1>5, MovedKeeps

\* What a request must be for the invariant, whatever the others are.
Sound(x) ==
  /\ x.cookie <= api.opened /\ x.answer.session <= api.opened
  /\ x.lease.generation <= portal.generation /\ x.under.generation <= portal.generation
  /\ x.kind = "check" => x.number <= portal.generation
  /\ Asker(x) => x.number = x.lease.generation
  /\ x.kind = "detail" => x.lease.session # Nobody
  /\ x.answer.is = "ok" /\ x.kind \in {"profile", "check", "refusal", "ending", "login", "change"}
       => x.answer.session # Nobody
  /\ x.answer.is = "unauthenticated" /\ x.kind \in Reads => x.cookie \notin api.live
  /\ x.answer.is = "ok" /\ x.kind = "logout" => x.cookie \notin api.live
  /\ portal.session # Nobody =>
       /\ Speaks(x) => x.cookie = portal.session \/ portal.session # cookie
       /\ Asker(x) /\ x.answer.is = "unauthenticated" /\ Holding(portal, x.lease) => Gone

\* A step that leaves the provider alone: sessions are opened and ended, the
\* cookie may be replaced, but never by the session held.
Around ==
  /\ portal' = portal
  /\ api' \in [opened : Sessions, live : SUBSET Sessions, bound : [Sessions -> Bindings]]
  /\ api'.live \subseteq 1..api'.opened /\ api.opened <= api'.opened
  /\ \A s \in api'.live : s \in api.live \/ s > api.opened
  /\ cookie' \in Known /\ cookie' <= api'.opened
  /\ cookie' # cookie /\ portal.session # Nobody => cookie' # portal.session
  /\ happened' \in History

LEMMA StaysSound ==
  ASSUME PortalInv, Around, NEW x \in requests
  PROVE  Sound(x) /\ Sound(x)'
<1>1. /\ x \in Awaited /\ portal.session \in Nat /\ api.opened \in Nat /\ api'.opened \in Nat
      /\ x.cookie \in Nat /\ x.answer.session \in Nat /\ api'.live \subseteq Nat
      /\ portal.session <= api.opened
  BY Constants DEF PortalInv, Typed, Portals, Awaited, Answers, Around, OpenedSoFar
<1>2. Sound(x)
  BY DEF PortalInv, OpenedSoFar, LeasesArePast, AnswersAreTheServers, BelievedIsTrue, Sound
<1>3. /\ x.cookie <= api'.opened /\ x.answer.session <= api'.opened
      /\ x.cookie \notin api.live => x.cookie \notin api'.live
      /\ portal.session \notin api.live => portal.session \notin api'.live
  BY <1>1, <1>2 DEF Sound, Around
<1>4. portal.session # Nobody /\ Gone => Gone'
  BY <1>3 DEF Around, Gone
<1>5. Speaks(x)' <=> Speaks(x)
  BY DEF Around, Speaks, Stranger
<1>6. Sound(x)'
  BY <1>2, <1>3, <1>4, <1>5 DEF Sound, Around, Asker
<1> QED  BY <1>2, <1>6

LEMMA SoundSuffices ==
  ASSUME PortalInv, Around, requests' \subseteq Awaited, NewIsNew',
         \A x \in requests' : Sound(x)'
  PROVE  PortalInv'
<1>1. Typed'
  BY DEF Around, PortalInv, Typed
<1>2. OpenedSoFar'
  <2>1. portal.session \in Nat /\ api.opened \in Nat /\ api'.opened \in Nat
    BY Constants DEF PortalInv, Typed, Portals, Around
  <2>2. portal'.session <= api'.opened /\ cookie' <= api'.opened
    BY <2>1 DEF PortalInv, OpenedSoFar, Around
  <2> QED  BY <2>2 DEF OpenedSoFar, Sound
<1>3. LeasesArePast'
  BY DEF PortalInv, LeasesArePast, Sound, Around, Asker
<1>4. AnswersAreTheServers'
  BY DEF AnswersAreTheServers, Sound
<1>5. BelievedIsTrue'
  BY DEF BelievedIsTrue, Sound, Asker
<1>6. Anonymous' /\ ShowsOneSession'
  BY DEF Around, PortalInv, Anonymous, ShowsOneSession
<1> QED  BY <1>1, <1>2, <1>3, <1>4, <1>5, <1>6 DEF PortalInv

\* A request is answered: of the sessions an answer brings each is a new one.
LEMMA AnswerKeeps ==
  ASSUME PortalInv, Around, NEW r \in requests, ~Asker(r), NEW v \in Answers, AnswerOf(r, v),
         v.session <= api'.opened,
         \A f \in requests : Brings(f) /\ f # r => cookie' # f.answer.session,
         v.session \in {Nobody, r.cookie} \/ v.session > api.opened,
         v.is = "ok" /\ r.kind \in {"profile", "check", "login", "change"} => v.session # Nobody,
         v.is = "ok" /\ r.kind \in {"login", "change"} =>
            v.session > api.opened /\ cookie' = cookie,
         v.is = "unauthenticated" /\ r.kind \in Reads => r.cookie \notin api'.live,
         v.is = "ok" /\ r.kind = "logout" => r.cookie \notin api'.live
  PROVE  PortalInv'
<1> DEFINE y == [r EXCEPT !.answer = v]
<1>1. /\ r \in Awaited /\ requests \subseteq Awaited /\ portal.session \in Nat
      /\ api.opened \in Nat /\ api'.opened \in Nat /\ cookie \in Nat /\ v.session \in Nat
      /\ portal.session <= api.opened /\ cookie <= api.opened
  BY Constants DEF PortalInv, Typed, Portals, Answers, Around, OpenedSoFar
<1>2. /\ y \in Awaited /\ y.kind = r.kind /\ y.lease = r.lease /\ y.under = r.under
      /\ y.number = r.number /\ y.cookie = r.cookie /\ y.answer = v
  BY <1>1 DEF Awaited
<1>3. \A x \in requests' : x \in requests \ {r} \/ x = y
  BY DEF AnswerOf
<1> HIDE DEF y
<1>4. requests' \subseteq Awaited
  BY <1>1, <1>2, <1>3
<1>5. Sound(y)'
  <2>1. Sound(r)'
    BY StaysSound
  <2>2. Speaks(y)' <=> Speaks(r)'
    BY <1>2 DEF Speaks, Stranger
  <2>3. /\ ~Asker(y) /\ y.kind \notin {"refusal", "ending"}
    BY <1>2 DEF Asker
  <2> QED  BY <1>2, <2>1, <2>2, <2>3 DEF Sound, Asker
<1>6. \A x \in requests' : Sound(x)'
  BY <1>3, <1>5, StaysSound
<1>7. NewIsNew'
  <2> SUFFICES ASSUME NEW f \in requests', Brings(f)
               PROVE  /\ f.answer.session \notin {portal.session, cookie'}
                      /\ \A x \in requests' : /\ x.cookie # f.answer.session
                                              /\ x # f => x.answer.session # f.answer.session
    BY DEF NewIsNew, Brings, Around
  <2>1. ASSUME NEW x \in requests
        PROVE  /\ x.cookie \in Nat /\ x.cookie <= api.opened
               /\ x.answer.session \in Nat /\ x.answer.session <= api.opened
    BY <1>1, Constants DEF PortalInv, OpenedSoFar, Awaited, Answers
  <2>2. CASE f = y
    <3>1. f.answer.session > api.opened /\ cookie' = cookie
      BY <1>2, <2>2 DEF Brings
    <3>2. ASSUME NEW x \in requests'
          PROVE  /\ x.cookie # f.answer.session
                 /\ x # f => x.answer.session # f.answer.session
      BY <1>1, <1>2, <1>3, <2>1, <2>2, <3>1
    <3> QED  BY <1>1, <1>2, <2>2, <3>1, <3>2
  <2>3. CASE f \in requests \ {r}
    <3>1. /\ f.answer.session \notin {portal.session, cookie}
          /\ \A x \in requests : /\ x.cookie # f.answer.session
                                 /\ x # f => x.answer.session # f.answer.session
      BY <2>3 DEF PortalInv, NewIsNew
    <3>2. f.answer.session # Nobody
      BY <2>3 DEF PortalInv, AnswersAreTheServers, Brings
    <3>3. y.cookie # f.answer.session /\ y.answer.session # f.answer.session
      BY <1>1, <1>2, <2>1, <2>3, <3>1, <3>2
    <3> QED  BY <1>3, <2>3, <3>1, <3>3
  <2> QED  BY <1>3, <2>2, <2>3
<1> QED  BY <1>4, <1>6, <1>7, SoundSuffices

\* The askers of a validity read are given its answer.
LEMMA CheckAnsweredKeeps ==
  ASSUME PortalInv, NEW r \in requests, r.answer # NoAnswer, cookie' = SetCookie(r),
         CheckAnswered(r), api' = api, happened' \in History
  PROVE  PortalInv'
<1>1. /\ cookie' = cookie /\ r \in Awaited /\ requests \subseteq Awaited /\ portal \in Portals
      /\ portal.generation \in Nat /\ portal.session \in Nat /\ api.live \subseteq Nat
  BY AppliedIs, Constants DEF CheckAnswered, PortalInv, Typed, Portals
<1>2. Around
  <2>1. \A s \in api.live : s \in Nat
    BY <1>1
  <2>2. api.opened \in Nat
    BY Constants DEF PortalInv, Typed
  <2> QED  BY <1>1, <2>2 DEF Around, PortalInv, Typed, CheckAnswered, OpenedSoFar
<1>3. ASSUME NEW x \in requests'
      PROVE  \/ x \in requests \ {r}
             \/ \E a \in requests : /\ a # r /\ Asker(a) /\ a.number = r.number
                                    /\ x = [a EXCEPT !.answer = r.answer]
  BY DEF CheckAnswered
<1>4. ASSUME NEW a \in requests, Asker(a), a.number = r.number,
             NEW x, x = [a EXCEPT !.answer = r.answer]
      PROVE  /\ x \in Awaited /\ x.kind = a.kind /\ x.cookie = a.cookie /\ x.answer = r.answer
             /\ Sound(x)'
  <2>1. /\ x \in Awaited /\ x.kind = a.kind /\ x.lease = a.lease /\ x.under = a.under
        /\ x.number = a.number /\ x.cookie = a.cookie /\ x.answer = r.answer
    BY <1>1, <1>4 DEF Awaited
  <2>2. /\ Sound(a) /\ Sound(a)' /\ Sound(r) /\ Sound(r)'
    BY <1>2, StaysSound
  <2>3. /\ x.kind \in {"refusal", "ending"} /\ Asker(x) /\ r.kind = "check" /\ "check" \in Reads
        /\ x.kind \notin Reads /\ x.kind # "logout" /\ x.kind # "detail" /\ x.kind # "check"
    BY <1>4, <2>1 DEF Asker, Reads, CheckAnswered
  <2>4. Speaks(x)' <=> Speaks(a)'
    BY <2>1, <2>3 DEF Speaks, Stranger, Asker
  <2>5. ASSUME portal.session # Nobody, r.answer.is = "unauthenticated", Holding(portal, a.lease)
        PROVE  Gone'
    <3>1. a.lease.generation = portal.generation /\ a.number = a.lease.generation
      BY <1>1, <1>4, <2>2, <2>5, LeaseIs DEF Sound, Awaited
    <3>2. Speaks(r)
      BY <1>4, <2>3, <3>1 DEF Speaks, Stranger
    <3>3. r.cookie \notin api.live
      BY <2>2, <2>3, <2>5 DEF Sound
    <3> QED  BY <1>1, <2>2, <2>5, <3>2, <3>3 DEF Sound, Gone, CheckAnswered
  <2>6. Sound(x)'
    <3>1. portal' = portal /\ api' = api
      BY DEF CheckAnswered
    <3> QED  BY <2>1, <2>2, <2>3, <2>4, <2>5, <3>1 DEF Sound, Asker
  <2> QED  BY <2>1, <2>6
<1>5. requests' \subseteq Awaited /\ \A x \in requests' : Sound(x)'
  BY <1>1, <1>2, <1>3, <1>4, StaysSound
<1>6. NewIsNew'
  <2> SUFFICES ASSUME NEW f \in requests', Brings(f)
               PROVE  /\ f.answer.session \notin {portal.session, cookie}
                      /\ \A x \in requests' : /\ x.cookie # f.answer.session
                                              /\ x # f => x.answer.session # f.answer.session
    BY <1>1 DEF NewIsNew, Brings, CheckAnswered
  <2>1. f \in requests \ {r}
    <3>1. ASSUME NEW a \in requests, Asker(a), a.number = r.number,
                 f = [a EXCEPT !.answer = r.answer]
          PROVE  FALSE
      BY <1>4, <3>1 DEF Brings, Asker
    <3> QED  BY <1>3, <3>1
  <2>2. /\ f.answer.session \notin {portal.session, cookie}
        /\ \A x \in requests : /\ x.cookie # f.answer.session
                               /\ x # f => x.answer.session # f.answer.session
    BY <2>1 DEF PortalInv, NewIsNew
  <2>3. ASSUME NEW x \in requests'
        PROVE  /\ x.cookie # f.answer.session
               /\ x # f => x.answer.session # f.answer.session
    BY <1>3, <1>4, <2>1, <2>2
  <2> QED  BY <2>2, <2>3
<1> QED  BY <1>2, <1>5, <1>6, SoundSuffices

LEMMA ApplyIs ==
  ASSUME PortalInv, NEW r \in requests, Apply(r)
  PROVE  CheckAnswered(r) \/ TurnsTo(portal', r)
BY ProfileAnsweredIs, DetailAnsweredIs, RefusalSettledIs, PageAnsweredIs, ReplacedIs,
   LogoutAnsweredIs, EndingSettledIs, SelectAnsweredIs DEF Apply

LEMMA ApplyKeeps ==
  ASSUME PortalInv, NEW r \in requests, Apply(r)
  PROVE  PortalInv'
<1>1. happened' \in History
  BY DEF Apply, PortalInv, Typed, History
<1> QED  BY <1>1, ApplyIs, CheckAnsweredKeeps, TurnKeeps DEF Apply

-----------------------------------------------------------------------------
(* The API answers, answers are lost, and sessions change elsewhere. *)

LEMMA HappensIs ==
  ASSUME Typed, NEW what \in {"gestures", "losses", "elsewhere"}, Happens(what)
  PROVE  happened' \in History
BY DEF Typed, Happens, History

\* What is known of the API and the browser, as numbers.
LEMMA Numbers ==
  ASSUME PortalInv
  PROVE  /\ api \in [opened : Sessions, live : SUBSET Sessions, bound : [Sessions -> Bindings]]
         /\ api.opened \in Nat /\ api.live \subseteq 1..api.opened /\ cookie \in Known
         /\ cookie \in Nat /\ cookie <= api.opened /\ portal.session \in Nat
         /\ portal.session <= api.opened
         /\ \A x \in requests : /\ x \in Awaited /\ x.cookie \in Known /\ x.cookie \in Nat
                                /\ x.cookie <= api.opened /\ x.asked \in Bindings
                                /\ x.answer.session \in Known /\ x.answer.session \in Nat
                                /\ x.answer.session <= api.opened
BY Constants DEF PortalInv, Typed, Portals, OpenedSoFar, Awaited, Answers

\* Nothing but an answer.
LEMMA QuietIs ==
  ASSUME PortalInv, portal' = portal, api' = api, cookie' = cookie,
         happened' \in History
  PROVE  Around
BY Numbers DEF Around, PortalInv, Typed

LEMMA CookiesAreOld ==
  ASSUME PortalInv, NEW f \in requests, Brings(f)
  PROVE  cookie # f.answer.session
BY DEF PortalInv, NewIsNew

LEMMA OpensKeeps ==
  ASSUME PortalInv, NEW r \in requests, r.kind \in {"login", "change"}, NEW ended, Opens(r, ended),
         UNCHANGED <<portal, cookie, happened>>
  PROVE  PortalInv'
<1> DEFINE s == api.opened + 1
           v == [Says("ok") EXCEPT !.session = s]
<1>1. /\ s \in Sessions /\ AnswerOf(r, v)
      /\ api' = [api EXCEPT !.opened = s, !.live = (@ \ ended) \union {s}]
  BY DEF Opens
<1>2. s \in Nat /\ s > api.opened /\ s # Nobody
  BY Numbers, Constants
<1>3. /\ v \in Answers /\ v.is = "ok" /\ v.session = s
  BY <1>1, NoAnswerIs DEF Answers, Known
<1> HIDE DEF s, v
<1>4. /\ api' \in [opened : Sessions, live : SUBSET Sessions, bound : [Sessions -> Bindings]]
      /\ api'.opened = s /\ api'.live = (api.live \ ended) \union {s}
  BY <1>1, Numbers
<1>5. api'.live \subseteq 1..s
  BY <1>2, <1>4, Numbers
<1>6. Around
  BY <1>2, <1>4, <1>5, Numbers DEF Around, PortalInv, Typed, s
<1>7. ~Asker(r) /\ r.kind \notin Reads /\ r.kind # "logout"
  BY DEF Asker, Reads
<1>8. v.session <= api'.opened /\ v.session > api.opened /\ v.session # Nobody
  BY <1>2, <1>3, <1>4
<1> QED  BY <1>1, <1>3, <1>6, <1>7, <1>8, CookiesAreOld, AnswerKeeps

\* An answer that changes no session that is live.
LEMMA SaysKeeps ==
  ASSUME PortalInv, NEW r \in requests, ~Asker(r), NEW v \in Answers, AnswerOf(r, v),
         UNCHANGED <<portal, cookie, api, happened>>,
         v.session \in {Nobody, r.cookie},
         v.is = "ok" => /\ r.kind \notin {"login", "change", "logout"}
                        /\ r.kind \in {"profile", "check"} => v.session # Nobody,
         v.is = "unauthenticated" /\ r.kind \in Reads => r.cookie \notin api.live
  PROVE  PortalInv'
<1>1. Around
  BY QuietIs DEF PortalInv, Typed
<1>2. v.session <= api'.opened
  BY Numbers, Constants
<1> QED  BY <1>1, <1>2, CookiesAreOld, AnswerKeeps

LEMMA ServeReadKeeps ==
  ASSUME PortalInv, NEW r \in requests, ServeRead(r), UNCHANGED <<portal, cookie, happened>>
  PROVE  PortalInv'
<1>1. /\ r.cookie \in api.live /\ r.cookie # Nobody /\ r.cookie \in Sessions
      /\ r.cookie \in Known /\ api.bound[r.cookie] \in Bindings /\ Unbound \in Bindings
      /\ UNCHANGED api
  BY Numbers, Constants DEF ServeRead, Known
<1>2. CASE /\ r.kind \in {"profile", "check"}
           /\ AnswerOf(r, [is |-> "ok", session |-> r.cookie, workspace |-> api.bound[r.cookie]])
  <2> DEFINE v == [is |-> "ok", session |-> r.cookie, workspace |-> api.bound[r.cookie]]
  <2>1. v \in Answers /\ v.is = "ok" /\ v.session = r.cookie
    BY <1>1 DEF Answers
  <2>2. ~Asker(r) /\ AnswerOf(r, v)
    BY <1>2 DEF Asker
  <2> HIDE DEF v
  <2> QED  BY <1>1, <1>2, <2>1, <2>2, SaysKeeps
<1>3. CASE /\ r.kind = "detail"
           /\ AnswerOf(r, [Says("ok") EXCEPT !.workspace =
                             IF r.asked = Unbound THEN Unbound ELSE api.bound[r.cookie]])
  <2> DEFINE w == IF r.asked = Unbound THEN Unbound ELSE api.bound[r.cookie]
             v == [Says("ok") EXCEPT !.workspace = w]
  <2>1. w \in Bindings
    BY <1>1
  <2> HIDE DEF w
  <2>2. v \in Answers /\ v.is = "ok" /\ v.session = Nobody
    BY <2>1, NoAnswerIs DEF Answers
  <2>3. ~Asker(r) /\ AnswerOf(r, v)
    BY <1>3 DEF Asker, w
  <2> HIDE DEF v
  <2> QED  BY <1>1, <1>3, <2>2, <2>3, SaysKeeps
<1>4. CASE r.kind \in {"read", "mutation"} /\ AnswerOf(r, Says("forbidden"))
  <2>1. ~Asker(r)
    BY <1>4 DEF Asker
  <2> QED  BY <1>1, <1>4, <2>1, NoAnswerIs, SaysKeeps
<1> QED  BY <1>2, <1>3, <1>4 DEF ServeRead

LEMMA ServeSelectKeeps ==
  ASSUME PortalInv, NEW r \in requests, ServeSelect(r), UNCHANGED <<portal, cookie, happened>>
  PROVE  PortalInv'
<1>1. /\ r.kind = "select" /\ ~Asker(r) /\ r.cookie \in Sessions /\ r.asked \in Bindings
      /\ r.kind \notin Reads
  BY Numbers DEF ServeSelect, Asker, Reads
<1>2. CASE UNCHANGED api /\ AnswerOf(r, Says("failed"))
  BY <1>1, <1>2, NoAnswerIs, SaysKeeps
<1>3. CASE /\ api' = [api EXCEPT !.bound[r.cookie] = r.asked]
           /\ AnswerOf(r, [Says("ok") EXCEPT !.workspace = r.asked])
  <2> DEFINE v == [Says("ok") EXCEPT !.workspace = r.asked]
             bound == [api.bound EXCEPT ![r.cookie] = r.asked]
  <2>1. v \in Answers /\ v.is = "ok" /\ v.session = Nobody
    BY <1>1, NoAnswerIs DEF Answers
  <2>2. bound \in [Sessions -> Bindings] /\ api' = [api EXCEPT !.bound = bound]
    BY <1>1, <1>3, Numbers
  <2>3. AnswerOf(r, v)
    BY <1>3
  <2> HIDE DEF v, bound
  <2>4. /\ api' \in [opened : Sessions, live : SUBSET Sessions, bound : [Sessions -> Bindings]]
        /\ api'.opened = api.opened /\ api'.live = api.live
    BY <2>2, Numbers
  <2>5. Around
    BY <2>4, Numbers DEF Around, PortalInv, Typed
  <2>6. v.session <= api'.opened
    BY <2>1, <2>4, Numbers, Constants
  <2> QED  BY <1>1, <2>1, <2>3, <2>5, <2>6, CookiesAreOld, AnswerKeeps
<1> QED  BY <1>2, <1>3 DEF ServeSelect

LEMMA ServeLogoutKeeps ==
  ASSUME PortalInv, NEW r \in requests, ServeLogout(r), UNCHANGED <<portal, cookie, happened>>
  PROVE  PortalInv'
<1>1. /\ r.kind = "logout" /\ ~Asker(r) /\ r.kind \notin Reads
      /\ AnswerOf(r, Says("ok")) /\ api' = [api EXCEPT !.live = @ \ {r.cookie}]
  BY DEF ServeLogout, Asker, Reads
<1>2. /\ api' \in [opened : Sessions, live : SUBSET Sessions, bound : [Sessions -> Bindings]]
      /\ api'.opened = api.opened /\ api'.live = api.live \ {r.cookie}
  BY <1>1, Numbers
<1>3. Around
  BY <1>2, Numbers DEF Around, PortalInv, Typed
<1>4. Nobody <= api'.opened
  BY <1>2, Numbers, Constants
<1> QED  BY <1>1, <1>2, <1>3, <1>4, NoAnswerIs, CookiesAreOld, AnswerKeeps

LEMMA ServeKeeps ==
  ASSUME PortalInv, NEW r \in requests, Serve(r)
  PROVE  PortalInv'
<1>1. UNCHANGED <<portal, cookie, happened>> /\ ~Asker(r)
  BY DEF Serve
<1>2. CASE ServeRead(r)
  BY <1>1, <1>2, ServeReadKeeps
<1>3. CASE ServeLogin(r)
  <2>1. CASE Opens(r, {})
    BY <1>1, <1>3, <2>1, OpensKeeps DEF ServeLogin
  <2>2. CASE UNCHANGED api /\ AnswerOf(r, Says("failed"))
    BY <1>1, <2>2, NoAnswerIs, SaysKeeps
  <2> QED  BY <1>3, <2>1, <2>2 DEF ServeLogin
<1>4. CASE ServeChange(r)
  <2>1. ASSUME NEW others \in SUBSET (api.live \ {r.cookie}), Opens(r, {r.cookie} \union others)
        PROVE  PortalInv'
    BY <1>1, <1>4, <2>1, OpensKeeps DEF ServeChange
  <2>2. ASSUME NEW verdict \in {"failed", "forbidden"}, UNCHANGED api, AnswerOf(r, Says(verdict))
        PROVE  PortalInv'
    BY <1>1, <2>2, NoAnswerIs, SaysKeeps
  <2> QED  BY <1>4, <2>1, <2>2 DEF ServeChange
<1>5. CASE ServeLogout(r)
  BY <1>1, <1>5, ServeLogoutKeeps
<1>6. CASE ServeSelect(r)
  BY <1>1, <1>6, ServeSelectKeeps
<1>7. CASE ServeRefusal(r)
  <2>1. r.kind \in Reads => r.cookie \notin api.live
    BY <1>7 DEF ServeRefusal, Reads, Mutations
  <2> QED  BY <1>1, <1>7, <2>1, NoAnswerIs, SaysKeeps DEF ServeRefusal
<1> QED  BY <1>2, <1>3, <1>4, <1>5, <1>6, <1>7 DEF Serve

LEMMA LoseKeeps ==
  ASSUME PortalInv, NEW r \in requests, Lose(r)
  PROVE  PortalInv'
<1>1. /\ ~Asker(r) /\ AnswerOf(r, Says("lost")) /\ cookie' \in {cookie, SetCookie(r)}
      /\ UNCHANGED <<portal, api>>
      /\ happened' \in History
  BY HappensIs DEF Lose, PortalInv
<1>2. /\ cookie' \in {cookie, Nobody} \/ (Brings(r) /\ cookie' = r.answer.session)
  BY <1>1 DEF SetCookie, Brings
<1>3. Brings(r) => /\ r.answer.session # portal.session
                   /\ \A f \in requests : f # r => r.answer.session # f.answer.session
  BY DEF PortalInv, NewIsNew
<1>4. \A f \in requests : Brings(f) => f.answer.session # Nobody
  BY DEF PortalInv, AnswersAreTheServers, Brings
<1>5. cookie' \in Known /\ cookie' <= api.opened
  BY <1>2, Numbers, Constants
<1>6. Around
  BY <1>1, <1>2, <1>3, <1>5, Numbers DEF Around, PortalInv, Typed
<1>7. \A f \in requests : Brings(f) /\ f # r => cookie' # f.answer.session
  BY <1>2, <1>3, <1>4, CookiesAreOld
<1>8. Nobody <= api'.opened
  BY <1>1, Numbers, Constants
<1> QED  BY <1>1, <1>6, <1>7, <1>8, NoAnswerIs, AnswerKeeps

LEMMA ElsewhereKeeps ==
  ASSUME PortalInv, NEW after, NEW sent, Elsewhere(after, sent),
         after \in [opened : Sessions, live : SUBSET Sessions, bound : [Sessions -> Bindings]],
         after.live \subseteq 1..after.opened, api.opened <= after.opened,
         \A s \in after.live : s \in api.live \/ s > api.opened,
         sent \in Known, sent <= after.opened,
         sent \in {cookie, Nobody} \/ sent > api.opened
  PROVE  PortalInv'
<1>1. /\ portal' = portal /\ requests' = requests /\ api' = after /\ cookie' = sent
      /\ happened' \in History
  BY HappensIs DEF Elsewhere, PortalInv
<1>2. sent # cookie /\ portal.session # Nobody => sent # portal.session
  BY Numbers, Constants
<1>3. Around
  BY <1>1, <1>2 DEF Around
<1>4. NewIsNew'
  <2> SUFFICES ASSUME NEW f \in requests, Brings(f)
               PROVE  /\ f.answer.session \notin {portal.session, sent}
                      /\ \A x \in requests : /\ x.cookie # f.answer.session
                                             /\ x # f => x.answer.session # f.answer.session
    BY <1>1 DEF NewIsNew, Brings
  <2>1. f.answer.session # Nobody
    BY DEF PortalInv, AnswersAreTheServers, Brings
  <2>2. sent # f.answer.session
    BY <2>1, CookiesAreOld, Numbers, Constants
  <2> QED  BY <2>2 DEF PortalInv, NewIsNew
<1>5. requests' \subseteq Awaited /\ \A x \in requests' : Sound(x)'
  BY <1>1, <1>3, StaysSound DEF PortalInv, Typed
<1> QED  BY <1>3, <1>4, <1>5, SoundSuffices

LEMMA OthersKeep ==
  ASSUME PortalInv,
         \/ AnotherTabSignsIn \/ AnotherTabSignsOut
         \/ \E s \in Sessions : SessionEnds(s)
         \/ \E s \in Sessions, w \in Workspaces \union {Unbound} : BindingMoves(s, w)
  PROVE  PortalInv'
<1> DEFINE Apis == [opened : Sessions, live : SUBSET Sessions, bound : [Sessions -> Bindings]]
<1>1. CASE AnotherTabSignsIn
  <2> DEFINE s == api.opened + 1
             after == [api EXCEPT !.opened = s, !.live = @ \union {s}]
  <2>1. /\ s \in Sessions /\ s \in Known /\ s > api.opened /\ s \in Nat
        /\ 1..api.opened \subseteq 1..s
    BY <1>1, Numbers, Constants DEF AnotherTabSignsIn, Sessions, Known
  <2>2. Elsewhere(after, s)
    BY <1>1 DEF AnotherTabSignsIn
  <2> HIDE DEF s
  <2>3. after \in Apis /\ after.opened = s /\ after.live = api.live \union {s}
    BY <2>1, Numbers
  <2>4. /\ after.live \subseteq 1..after.opened
        /\ \A x \in after.live : x \in api.live \/ x > api.opened
    BY <2>1, <2>3, Numbers
  <2> HIDE DEF after
  <2>5. api.opened <= after.opened /\ s <= after.opened
    BY <2>1, <2>3, Numbers
  <2> QED  BY <2>1, <2>2, <2>3, <2>4, <2>5, ElsewhereKeeps
<1>2. ASSUME NEW gone, NEW sent \in {cookie, Nobody},
             Elsewhere([api EXCEPT !.live = @ \ gone], sent)
      PROVE  PortalInv'
  <2> DEFINE after == [api EXCEPT !.live = @ \ gone]
  <2>1. after \in Apis /\ after.opened = api.opened /\ after.live = api.live \ gone
    BY Numbers
  <2>2. Elsewhere(after, sent)
    BY <1>2
  <2> HIDE DEF after
  <2>3. sent \in Known /\ sent <= after.opened
    BY <2>1, Numbers, Constants
  <2> QED  BY <2>1, <2>2, <2>3, Numbers, ElsewhereKeeps
<1>3. ASSUME NEW s \in Sessions, NEW w \in Workspaces \union {Unbound}, BindingMoves(s, w)
      PROVE  PortalInv'
  <2> DEFINE bound == [api.bound EXCEPT ![s] = w]
             after == [api EXCEPT !.bound = bound]
  <2>1. bound \in [Sessions -> Bindings]
    BY Numbers DEF Bindings
  <2>2. Elsewhere(after, cookie)
    BY <1>3 DEF BindingMoves
  <2> HIDE DEF bound
  <2>3. after \in Apis /\ after.opened = api.opened /\ after.live = api.live
    BY <2>1, Numbers
  <2> HIDE DEF after
  <2> QED  BY <2>2, <2>3, Numbers, ElsewhereKeeps
<1>4. CASE AnotherTabSignsOut
  BY <1>2, <1>4 DEF AnotherTabSignsOut
<1>5. ASSUME NEW s \in Sessions, SessionEnds(s) PROVE PortalInv'
  BY <1>2, <1>5 DEF SessionEnds
<1> QED  BY <1>1, <1>3, <1>4, <1>5

-----------------------------------------------------------------------------
(* The customer, and the theorems. *)

LEMMA GestureKeeps ==
  ASSUME PortalInv, NEW p, Good(p), p.generation = portal.generation,
         p.session = portal.session, NEW more, Gesture(p, more), \A x \in more : FromNow(x)
  PROVE  PortalInv'
<1> DEFINE settled == {}
<1>1. /\ portal' = p /\ UNCHANGED <<cookie, api>> /\ Typed /\ cookie' \in Known
      /\ happened' \in History
      /\ requests' = requests \union Begun(p) \union more
  BY HappensIs DEF Gesture, PortalInv, Typed
<1>2. \A x \in Begun(p) : FromNow(x)
  BY <1>1, BegunIs
<1>3. \A x \in requests' : x \in requests \ settled \/ FromNow(x)
  BY <1>1, <1>2
<1>4. settled \subseteq requests
  OBVIOUS
<1> HIDE DEF settled
<1>5. Moved(settled)
  BY <1>1, <1>3 DEF Moved
<1> QED  BY <1>4, <1>5, MovedKeeps

\* A state of the provider in which only its gestures are recorded differently.
LEMMA OnlyGestures ==
  ASSUME PortalInv, NEW p \in Portals, p.generation = portal.generation,
         p.session = portal.session, p.inFlight = portal.inFlight, p.screen = portal.screen
  PROVE  Good(p)
BY PortalIsGood DEF Good

LEMMA SentIs ==
  ASSUME PortalInv, portal'.generation = portal.generation, cookie' = cookie,
         NEW kind \in (Reads \union Mutations \union {"login"}) \ {"check", "detail"}
  PROVE  FromNow(Sent(kind))
<1>1. /\ LeaseOf(portal) \in Leases /\ LeaseOf(portal).generation = portal.generation
      /\ portal.generation \in Nat /\ happened.gestures \in Int /\ cookie' \in Known
  BY LeaseIs DEF PortalInv, Typed, Portals, History
<1>2. LeaseOf(portal).generation <= portal'.generation
  BY <1>1
<1> QED  BY <1>1, <1>2, SentNow DEF Sent

LEMMA GesturesKeep ==
  ASSUME PortalInv,
         \/ SignIn \/ ChangePassword \/ SignOut \/ RetryLoad
         \/ \E w \in Workspaces : SelectWorkspace(w)
         \/ \E kind \in {"read", "mutation"} : UsePage(kind)
  PROVE  PortalInv' /\ portal'.session = portal.session
<1> DEFINE Kinds == (Reads \union Mutations \union {"login"}) \ {"check", "detail"}
<1>1. /\ portal \in Portals /\ Good(portal)
      /\ LeaseOf(portal) \in Leases /\ portal.generation \in Nat
  BY PortalIsGood, LeaseIs DEF PortalInv, Typed, Portals
<1>2. {"login", "change", "logout", "select", "read", "mutation"} \subseteq Kinds
  BY DEF Reads, Mutations
<1>3. \A p, more : Gesture(p, more) => portal' = p /\ cookie' = cookie
  BY DEF Gesture
<1>4. ASSUME NEW kind \in Kinds,
             Gesture([portal EXCEPT !.replacing = @ + 1], {Sent(kind)})
      PROVE  PortalInv' /\ portal'.session = portal.session
  <2> DEFINE n == portal.replacing + 1
             p == [portal EXCEPT !.replacing = n]
             more == {Sent(kind)}
  <2>1. n \in Int /\ Gesture(p, more)
    BY <1>1, <1>4 DEF Portals
  <2> HIDE DEF n
  <2>2. /\ p \in Portals /\ p.generation = portal.generation /\ p.session = portal.session
        /\ p.inFlight = portal.inFlight /\ p.screen = portal.screen
    BY <1>1, <2>1 DEF Portals
  <2> HIDE DEF p
  <2>3. \A x \in more : FromNow(x)
    BY <1>3, <2>1, <2>2, SentIs
  <2> HIDE DEF more
  <2> QED  BY <1>3, <2>1, <2>2, <2>3, OnlyGestures, GestureKeeps
<1>5. CASE SignIn
  BY <1>2, <1>4, <1>5 DEF SignIn
<1>6. CASE ChangePassword
  BY <1>2, <1>4, <1>6 DEF ChangePassword
<1>7. CASE SignOut
  <2> DEFINE p == [portal EXCEPT !.signingOut = LeaseOf(portal)]
             more == {Sent("logout")}
  <2>1. Gesture(p, more)
    BY <1>7 DEF SignOut
  <2>2. /\ p \in Portals /\ p.generation = portal.generation /\ p.session = portal.session
        /\ p.inFlight = portal.inFlight /\ p.screen = portal.screen
    BY <1>1 DEF Portals
  <2> HIDE DEF p
  <2>3. \A x \in more : FromNow(x)
    BY <1>2, <1>3, <2>1, <2>2, SentIs
  <2> HIDE DEF more
  <2> QED  BY <1>3, <2>1, <2>2, <2>3, OnlyGestures, GestureKeeps
<1>8. CASE RetryLoad
  <2> DEFINE p == Load(portal, LeaseOf(portal))
             more == {}
  <2>1. Gesture(p, more)
    BY <1>8 DEF RetryLoad
  <2>2. Good(p) /\ p.generation = portal.generation /\ p.session = portal.session
    BY <1>1, LoadIs
  <2>3. \A x \in more : FromNow(x)
    OBVIOUS
  <2> HIDE DEF p, more
  <2> QED  BY <1>3, <2>1, <2>2, <2>3, GestureKeeps
<1>9. ASSUME NEW w \in Workspaces, SelectWorkspace(w)
      PROVE  PortalInv' /\ portal'.session = portal.session
  <2> DEFINE x == [Sent("select") EXCEPT !.asked = w]
             more == {x}
  <2>1. Gesture(portal, more)
    BY <1>9 DEF SelectWorkspace
  <2>2. FromNow(x)
    <3> DEFINE q == Sent("select")
    <3>1. FromNow(q) /\ q.kind = "select"
      BY <1>2, <1>3, <2>1, SentIs DEF Sent, Request
    <3> HIDE DEF q
    <3>2. /\ x \in Awaited /\ x.kind = q.kind /\ x.lease = q.lease /\ x.under = q.under
          /\ x.cookie = q.cookie /\ x.answer = q.answer
      BY <3>1 DEF FromNow, Awaited, Bindings, q
    <3> HIDE DEF x
    <3> QED  BY <3>1, <3>2 DEF FromNow, Asker
  <2>3. \A y \in more : FromNow(y)
    BY <2>2
  <2> HIDE DEF more
  <2> QED  BY <1>1, <1>3, <2>1, <2>3, GestureKeeps
<1>10. ASSUME NEW kind \in {"read", "mutation"}, UsePage(kind)
       PROVE  PortalInv' /\ portal'.session = portal.session
  <2> DEFINE more == {Sent(kind)}
  <2>1. Gesture(portal, more)
    BY <1>10 DEF UsePage
  <2>2. \A x \in more : FromNow(x)
    BY <1>2, <1>3, <2>1, SentIs
  <2> HIDE DEF more
  <2> QED  BY <1>1, <1>3, <2>1, <2>2, GestureKeeps
<1> QED  BY <1>5, <1>6, <1>7, <1>8, <1>9, <1>10

\* A page joins a read: it is another page's now, and what it was sent with stays.
LEMMA JoinIs ==
  ASSUME PortalInv, NEW r \in requests, JoinRead(r)
  PROVE  \E y : /\ requests' = (requests \ {r}) \union {y}
                /\ y \in Awaited /\ y.kind = r.kind /\ r.kind = "read"
                /\ y.lease = LeaseOf(portal) /\ y.under = LeaseOf(portal)
                /\ y.number = r.number /\ y.cookie = r.cookie /\ y.answer = r.answer
                /\ LeaseOf(portal) \in Leases /\ LeaseOf(portal).generation = portal.generation
                /\ LeaseOf(portal).session = portal.session
<1>1. r \in Awaited /\ r.kind = "read" /\ portal \in Portals
  BY DEF PortalInv, Typed, JoinRead
<1> DEFINE held == LeaseOf(portal)
           y == [r EXCEPT !.lease = held, !.under = held]
<1>2. held \in Leases /\ held.generation = portal.generation /\ held.session = portal.session
  BY <1>1, LeaseIs
<1>3. requests' = (requests \ {r}) \union {y}
  BY DEF JoinRead
<1> HIDE DEF held
<1>4. /\ y \in Awaited /\ y.kind = r.kind /\ y.lease = held /\ y.under = held
      /\ y.number = r.number /\ y.cookie = r.cookie /\ y.answer = r.answer
  BY <1>1, <1>2 DEF Awaited
<1> HIDE DEF y
<1>5. held = LeaseOf(portal)
  BY DEF held
<1> QED  BY <1>1, <1>2, <1>3, <1>4, <1>5

LEMMA JoinKeeps ==
  ASSUME PortalInv, NEW r \in requests, JoinRead(r)
  PROVE  PortalInv'
<1>1. PICK y : /\ requests' = (requests \ {r}) \union {y}
               /\ y \in Awaited /\ y.kind = r.kind /\ r.kind = "read"
               /\ y.lease = LeaseOf(portal) /\ y.under = LeaseOf(portal)
               /\ y.number = r.number /\ y.cookie = r.cookie /\ y.answer = r.answer
               /\ LeaseOf(portal) \in Leases /\ LeaseOf(portal).generation = portal.generation
               /\ LeaseOf(portal).session = portal.session
  BY JoinIs
<1>2. UNCHANGED <<portal, cookie, api, happened>> /\ happened' \in History
  BY DEF JoinRead, PortalInv, Typed
<1>3. Around
  BY <1>2, QuietIs
<1>4. portal.generation \in Nat /\ Sound(r)' /\ ~Asker(y) 
  BY <1>1, <1>3, StaysSound DEF Asker, PortalInv, Typed, Portals
<1>5. Speaks(y) => y.cookie = portal.session
  BY <1>1 DEF Speaks, Stranger
<1>6. Speaks(y)' <=> Speaks(y)
  BY <1>2 DEF Speaks, Stranger
<1>7. Sound(y)'
  BY <1>1, <1>2, <1>4, <1>5, <1>6 DEF Sound, Asker
<1>8. requests' \subseteq Awaited /\ \A x \in requests' : Sound(x)'
  BY <1>1, <1>3, <1>7, StaysSound DEF PortalInv, Typed
<1>9. NewIsNew'
  BY <1>1, <1>2 DEF PortalInv, NewIsNew, Brings
<1> QED  BY <1>3, <1>8, <1>9, SoundSuffices

LEMMA PortalInitInv == PortalInit => PortalInv
<1> SUFFICES ASSUME PortalInit PROVE PortalInv
  OBVIOUS
<1> DEFINE first == [generation |-> 0, session |-> Nobody]
<1>1. /\ portal.generation = 0 /\ portal.session = Nobody /\ portal.inFlight = first
      /\ portal.screen = Empty /\ first \in Leases
      /\ portal = [generation |-> 0, session |-> Nobody, latest |-> 1,
                   inFlight |-> first, signingOut |-> NoLease,
                   replacing |-> 0, deferred |-> NoLease, screen |-> Empty]
  BY Constants DEF PortalInit, Leases
<1>2. portal \in Portals
  BY <1>1, Constants DEF Portals
<1>3. Good(portal)
  <2>1. Empty.status = "loading"
    BY DEF Empty
  <2> QED  BY <1>1, <1>2, <2>1 DEF Good, ShownAsRead
<1>4. /\ api.opened = 1 /\ api.live \in SUBSET {1} /\ cookie \in {Nobody, 1}
      /\ api \in [opened : Sessions, live : SUBSET Sessions, bound : [Sessions -> Bindings]]
  <2>1. \A w \in Bindings : [s \in Sessions |-> IF s = 1 THEN w ELSE Unbound] \in [Sessions -> Bindings]
    BY Constants
  <2>2. SUBSET {1} \subseteq SUBSET Sessions
    BY Constants
  <2> QED  BY <2>1, <2>2, Constants DEF PortalInit, Bindings
<1>5. \A x \in requests :
        /\ x.kind = "profile" /\ x.lease = LeaseOf(portal) /\ x.under = LeaseOf(portal)
        /\ x.number = 1 /\ x.attempt = 1 /\ x.asked = Unbound /\ x.cookie = cookie
        /\ x.answer = NoAnswer /\ x \in Awaited
  <2>1. cookie \in Known /\ LeaseOf(portal) \in Leases /\ Unbound \in Bindings
    BY <1>2, <1>4, LeaseIs, Constants DEF Known
  <2> QED  BY <2>1, NoAnswerIs DEF PortalInit, Awaited, Reads
<1>6. Typed
  BY <1>2, <1>4, <1>5, Constants DEF Typed, PortalInit, Known, History
<1>7. OpenedSoFar
  BY <1>1, <1>4, <1>5, NoAnswerIs, Constants DEF OpenedSoFar
<1>8. NewIsNew /\ AnswersAreTheServers
  BY <1>5, NoAnswerIs DEF NewIsNew, Brings, AnswersAreTheServers
<1>9. LeasesArePast
  <2>1. LeaseOf(portal).generation = 0
    BY <1>1, <1>2, LeaseIs
  <2> QED  BY <1>1, <1>5, <2>1 DEF LeasesArePast, Asker
<1> QED  BY <1>1, <1>3, <1>6, <1>7, <1>8, <1>9
         DEF PortalInv, BelievedIsTrue, Anonymous, ShowsOneSession, Good, ShownAsRead

LEMMA PortalNextInv == PortalInv /\ [PortalNext]_portalVars => PortalInv'
<1> SUFFICES ASSUME PortalInv, [PortalNext]_portalVars PROVE PortalInv'
  OBVIOUS
<1>1. CASE UNCHANGED portalVars
  BY <1>1 DEF portalVars, PortalInv, Typed, OpenedSoFar, NewIsNew, LeasesArePast,
     AnswersAreTheServers, BelievedIsTrue, Anonymous, ShowsOneSession, Brings, Speaks, Stranger, Gone,
     Asker
<1>2. CASE PortalNext
  BY <1>2, ServeKeeps, LoseKeeps, ApplyKeeps, JoinKeeps, GesturesKeep, OthersKeep DEF PortalNext
<1> QED  BY <1>1, <1>2

LEMMA PortalInvariant == PortalSpec => []PortalInv
BY PortalInitInv, PortalNextInv, PTL DEF PortalSpec

\* What is shown as read is one session's account and workspace, whatever answers
\* late, is lost or happens in other tabs (adopt, identify, readOnce).
THEOREM TheScreenIsOneSessions == PortalSpec => []ShowsOneSession
<1>1. PortalInv => ShowsOneSession
  BY DEF PortalInv
<1> QED  BY <1>1, PortalInvariant, PTL

LEMMA StepKeepsLive ==
  PortalInv /\ [PortalNext]_portalVars =>
    (Forgets => \E r \in requests \ requests' : Deceives(r))
<1> SUFFICES ASSUME PortalInv, [PortalNext]_portalVars,
                    portal.session \in api.live, portal.session = cookie, portal'.session = Nobody
             PROVE  \E r \in requests \ requests' : Deceives(r)
  BY DEF Forgets
<1>1. portal.session # Nobody /\ ~Gone
  BY Numbers, Constants DEF Gone
<1>2. ASSUME NEW r \in requests, Apply(r) PROVE r \notin requests' /\ Deceives(r)
  <2>1. CASE TurnsTo(portal', r)
    <3>1. r.answer # NoAnswer
      BY <1>2 DEF Apply
    <3> QED  BY <1>1, <2>1, <3>1 DEF TurnsTo, FromNow
  <2>2. CASE CheckAnswered(r)
    BY <1>1, <2>2 DEF CheckAnswered
  <2> QED  BY <1>2, <2>1, <2>2, ApplyIs
<1>3. CASE portal' = portal
  BY <1>1, <1>3
<1>4. CASE \E r \in requests : Serve(r) \/ Lose(r) \/ JoinRead(r)
  BY <1>3, <1>4 DEF Serve, Lose, JoinRead
<1>5. CASE \/ AnotherTabSignsIn \/ AnotherTabSignsOut
           \/ \E s \in Sessions : SessionEnds(s)
           \/ \E s \in Sessions, w \in Workspaces \union {Unbound} : BindingMoves(s, w)
  BY <1>3, <1>5 DEF AnotherTabSignsIn, AnotherTabSignsOut, SessionEnds, BindingMoves, Elsewhere
<1>6. CASE \/ SignIn \/ ChangePassword \/ SignOut \/ RetryLoad
           \/ \E w \in Workspaces : SelectWorkspace(w)
           \/ \E kind \in {"read", "mutation"} : UsePage(kind)
  BY <1>1, <1>6, GesturesKeep
<1> QED  BY <1>2, <1>3, <1>4, <1>5, <1>6 DEF PortalNext, portalVars

\* A session that is live and that the browser sends is forgotten by nothing that refuses
\* it, answers late or is lost, but by the refusal of a read that a page joined and that
\* another session's page had sent (clearForRefusal, conclude, reads.run).
THEOREM LiveSessionsAreKept == PortalSpec => LiveSessionIsKept
<1>1. PortalSpec => [][PortalInv /\ [PortalNext]_portalVars]_portalVars
  BY PortalInvariant, PTL DEF PortalSpec
<1> QED  BY <1>1, StepKeepsLive, PTL DEF LiveSessionIsKept

-----------------------------------------------------------------------------
(* What the provider waits for: replacements, and a sign-out. *)

Replaces(r) == r.kind \in {"login", "change"}
Replacements == { r \in requests : Replaces(r) }
EndsSession(r) == r.kind \in {"logout", "ending"}

\* The provider counts the replacements it awaits, which carry numbers of their own.
Counted ==
  /\ IsFiniteSet(Replacements) /\ portal.replacing = Cardinality(Replacements)
  /\ \A r \in Replacements : r.number < happened.gestures
  /\ \A r, s \in Replacements : r.number = s.number => r = s

\* Every one of them was a gesture.
Counts == [gestures: Nat, losses: Nat, elsewhere: Nat, dropped: BOOLEAN, misled: BOOLEAN]
WithinBounds ==
  /\ happened \in Counts
  /\ happened.gestures + happened.losses + happened.elsewhere <= MaxEvents
  /\ portal.replacing <= happened.gestures

\* A refusal is put off only for a replacement that is awaited (deferredRefusal).
PutOffForOne == portal.deferred # NoLease => portal.replacing > 0

\* A pending sign-out is of the session held, and its answer, or the check that follows a
\* lost one, is still to come.
SigningOutIsAwaited ==
  portal.signingOut # NoLease =>
    /\ Holding(portal, portal.signingOut)
    /\ \E r \in requests : EndsSession(r) /\ r.lease = portal.signingOut

PendingInv == Counted /\ WithinBounds /\ PutOffForOne /\ SigningOutIsAwaited

-----------------------------------------------------------------------------
(* What the provider's functions leave of it. *)

\* From p to q no replacement is counted or settled, nothing is put off without one,
\* and the sign-out stays pending only with the session.
Keeps(p, q) ==
  /\ q.replacing = p.replacing
  /\ q.deferred \in {p.deferred, NoLease} \/ p.replacing > 0
  /\ \/ q.signingOut = NoLease
     \/ q.signingOut = p.signingOut /\ q.generation = p.generation /\ q.session = p.session

LEMMA KeepsOn ==
  ASSUME NEW p, NEW q, NEW o, Keeps(p, q), Keeps(q, o)
  PROVE  Keeps(p, o)
BY DEF Keeps

LEMMA AdoptCounts ==
  ASSUME NEW p \in Portals, NEW session, NEW keep
  PROVE  /\ Adopt(p, session, keep).replacing = p.replacing
         /\ Adopt(p, session, keep).deferred = p.deferred
         /\ Adopt(p, session, keep).signingOut = NoLease
BY DEF Adopt, InvalidateLoads, Portals

LEMMA LoadCounts ==
  ASSUME NEW p, Good(p), NEW lease \in Leases
  PROVE  Keeps(p, Load(p, lease))
<1>1. /\ Load(p, lease).generation = p.generation /\ Load(p, lease).session = p.session
  BY LoadIs
<1>2. /\ Load(p, lease).replacing = p.replacing /\ Load(p, lease).deferred = p.deferred
      /\ Load(p, lease).signingOut = p.signingOut
  BY DEF Load, Good, Portals
<1> QED  BY <1>1, <1>2 DEF Keeps

LEMMA AdoptAndLoadCounts ==
  ASSUME NEW p, Good(p), NEW session \in Known, NEW keep \in BOOLEAN
  PROVE  Keeps(p, AdoptAndLoad(p, session, keep))
<1> DEFINE q == Adopt(p, session, keep)
<1>1. Keeps(p, q)
  BY AdoptCounts DEF Keeps, Good
<1>2. Good(q) /\ AdoptAndLoad(p, session, keep) = Load(q, LeaseOf(q))
  BY AdoptIs DEF AdoptAndLoad
<1> HIDE DEF q
<1>3. LeaseOf(q) \in Leases
  BY <1>2, LeaseIs DEF Good
<1> QED  BY <1>1, <1>2, <1>3, LoadCounts, KeepsOn

LEMMA ForgetCounts ==
  ASSUME NEW p \in Portals
  PROVE  Keeps(p, Forget(p))
BY AdoptCounts DEF Forget, Keeps

LEMMA ClearCounts ==
  ASSUME NEW p \in Portals, NEW lease
  PROVE  Keeps(p, ClearForRefusal(p, lease))
<1>1. CASE ~Holding(p, lease)
  BY <1>1 DEF ClearForRefusal, Keeps
<1>2. CASE Holding(p, lease) /\ p.replacing > 0
  BY <1>2 DEF ClearForRefusal, Keeps, Portals
<1>3. CASE Holding(p, lease) /\ ~(p.replacing > 0)
  BY <1>3, ForgetCounts DEF ClearForRefusal
<1> QED  BY <1>1, <1>2, <1>3

LEMMA FinishedCounts ==
  ASSUME NEW p \in Portals, NEW number
  PROVE  Keeps(p, Finished(p, number))
BY DEF Finished, Keeps, Portals

LEMMA FailLoadCounts ==
  ASSUME NEW p \in Portals, NEW under, NEW number, NEW refused \in BOOLEAN
  PROVE  Keeps(p, FailLoad(p, under, number, refused))
<1>1. Keeps(p, p) /\ Keeps(p, [p EXCEPT !.screen = [@ EXCEPT !.loading = FALSE, !.problem = TRUE]])
  BY DEF Keeps, Portals
<1> QED  BY <1>1, ClearCounts, ForgetCounts DEF FailLoad

-----------------------------------------------------------------------------
(* The steps. *)

\* Applying an answer counts nothing, and may record that a refusal was let go of, or
\* believed of the wrong session.
Recorded == \E dropped, misled \in BOOLEAN :
              happened' = [happened EXCEPT !.dropped = dropped, !.misled = misled]
LEMMA RecordedIs ==
  ASSUME PendingInv, Recorded
  PROVE  /\ happened' \in Counts /\ happened'.gestures = happened.gestures
         /\ happened'.losses = happened.losses /\ happened'.elsewhere = happened.elsewhere
<1>1. happened \in Counts
  BY DEF PendingInv, WithinBounds
<1> QED  BY <1>1 DEF Recorded, Counts

\* A turn that settles nothing of it, or a sign-out that is not pending any more or
\* goes on.
LEMMA TurnCounts ==
  ASSUME PortalInv, PendingInv, Recorded, NEW r \in requests, ~Replaces(r),
         NEW p \in Portals, NEW more, Turn(p, r, more), Keeps(portal, p),
         \A x \in more : ~Replaces(x),
         EndsSession(r) /\ p.signingOut # NoLease =>
           r.lease # portal.signingOut \/ \E x \in more : EndsSession(x) /\ x.lease = r.lease
  PROVE  PendingInv'
<1>1. portal' = p /\ requests' = (requests \ {r}) \union Begun(p) \union more
  BY DEF Turn
<1>2. \A x \in Begun(p) : ~Replaces(x)
  BY DEF Begun, Request, Replaces
<1>3. Replacements' = Replacements
  <2>1. Replaces(r)' <=> Replaces(r)
    BY DEF Replaces
  <2>2. \A x : Replaces(x)' <=> Replaces(x)
    BY DEF Replaces
  <2> QED  BY <1>1, <1>2, <2>2 DEF Replacements
<1>4. Counted' /\ WithinBounds' /\ PutOffForOne'
  BY <1>1, <1>3, RecordedIs DEF PendingInv, Counted, WithinBounds, PutOffForOne, Keeps
<1>5. SigningOutIsAwaited'
  <2> SUFFICES ASSUME p.signingOut # NoLease
               PROVE  /\ Holding(p, p.signingOut)
                      /\ \E x \in requests' : EndsSession(x) /\ x.lease = p.signingOut
    BY <1>1 DEF SigningOutIsAwaited, EndsSession
  <2>1. /\ p.signingOut = portal.signingOut /\ p.generation = portal.generation
        /\ p.session = portal.session
    BY DEF Keeps
  <2>2. PICK w \in requests : EndsSession(w) /\ w.lease = portal.signingOut
    BY <2>1 DEF PendingInv, SigningOutIsAwaited
  <2>3. Holding(p, p.signingOut)
    BY <2>1 DEF PendingInv, SigningOutIsAwaited, Holding, LeaseOf
  <2>4. CASE w # r
    BY <1>1, <2>1, <2>2, <2>3, <2>4
  <2>5. CASE w = r
    BY <1>1, <2>1, <2>2, <2>3, <2>5
  <2> QED  BY <2>4, <2>5
<1> QED  BY <1>4, <1>5 DEF PendingInv

LEMMA TurnRestsCounts ==
  ASSUME PortalInv, PendingInv, Recorded, NEW r \in requests,
         ~Replaces(r), ~EndsSession(r), NEW p \in Portals, Turn(p, r, {}), Keeps(portal, p)
  PROVE  PendingInv'
<1> DEFINE more == {}
<1>1. Turn(p, r, more) /\ \A x \in more : ~Replaces(x)
  OBVIOUS
<1> HIDE DEF more
<1> QED  BY <1>1, TurnCounts

LEMMA AskingCounts ==
  ASSUME NEW kind \in Askers, NEW lease
  PROVE  /\ \A x \in Asking(kind, lease) : ~Replaces(x)
         /\ kind = "ending" => \E x \in Asking(kind, lease) : EndsSession(x) /\ x.lease = lease
<1>1. \A x \in Asking(kind, lease) : x.kind \in {kind, "check"}
  BY DEF Asking, Request
<1>2. Request(kind, lease, portal.generation) \in Asking(kind, lease)
  BY DEF Asking
<1>3. /\ Request(kind, lease, portal.generation).kind = kind
      /\ Request(kind, lease, portal.generation).lease = lease
  BY DEF Request
<1> QED  BY <1>1, <1>2, <1>3 DEF Replaces, Askers, EndsSession

LEMMA PortalKeepsItself == Keeps(portal, portal)
BY DEF Keeps

LEMMA AmbiguousCounts ==
  ASSUME PortalInv, PendingInv, Recorded, NEW r \in requests,
         ~Replaces(r), ~EndsSession(r), Ambiguous(portal, r, r.lease)
  PROVE  PendingInv'
<1> DEFINE more == IF Holding(portal, r.lease) THEN Asking("refusal", r.lease) ELSE {}
<1>1. Turn(portal, r, more) /\ portal \in Portals
  BY DEF Ambiguous, PortalInv, Typed
<1>2. \A x \in more : ~Replaces(x)
  BY AskingCounts DEF Askers
<1> HIDE DEF more
<1> QED  BY <1>1, <1>2, PortalKeepsItself, TurnCounts

LEMMA LoadFailedCounts ==
  ASSUME PortalInv, PendingInv, Recorded, NEW r \in requests, r.answer # NoAnswer,
         cookie' = SetCookie(r), ~Replaces(r), ~EndsSession(r), LoadFailed(r)
  PROVE  PendingInv'
<1> DEFINE failed == FailLoad(portal, r.under, r.number, r.answer.is = "unauthenticated")
           p == Finished(failed, r.number)
<1>1. Keeps(portal, failed) /\ Good(failed)
  BY AppliedIs, PortalIsGood, FailLoadIs, FailLoadCounts
<1> HIDE DEF failed
<1>2. p \in Portals /\ Keeps(failed, p)
  BY <1>1, FinishedIs, FinishedCounts DEF Good
<1>3. Turn(p, r, {})
  BY DEF LoadFailed, failed
<1> HIDE DEF p
<1> QED  BY <1>1, <1>2, <1>3, KeepsOn, TurnRestsCounts

LEMMA StaleCounts ==
  ASSUME PortalInv, PendingInv, Recorded, NEW r \in requests,
         ~Replaces(r), ~EndsSession(r), NEW p, Good(p), Keeps(portal, p),
         Turn(Finished(p, r.number), r, {})
  PROVE  PendingInv'
<1>1. Finished(p, r.number) \in Portals /\ Keeps(p, Finished(p, r.number))
  BY FinishedIs, FinishedCounts DEF Good
<1> QED  BY <1>1, KeepsOn, TurnRestsCounts

LEMMA ProfileCounts ==
  ASSUME PortalInv, PendingInv, Recorded, NEW r \in requests, r.answer # NoAnswer,
         cookie' = SetCookie(r), ProfileAnswered(r)
  PROVE  PendingInv'
<1>1. /\ portal \in Portals /\ Good(portal) /\ r.kind = "profile" /\ ~Replaces(r) /\ ~EndsSession(r)
      /\ r.answer.session \in Known
  BY AppliedIs, PortalIsGood DEF ProfileAnswered, Replaces, EndsSession
<1>2. \A lease : \A x \in DetailOf(r, lease) : ~Replaces(x)
  BY DEF DetailOf, Request, Replaces
<1>3. CASE r.answer.is # "ok"
  BY <1>1, <1>3, LoadFailedCounts DEF ProfileAnswered
<1>4. CASE r.answer.is = "ok" /\ ~Current(portal, r.lease, r.number)
  BY <1>1, <1>4, PortalKeepsItself, StaleCounts DEF ProfileAnswered
<1>5. CASE Identify(r)
  <2> DEFINE claimed == Claim(portal, r.answer.session)
             adopted == AdoptAndLoad(portal, r.answer.session, FALSE)
  <2>1. CASE Turn(portal, r, DetailOf(r, r.lease))
    BY <1>1, <1>2, <2>1, PortalKeepsItself, TurnCounts
  <2>2. CASE Turn(claimed, r, DetailOf(r, LeaseOf(claimed)))
    <3>1. claimed \in Portals /\ Keeps(portal, claimed)
      <4> DEFINE g == portal.generation + 1
      <4>1. g \in Nat /\ claimed = [portal EXCEPT !.generation = g, !.session = r.answer.session,
                                                  !.signingOut = NoLease]
        BY <1>1 DEF Claim, Portals
      <4> HIDE DEF g, claimed
      <4> QED  BY <1>1, <4>1, Constants DEF Portals, Keeps
    <3> HIDE DEF claimed
    <3> QED  BY <1>1, <1>2, <2>2, <3>1, TurnCounts
  <2>3. CASE Turn(adopted, r, {})
    <3>1. adopted \in Portals /\ Keeps(portal, adopted)
      BY <1>1, AdoptAndLoadIs, AdoptAndLoadCounts DEF Good
    <3> HIDE DEF adopted
    <3> QED  BY <1>1, <2>3, <3>1, TurnRestsCounts
  <2> QED  BY <1>5, <2>1, <2>2, <2>3 DEF Identify
<1> QED  BY <1>3, <1>4, <1>5 DEF ProfileAnswered

LEMMA DetailCounts ==
  ASSUME PortalInv, PendingInv, Recorded, NEW r \in requests, r.answer # NoAnswer,
         cookie' = SetCookie(r), DetailAnswered(r)
  PROVE  PendingInv'
<1>1. /\ portal \in Portals /\ Good(portal) /\ r.kind = "detail" /\ ~Replaces(r) /\ ~EndsSession(r)
      /\ r.lease \in Leases
  BY AppliedIs, PortalIsGood DEF DetailAnswered, Replaces, EndsSession
<1>2. CASE r.answer.is # "ok"
  BY <1>1, <1>2, LoadFailedCounts DEF DetailAnswered
<1>3. CASE Turn(Finished(portal, r.number), r, {})
  BY <1>1, <1>3, PortalKeepsItself, StaleCounts
<1>4. CASE r.answer.is = "ok" /\ Turn(Finished(Publish(portal, r), r.number), r, {})
  <2> DEFINE shown == Publish(portal, r)
             p == Finished(shown, r.number)
  <2>1. /\ p.replacing = portal.replacing /\ p.deferred = portal.deferred
        /\ p.signingOut = portal.signingOut /\ p.generation = portal.generation
        /\ p.session = portal.session
    BY <1>1 DEF Publish, Finished, Portals
  <2>2. Keeps(portal, p) /\ Turn(p, r, {}) /\ portal' = p
    BY <1>4, <2>1 DEF Keeps, Turn
  <2> HIDE DEF p
  <2>3. TurnsTo(portal', r)
    BY DetailAnsweredIs
  <2>4. p \in Portals
    BY <2>2, <2>3 DEF TurnsTo, Good
  <2> QED  BY <1>1, <2>2, <2>4, TurnRestsCounts
<1>5. CASE Turn(portal, r, {[Request("profile", r.lease, r.number) EXCEPT !.attempt = 2]})
  <2> DEFINE more == {[Request("profile", r.lease, r.number) EXCEPT !.attempt = 2]}
  <2>1. \A x \in more : ~Replaces(x)
    BY DEF Request, Replaces
  <2>2. Turn(portal, r, more)
    BY <1>5
  <2> HIDE DEF more
  <2> QED  BY <1>1, <2>1, <2>2, PortalKeepsItself, TurnCounts
<1>6. CASE Turn(Finished(FailLoad(portal, r.lease, r.number, FALSE), r.number), r, {})
  <2>1. Good(FailLoad(portal, r.lease, r.number, FALSE))
    BY <1>1, FailLoadIs
  <2>2. Keeps(portal, FailLoad(portal, r.lease, r.number, FALSE))
    BY <1>1, FailLoadCounts
  <2> QED  BY <1>1, <1>6, <2>1, <2>2, StaleCounts
<1> QED  BY <1>2, <1>3, <1>4, <1>5, <1>6 DEF DetailAnswered

LEMMA ClearedCounts ==
  ASSUME PortalInv, PendingInv, Recorded, NEW r \in requests,
         r.lease \in Leases, ~Replaces(r), ~EndsSession(r), Turn(ClearForRefusal(portal, r.lease), r, {})
  PROVE  PendingInv'
<1>1. portal \in Portals /\ Good(portal)
  BY PortalIsGood DEF Good
<1>2. ClearForRefusal(portal, r.lease) \in Portals /\ Keeps(portal, ClearForRefusal(portal, r.lease))
  BY <1>1, ClearIs, ClearCounts DEF Good
<1> QED  BY <1>2, TurnRestsCounts

LEMMA LoadingCounts ==
  ASSUME PortalInv, PendingInv, Recorded, NEW r \in requests,
         r.lease \in Leases, ~Replaces(r), ~EndsSession(r), Turn(Load(portal, r.lease), r, {})
  PROVE  PendingInv'
<1>1. Good(portal)
  BY PortalIsGood
<1>2. Load(portal, r.lease) \in Portals /\ Keeps(portal, Load(portal, r.lease))
  BY <1>1, LoadIs, LoadCounts DEF Good
<1> QED  BY <1>2, TurnRestsCounts

LEMMA RefusalCounts ==
  ASSUME PortalInv, PendingInv, Recorded, NEW r \in requests, r.answer # NoAnswer,
         cookie' = SetCookie(r), RefusalSettled(r)
  PROVE  PendingInv'
<1>1. /\ portal \in Portals /\ Good(portal) /\ r.kind = "refusal" /\ ~Replaces(r) /\ ~EndsSession(r)
      /\ r.lease \in Leases /\ r.answer.session \in Known
  BY AppliedIs, PortalIsGood DEF RefusalSettled, Replaces, EndsSession
<1>2. CASE Turn(ClearForRefusal(portal, r.lease), r, {})
  BY <1>1, <1>2, ClearedCounts
<1>3. CASE Turn(AdoptAndLoad(portal, r.answer.session, TRUE), r, {})
  <2> DEFINE p == AdoptAndLoad(portal, r.answer.session, TRUE)
  <2>1. p \in Portals /\ Keeps(portal, p) /\ Turn(p, r, {})
    BY <1>1, <1>3, AdoptAndLoadIs, AdoptAndLoadCounts DEF Good
  <2> HIDE DEF p
  <2> QED  BY <1>1, <2>1, TurnRestsCounts
<1>4. CASE Turn(portal, r, {})
  BY <1>1, <1>4, PortalKeepsItself, TurnRestsCounts
<1> QED  BY <1>2, <1>3, <1>4 DEF RefusalSettled

LEMMA PageCounts ==
  ASSUME PortalInv, PendingInv, Recorded, NEW r \in requests, r.answer # NoAnswer,
         cookie' = SetCookie(r), PageAnswered(r)
  PROVE  PendingInv'
<1>1. /\ portal \in Portals /\ ~Replaces(r) /\ ~EndsSession(r) /\ r.lease \in Leases
  BY AppliedIs DEF PageAnswered, Replaces, EndsSession
<1>2. CASE Turn(portal, r, {})
  BY <1>1, <1>2, PortalKeepsItself, TurnRestsCounts
<1> QED  BY <1>1, <1>2, LoadingCounts, ClearedCounts, AmbiguousCounts DEF PageAnswered

LEMMA SelectCounts ==
  ASSUME PortalInv, PendingInv, Recorded, NEW r \in requests, r.answer # NoAnswer,
         cookie' = SetCookie(r), SelectAnswered(r)
  PROVE  PendingInv'
<1>1. /\ portal \in Portals /\ ~Replaces(r) /\ ~EndsSession(r) /\ r.lease \in Leases
  BY AppliedIs DEF SelectAnswered, Replaces, EndsSession
<1>2. CASE Turn(portal, r, {})
  BY <1>1, <1>2, PortalKeepsItself, TurnRestsCounts
<1>3. CASE Turn(Load(Switched(portal, r), r.lease), r, {})
  <2> DEFINE switched == Switched(portal, r)
             p == Load(switched, r.lease)
  <2>1. /\ switched.replacing = portal.replacing /\ switched.deferred = portal.deferred
        /\ switched.signingOut = portal.signingOut /\ switched.generation = portal.generation
        /\ switched.session = portal.session
    BY <1>1 DEF Switched, InvalidateLoads, Portals
  <2>2. DOMAIN switched = DOMAIN portal
    BY DEF Switched, InvalidateLoads
  <2> HIDE DEF switched
  <2>3. /\ p.replacing = portal.replacing /\ p.deferred = portal.deferred
        /\ p.signingOut = portal.signingOut /\ p.generation = portal.generation
        /\ p.session = portal.session
    BY <1>1, <2>1, <2>2 DEF Load, Portals
  <2>4. Keeps(portal, p) /\ Turn(p, r, {}) /\ portal' = p
    BY <1>3, <2>3 DEF Keeps, Turn, switched
  <2> HIDE DEF p
  <2>5. p \in Portals
    BY <2>4, SelectAnsweredIs DEF TurnsTo, Good
  <2> QED  BY <1>1, <2>4, <2>5, TurnRestsCounts
<1> QED  BY <1>1, <1>2, <1>3, LoadingCounts, AmbiguousCounts DEF SelectAnswered

\* The sign-out's own answers, and the reading that settles one that failed.
LEMMA LogoutCounts ==
  ASSUME PortalInv, PendingInv, Recorded, NEW r \in requests, r.answer # NoAnswer,
         cookie' = SetCookie(r), LogoutAnswered(r) \/ EndingSettled(r)
  PROVE  PendingInv'
<1>1. /\ portal \in Portals /\ Good(portal) /\ EndsSession(r) /\ ~Replaces(r)
  BY AppliedIs, PortalIsGood DEF LogoutAnswered, EndingSettled, Replaces, EndsSession
<1>2. /\ Concluded \in Portals /\ Concluded.signingOut = NoLease /\ Keeps(portal, Concluded)
  BY <1>1, Constants DEF Concluded, Portals, Keeps
<1>3. /\ Forget(Concluded) \in Portals /\ Forget(Concluded).signingOut = NoLease
      /\ Keeps(portal, Forget(Concluded))
  <2>1. Forget(Concluded) \in Portals
    BY ConcludedIs, ForgetIs DEF Good
  <2>2. Forget(Concluded).signingOut = NoLease /\ Keeps(Concluded, Forget(Concluded))
    BY <1>2, AdoptCounts, ForgetCounts DEF Forget
  <2> QED  BY <1>2, <2>1, <2>2, KeepsOn
<1>4. ASSUME NEW p \in Portals, Turn(p, r, {}), Keeps(portal, p),
             p.signingOut # NoLease => r.lease # portal.signingOut
      PROVE  PendingInv'
  <2> DEFINE more == {}
  <2>1. Turn(p, r, more) /\ \A x \in more : ~Replaces(x)
    BY <1>4
  <2> HIDE DEF more
  <2> QED  BY <1>1, <1>4, <2>1, TurnCounts
<1>5. portal.signingOut # NoLease => (Pending(r.lease) <=> r.lease = portal.signingOut)
  BY DEF PendingInv, SigningOutIsAwaited, Pending
<1>6. CASE Turn(portal, r, {}) /\ ~Pending(r.lease)
  BY <1>1, <1>4, <1>5, <1>6, PortalKeepsItself
<1>7. CASE Turn(Concluded, r, {}) \/ Turn(Forget(Concluded), r, {})
  BY <1>2, <1>3, <1>4, <1>7
<1>8. CASE Turn(portal, r, Asking("ending", r.lease))
  BY <1>1, <1>8, AskingCounts, PortalKeepsItself, TurnCounts DEF Askers
<1> QED  BY <1>6, <1>7, <1>8 DEF LogoutAnswered, EndingSettled

\* A replacement that is settled: one less, and nothing is put off any more.
LEMMA ReplacedCounts ==
  ASSUME PortalInv, PendingInv, Recorded, NEW r \in requests, r.answer # NoAnswer,
         cookie' = SetCookie(r), Replaced(r)
  PROVE  PendingInv'
<1>1. /\ portal \in Portals /\ Good(portal) /\ Replaces(r) /\ r \in Replacements /\ ~EndsSession(r)
      /\ r.answer.session \in Known /\ r.lease \in Leases /\ portal.replacing \in Int
  BY AppliedIs, PortalIsGood DEF Replaced, Replaces, Replacements, EndsSession, Portals
<1>2. /\ Unawaited.replacing = portal.replacing - 1 /\ Unawaited.deferred = NoLease
      /\ Unawaited.signingOut = portal.signingOut /\ Unawaited.generation = portal.generation
      /\ Unawaited.session = portal.session
  BY <1>1 DEF Portals, Unawaited
<1>3. Unawaited \in Portals /\ Good(Unawaited)
  <2> DEFINE n == portal.replacing - 1
  <2>1. n \in Int /\ Unawaited = [portal EXCEPT !.replacing = n, !.deferred = NoLease]
    BY <1>1 DEF Portals, Unawaited
  <2> HIDE DEF n
  <2>2. /\ Unawaited \in Portals /\ Unawaited.generation = portal.generation
        /\ Unawaited.session = portal.session /\ Unawaited.inFlight = portal.inFlight
        /\ Unawaited.screen = portal.screen
    BY <1>1, <2>1, Constants DEF Portals
  <2> QED  BY <1>1, <2>2 DEF Good
<1>4. PICK p, more : /\ p \in Portals /\ Turn(p, r, more) /\ Keeps(Unawaited, p)
                     /\ \A x \in more : ~Replaces(x)
  <2>1. CASE r.answer.is = "ok"
    <3> DEFINE p == AdoptAndLoad(Unawaited, r.answer.session, TRUE)
    <3>1. p \in Portals /\ Keeps(Unawaited, p)
      BY <1>1, <1>3, AdoptAndLoadIs, AdoptAndLoadCounts DEF Good
    <3>2. Turn(p, r, {})
      BY <2>1 DEF Replaced
    <3> HIDE DEF p
    <3> QED  BY <3>1, <3>2
  <2>2. CASE r.answer.is # "ok"
    <3>1. PICK p, more : /\ p \in {Unawaited, Load(Unawaited, r.lease)} /\ Turn(p, r, more)
                         /\ \A x \in more : ~Replaces(x)
      <4>1. \A lease : \A x \in Asking("refusal", lease) : ~Replaces(x)
        BY AskingCounts DEF Askers
      <4> QED  BY <2>2, <4>1 DEF Replaced, ReplacementFailed
    <3>2. p \in Portals /\ Keeps(Unawaited, p)
      <4>1. Keeps(Unawaited, Unawaited)
        BY DEF Keeps
      <4>2. Load(Unawaited, r.lease) \in Portals /\ Keeps(Unawaited, Load(Unawaited, r.lease))
        BY <1>1, <1>3, LoadIs, LoadCounts DEF Good
      <4> QED  BY <1>3, <3>1, <4>1, <4>2
    <3> QED  BY <3>1, <3>2
  <2> QED  BY <2>1, <2>2
<1>5. portal' = p /\ requests' = (requests \ {r}) \union Begun(p) \union more
  BY <1>4 DEF Turn
<1>6. p.replacing = portal.replacing - 1
  BY <1>2, <1>4 DEF Keeps
<1>7. Replacements' = Replacements \ {r}
  <2>1. \A x \in Begun(p) : ~Replaces(x)
    BY DEF Begun, Request, Replaces
  <2>2. \A x : Replaces(x)' <=> Replaces(x)
    BY DEF Replaces
  <2> QED  BY <1>4, <1>5, <2>1, <2>2 DEF Replacements
<1>8. Counted'
  <2>1. /\ IsFiniteSet(Replacements \ {r})
        /\ Cardinality(Replacements \ {r}) = Cardinality(Replacements) - 1
    BY <1>1, FS_RemoveElement DEF PendingInv, Counted
  <2> QED  BY <1>1, <1>5, <1>6, <1>7, <2>1, RecordedIs DEF PendingInv, Counted
<1>9. WithinBounds'
  <2>1. portal.replacing \in Int /\ happened'.gestures \in Nat
    BY <1>1, RecordedIs DEF Counts
  <2> QED  BY <1>5, <1>6, <2>1, RecordedIs DEF PendingInv, WithinBounds
<1>10. PutOffForOne'
  <2>1. CASE p.deferred = NoLease
    BY <1>5, <2>1 DEF PutOffForOne
  <2>2. CASE Unawaited.replacing > 0
    BY <1>4, <1>5, <2>2 DEF PutOffForOne, Keeps
  <2> QED  BY <1>2, <1>4, <2>1, <2>2 DEF Keeps
<1>11. SigningOutIsAwaited'
  <2> SUFFICES ASSUME p.signingOut # NoLease
               PROVE  /\ Holding(p, p.signingOut)
                      /\ \E x \in requests' : EndsSession(x) /\ x.lease = p.signingOut
    BY <1>5 DEF SigningOutIsAwaited, EndsSession
  <2>1. /\ p.signingOut = portal.signingOut /\ p.generation = portal.generation
        /\ p.session = portal.session
    BY <1>2, <1>4 DEF Keeps
  <2>2. PICK w \in requests : EndsSession(w) /\ w.lease = portal.signingOut
    BY <2>1 DEF PendingInv, SigningOutIsAwaited
  <2>3. Holding(p, p.signingOut)
    BY <2>1 DEF PendingInv, SigningOutIsAwaited, Holding, LeaseOf
  <2> QED  BY <1>1, <1>5, <2>1, <2>2, <2>3
<1> QED  BY <1>8, <1>9, <1>10, <1>11 DEF PendingInv

\* An answer does not change what a request is.
LEMMA AnswerCounts ==
  ASSUME PortalInv, PendingInv, NEW r \in requests, NEW v, AnswerOf(r, v), portal' = portal,
         happened' \in Counts,
         happened'.gestures = happened.gestures,
         happened'.gestures + happened'.losses + happened'.elsewhere <= MaxEvents
  PROVE  PendingInv'
<1> DEFINE x == [r EXCEPT !.answer = v]
<1>1. requests' = (requests \ {r}) \union {x}
  BY DEF AnswerOf
<1>2. x.kind = r.kind /\ x.lease = r.lease /\ x.number = r.number
  BY DEF PortalInv, Typed, Awaited
<1> HIDE DEF x
<1>3. \A y : Replaces(y)' <=> Replaces(y)
  BY DEF Replaces
<1>4. Counted'
  <2>1. CASE ~Replaces(r)
    <3>1. Replacements' = Replacements
      BY <1>1, <1>2, <1>3, <2>1 DEF Replacements, Replaces
    <3> QED  BY <3>1 DEF PendingInv, Counted
  <2>2. CASE Replaces(r)
    <3>1. r \in Replacements /\ Replacements' = (Replacements \ {r}) \union {x}
      BY <1>1, <1>2, <1>3, <2>2 DEF Replacements, Replaces
    <3>2. x \notin Replacements \ {r}
      BY <1>2, <3>1 DEF PendingInv, Counted
    <3>3. /\ IsFiniteSet(Replacements \ {r})
          /\ Cardinality(Replacements \ {r}) = Cardinality(Replacements) - 1
      BY <3>1, FS_RemoveElement DEF PendingInv, Counted
    <3>4. /\ IsFiniteSet(Replacements')
          /\ Cardinality(Replacements') = Cardinality(Replacements \ {r}) + 1
      BY <3>1, <3>2, <3>3, FS_AddElement
    <3>5. Cardinality(Replacements) \in Nat
      BY FS_CardinalityType DEF PendingInv, Counted
    <3>6. Cardinality(Replacements') = Cardinality(Replacements)
      BY <3>3, <3>4, <3>5
    <3> QED  BY <1>2, <3>1, <3>4, <3>6 DEF PendingInv, Counted
  <2> QED  BY <2>1, <2>2
<1>5. WithinBounds' /\ PutOffForOne'
  BY DEF PendingInv, WithinBounds, PutOffForOne
<1>6. SigningOutIsAwaited'
  BY <1>1, <1>2 DEF PendingInv, SigningOutIsAwaited, EndsSession
<1> QED  BY <1>4, <1>5, <1>6 DEF PendingInv

LEMMA CheckCounts ==
  ASSUME PortalInv, PendingInv, Recorded, NEW r \in requests, CheckAnswered(r)
  PROVE  PendingInv'
<1> DEFINE Put(a) == IF Asker(a) /\ a.number = r.number /\ a.answer = NoAnswer
                     THEN [a EXCEPT !.answer = r.answer] ELSE a
<1>1. portal' = portal /\ requests' = { Put(a) : a \in requests \ {r} } /\ r.kind = "check"
  BY DEF CheckAnswered
<1>2. \A a \in requests : /\ Put(a).kind = a.kind /\ Put(a).lease = a.lease
                          /\ Replaces(a) => Put(a) = a
  BY DEF PortalInv, Typed, Awaited, Replaces, Asker
<1> HIDE DEF Put
<1>3. Replacements' = Replacements
  <2>1. \A y : Replaces(y)' <=> Replaces(y)
    BY DEF Replaces
  <2>2. ~Replaces(r)
    BY <1>1 DEF Replaces
  <2>3. \A a \in requests : Replaces(Put(a)) <=> Replaces(a)
    BY <1>2 DEF Replaces
  <2> QED  BY <1>1, <1>2, <2>1, <2>2, <2>3 DEF Replacements
<1>4. Counted' /\ WithinBounds' /\ PutOffForOne'
  BY <1>1, <1>3, RecordedIs DEF PendingInv, Counted, WithinBounds, PutOffForOne
<1>5. SigningOutIsAwaited'
  <2> SUFFICES ASSUME portal.signingOut # NoLease
               PROVE  \E x \in requests' : EndsSession(x) /\ x.lease = portal.signingOut
    BY <1>1 DEF PendingInv, SigningOutIsAwaited, EndsSession
  <2>1. PICK w \in requests : EndsSession(w) /\ w.lease = portal.signingOut
    BY DEF PendingInv, SigningOutIsAwaited
  <2>2. w # r /\ Put(w) \in requests' /\ EndsSession(Put(w)) /\ Put(w).lease = portal.signingOut
    BY <1>1, <1>2, <2>1 DEF EndsSession
  <2> QED  BY <2>2
<1> QED  BY <1>4, <1>5 DEF PendingInv

LEMMA ApplyCounts ==
  ASSUME PortalInv, PendingInv, NEW r \in requests, Apply(r)
  PROVE  PendingInv'
BY ProfileCounts, DetailCounts, CheckCounts, RefusalCounts, PageCounts, ReplacedCounts,
   LogoutCounts, SelectCounts DEF Apply, Recorded

LEMMA HappensCounts ==
  ASSUME PendingInv, NEW what \in {"gestures", "losses", "elsewhere"}, Happens(what)
  PROVE  /\ happened' \in Counts
         /\ happened'.gestures + happened'.losses + happened'.elsewhere <= MaxEvents
         /\ happened'.gestures = IF what = "gestures" THEN happened.gestures + 1 ELSE happened.gestures
<1>1. /\ happened \in Counts /\ MaxEvents \in Nat
      /\ happened.gestures + happened.losses + happened.elsewhere < MaxEvents
      /\ happened' = [happened EXCEPT ![what] = @ + 1]
  BY Constants DEF PendingInv, WithinBounds, Happens
<1> QED  BY <1>1 DEF Counts

LEMMA ServeCounts ==
  ASSUME PortalInv, PendingInv, NEW r \in requests, Serve(r)
  PROVE  PendingInv'
<1>1. portal' = portal /\ happened' = happened /\ \E v : AnswerOf(r, v)
  BY DEF Serve, ServeRead, ServeLogin, ServeChange, ServeLogout, ServeSelect, ServeRefusal, Opens
<1>2. /\ happened' \in Counts
      /\ happened'.gestures = happened.gestures
      /\ happened'.gestures + happened'.losses + happened'.elsewhere <= MaxEvents
  BY <1>1 DEF PendingInv, WithinBounds
<1> QED  BY <1>1, <1>2, AnswerCounts

LEMMA LoseCounts ==
  ASSUME PortalInv, PendingInv, NEW r \in requests, Lose(r)
  PROVE  PendingInv'
<1>1. portal' = portal /\ Happens("losses") /\ AnswerOf(r, Says("lost"))
  BY DEF Lose
<1>2. /\ happened' \in Counts
      /\ happened'.gestures = happened.gestures
      /\ happened'.gestures + happened'.losses + happened'.elsewhere <= MaxEvents
  BY <1>1, HappensCounts
<1> QED  BY <1>1, <1>2, AnswerCounts

LEMMA OthersCount ==
  ASSUME PendingInv, Happens("elsewhere"), UNCHANGED <<portal, requests>>
  PROVE  PendingInv'
<1>1. /\ happened' \in Counts
      /\ happened'.gestures = happened.gestures
      /\ happened'.gestures + happened'.losses + happened'.elsewhere <= MaxEvents
  BY HappensCounts
<1>2. Replacements' = Replacements
  BY DEF Replacements, Replaces
<1> QED  BY <1>1, <1>2 DEF PendingInv, Counted, WithinBounds, PutOffForOne, SigningOutIsAwaited, EndsSession

\* A gesture that neither replaces the session nor ends it.
LEMMA GestureCounts ==
  ASSUME PortalInv, PendingInv, NEW p, NEW more, Gesture(p, more), Keeps(portal, p),
         p.signingOut = portal.signingOut, \A x \in more : ~Replaces(x)
  PROVE  PendingInv'
<1>1. /\ portal' = p /\ requests' = requests \union Begun(p) \union more
      /\ happened' \in Counts
      /\ happened'.gestures = happened.gestures + 1
      /\ happened'.gestures + happened'.losses + happened'.elsewhere <= MaxEvents
  BY HappensCounts DEF Gesture
<1>2. Replacements' = Replacements
  <2>1. \A x \in Begun(p) : ~Replaces(x)
    BY DEF Begun, Request, Replaces
  <2>2. \A x : Replaces(x)' <=> Replaces(x)
    BY DEF Replaces
  <2> QED  BY <1>1, <2>1, <2>2 DEF Replacements
<1>3. happened.gestures \in Nat /\ portal.replacing <= happened.gestures
      /\ portal.replacing \in Int
      /\ \A r \in Replacements : r.number \in Int /\ r.number < happened.gestures
  BY DEF PortalInv, Typed, Portals, Awaited, Replacements, PendingInv, WithinBounds, Counted, Counts
<1>4. Counted'
  <2>1. \A r \in Replacements : r.number < happened'.gestures
    BY <1>1, <1>3
  <2> QED  BY <1>1, <1>2, <2>1 DEF PendingInv, Counted, Keeps
<1>5. WithinBounds' /\ PutOffForOne'
  BY <1>1, <1>3 DEF PendingInv, WithinBounds, PutOffForOne, Keeps
<1>6. SigningOutIsAwaited'
  <2>1. portal.signingOut # NoLease => Holding(p, portal.signingOut)
    BY DEF PendingInv, SigningOutIsAwaited, Keeps, Holding, LeaseOf
  <2> QED  BY <1>1, <2>1 DEF PendingInv, SigningOutIsAwaited, EndsSession
<1> QED  BY <1>4, <1>5, <1>6 DEF PendingInv

LEMMA ReplacementBegins ==
  ASSUME PortalInv, PendingInv, NEW kind \in {"login", "change"},
         Gesture([portal EXCEPT !.replacing = @ + 1], {Sent(kind)})
  PROVE  PendingInv'
<1> DEFINE p == [portal EXCEPT !.replacing = @ + 1]
           x == Sent(kind)
<1>1. /\ portal' = p /\ requests' = requests \union Begun(p) \union {x}
      /\ happened' \in Counts
      /\ happened'.gestures = happened.gestures + 1
      /\ happened'.gestures + happened'.losses + happened'.elsewhere <= MaxEvents
  BY HappensCounts DEF Gesture
<1>2. /\ p.replacing = portal.replacing + 1 /\ p.deferred = portal.deferred
      /\ p.signingOut = portal.signingOut /\ p.generation = portal.generation
      /\ p.session = portal.session /\ portal.replacing \in Int
  BY DEF PortalInv, Typed, Portals
<1>3. x.kind = kind /\ x.number = happened.gestures
  BY DEF Sent, Request
<1>4. happened.gestures \in Nat /\ portal.replacing <= happened.gestures
      /\ \A r \in Replacements : r.number \in Int /\ r.number < happened.gestures
  BY DEF PortalInv, Typed, Awaited, Replacements, PendingInv, WithinBounds, Counted, Counts
<1> HIDE DEF p, x
<1>5. Replacements' = Replacements \union {x} /\ x \notin Replacements
  <2>1. \A y \in Begun(p) : ~Replaces(y)
    BY DEF Begun, Request, Replaces
  <2>2. \A y : Replaces(y)' <=> Replaces(y)
    BY DEF Replaces
  <2>3. Replaces(x)
    BY <1>3 DEF Replaces
  <2> QED  BY <1>1, <1>3, <1>4, <2>1, <2>2, <2>3 DEF Replacements
<1>6. Counted'
  <2>1. IsFiniteSet(Replacements') /\ Cardinality(Replacements') = Cardinality(Replacements) + 1
    BY <1>5, FS_AddElement DEF PendingInv, Counted
  <2>2. \A r \in Replacements' : r.number < happened'.gestures
    BY <1>1, <1>3, <1>4, <1>5
  <2>3. \A r, s \in Replacements' : r.number = s.number => r = s
    BY <1>3, <1>4, <1>5 DEF PendingInv, Counted
  <2> QED  BY <1>1, <1>2, <2>1, <2>2, <2>3 DEF PendingInv, Counted
<1>7. WithinBounds' /\ PutOffForOne'
  BY <1>1, <1>2, <1>4 DEF PendingInv, WithinBounds, PutOffForOne
<1>8. SigningOutIsAwaited'
  <2>1. portal.signingOut # NoLease => Holding(p, portal.signingOut)
    BY <1>2 DEF PendingInv, SigningOutIsAwaited, Holding, LeaseOf
  <2> QED  BY <1>1, <1>2, <2>1 DEF PendingInv, SigningOutIsAwaited, EndsSession
<1> QED  BY <1>6, <1>7, <1>8 DEF PendingInv

LEMMA SignOutBegins ==
  ASSUME PortalInv, PendingInv, SignOut
  PROVE  PendingInv'
<1> DEFINE p == [portal EXCEPT !.signingOut = LeaseOf(portal)]
           x == Sent("logout")
<1>1. /\ portal' = p /\ requests' = requests \union Begun(p) \union {x}
      /\ happened' \in Counts
      /\ happened'.gestures = happened.gestures + 1
      /\ happened'.gestures + happened'.losses + happened'.elsewhere <= MaxEvents
  BY HappensCounts DEF SignOut, Gesture
<1>2. /\ p.replacing = portal.replacing /\ p.deferred = portal.deferred
      /\ p.signingOut = LeaseOf(portal) /\ LeaseOf(p) = LeaseOf(portal)
  BY DEF PortalInv, Typed, Portals, LeaseOf
<1>3. x.kind = "logout" /\ x.lease = LeaseOf(portal)
  BY DEF Sent, Request
<1>4. happened.gestures \in Nat /\ portal.replacing <= happened.gestures
      /\ portal.replacing \in Int
      /\ \A r \in Replacements : r.number \in Int /\ r.number < happened.gestures
  BY DEF PortalInv, Typed, Portals, Awaited, Replacements, PendingInv, WithinBounds, Counted, Counts
<1> HIDE DEF p, x
<1>5. Replacements' = Replacements
  <2>1. \A y \in Begun(p) : ~Replaces(y)
    BY DEF Begun, Request, Replaces
  <2>2. \A y : Replaces(y)' <=> Replaces(y)
    BY DEF Replaces
  <2>3. ~Replaces(x)
    BY <1>3 DEF Replaces
  <2> QED  BY <1>1, <2>1, <2>2, <2>3 DEF Replacements
<1>6. Counted'
  <2>1. \A r \in Replacements : r.number < happened'.gestures
    BY <1>1, <1>4
  <2> QED  BY <1>1, <1>2, <1>5, <2>1 DEF PendingInv, Counted
<1>7. WithinBounds' /\ PutOffForOne'
  BY <1>1, <1>2, <1>4 DEF PendingInv, WithinBounds, PutOffForOne
<1>8. SigningOutIsAwaited'
  BY <1>1, <1>2, <1>3 DEF SigningOutIsAwaited, EndsSession, Holding
<1> QED  BY <1>6, <1>7, <1>8 DEF PendingInv

LEMMA GesturesCount ==
  ASSUME PortalInv, PendingInv,
         \/ SignIn \/ ChangePassword \/ SignOut \/ RetryLoad
         \/ \E w \in Workspaces : SelectWorkspace(w)
         \/ \E kind \in {"read", "mutation"} : UsePage(kind)
  PROVE  PendingInv'
<1>1. CASE SignIn \/ ChangePassword
  BY <1>1, ReplacementBegins DEF SignIn, ChangePassword
<1>2. CASE SignOut
  BY <1>2, SignOutBegins
<1>3. CASE RetryLoad
  <2> DEFINE p == Load(portal, LeaseOf(portal))
             more == {}
  <2>1. Gesture(p, more)
    BY <1>3 DEF RetryLoad
  <2>2. portal \in Portals /\ Good(portal) /\ LeaseOf(portal) \in Leases
    BY PortalIsGood, LeaseIs DEF Good
  <2>3. Keeps(portal, p)
    BY <2>2, LoadCounts
  <2>4. p.signingOut = portal.signingOut
    BY <2>2 DEF Load, Portals
  <2>5. \A x \in more : ~Replaces(x)
    OBVIOUS
  <2> HIDE DEF p, more
  <2> QED  BY <2>1, <2>3, <2>4, <2>5, GestureCounts
<1>4. ASSUME NEW kind \in {"read", "mutation", "select"}, NEW w,
             NEW x \in {Sent(kind), [Sent(kind) EXCEPT !.asked = w]}, Gesture(portal, {x})
      PROVE  PendingInv'
  <2> DEFINE more == {x}
  <2>1. \A y \in more : ~Replaces(y)
    BY <1>4 DEF Replaces, Sent, Request
  <2>2. Gesture(portal, more)
    BY <1>4
  <2> HIDE DEF more
  <2> QED  BY <2>1, <2>2, PortalKeepsItself, GestureCounts
<1>5. ASSUME NEW w \in Workspaces, SelectWorkspace(w) PROVE PendingInv'
  BY <1>4, <1>5 DEF SelectWorkspace
<1>6. ASSUME NEW kind \in {"read", "mutation"}, UsePage(kind) PROVE PendingInv'
  BY <1>4, <1>6 DEF UsePage
<1> QED  BY <1>1, <1>2, <1>3, <1>5, <1>6

LEMMA PendingInit == PortalInit => PendingInv
<1> SUFFICES ASSUME PortalInit PROVE PendingInv
  OBVIOUS
<1>1. /\ portal.replacing = 0 /\ portal.deferred = NoLease /\ portal.signingOut = NoLease
      /\ happened = [gestures |-> 0, losses |-> 0, elsewhere |-> 0,
                      dropped |-> FALSE, misled |-> FALSE]
      /\ \A r \in requests : r.kind = "profile"
  BY DEF PortalInit
<1>2. Replacements = {}
  BY <1>1 DEF Replacements, Replaces
<1>3. Counted
  BY <1>1, <1>2, FS_EmptySet DEF Counted
<1> QED  BY <1>1, <1>3, Constants DEF PendingInv, WithinBounds, PutOffForOne, SigningOutIsAwaited, Counts

LEMMA JoinCounts ==
  ASSUME PortalInv, PendingInv, NEW r \in requests, JoinRead(r)
  PROVE  PendingInv'
<1>1. PICK y : requests' = (requests \ {r}) \union {y} /\ y.kind = r.kind /\ r.kind = "read"
  BY JoinIs
<1>2. UNCHANGED <<portal, happened>>
  BY DEF JoinRead
<1>3. Replacements' = Replacements
  BY <1>1 DEF Replacements, Replaces
<1> QED  BY <1>1, <1>2, <1>3
         DEF PendingInv, Counted, WithinBounds, PutOffForOne, SigningOutIsAwaited, EndsSession

LEMMA PendingNext == PortalInv /\ PendingInv /\ [PortalNext]_portalVars => PendingInv'
<1> SUFFICES ASSUME PortalInv, PendingInv, [PortalNext]_portalVars PROVE PendingInv'
  OBVIOUS
<1>1. CASE UNCHANGED portalVars
  BY <1>1 DEF portalVars, PendingInv, Counted, WithinBounds, PutOffForOne, SigningOutIsAwaited,
     Replacements, Replaces, EndsSession
<1>2. CASE \/ AnotherTabSignsIn \/ AnotherTabSignsOut
           \/ \E s \in Sessions : SessionEnds(s)
           \/ \E s \in Sessions, w \in Workspaces \union {Unbound} : BindingMoves(s, w)
  BY <1>2, OthersCount DEF AnotherTabSignsIn, AnotherTabSignsOut, SessionEnds, BindingMoves, Elsewhere
<1>3. CASE PortalNext
  BY <1>2, <1>3, ServeCounts, LoseCounts, ApplyCounts, JoinCounts, GesturesCount DEF PortalNext
<1> QED  BY <1>1, <1>3

LEMMA PendingInvariant == PortalSpec => []PendingInv
BY PendingInit, PendingNext, PortalInvariant, PTL DEF PortalSpec

\* Every state of the portal is well typed: replacements are counted down to zero and
\* no further, and never more of them are awaited than there were gestures.
THEOREM ThePortalIsTyped == PortalSpec => []PortalTypeOK
<1>1. PortalInv /\ PendingInv => PortalTypeOK
  <2> SUFFICES ASSUME PortalInv, PendingInv PROVE PortalTypeOK
    OBVIOUS
  <2>1. portal.replacing \in Nat
    BY FS_CardinalityType DEF PendingInv, Counted
  <2>2. portal.replacing \in 0..MaxEvents
    BY <2>1, Constants DEF PendingInv, WithinBounds, Counts
  <2> QED  BY <2>2, PortalIsGood DEF PortalTypeOK, PortalInv, Typed, Portals, Screens, Known
<1> QED  BY <1>1, PortalInvariant, PendingInvariant, PTL

\* When every answer has been applied, whatever was lost and whatever happened
\* elsewhere, no sign-out is pending and no refusal is put off (conclude,
\* clearForRefusal, replaceSession).
THEOREM NothingStaysPending ==
  PortalSpec => [](requests = {} => portal.signingOut = NoLease /\ portal.deferred = NoLease)
<1>1. PendingInv => (requests = {} => portal.signingOut = NoLease /\ portal.deferred = NoLease)
  <2> SUFFICES ASSUME PendingInv, requests = {}
               PROVE  portal.signingOut = NoLease /\ portal.deferred = NoLease
    OBVIOUS
  <2>1. portal.replacing = 0
    BY FS_EmptySet DEF PendingInv, Counted, Replacements
  <2> QED  BY <2>1 DEF PendingInv, PutOffForOne, SigningOutIsAwaited
<1> QED  BY <1>1, PendingInvariant, PTL

-----------------------------------------------------------------------------
(* What the screen tells while nothing is lost, nothing happens elsewhere, no refusal is
   let go of and no former session's is believed: what is inductive. *)

IsLoad(r) == r.kind \in {"profile", "detail"}
IsCurrent(r) == IsLoad(r) /\ Current(portal, r.lease, r.number)
Mine(r) == Holding(portal, r.lease)

\* Before the first load has settled, it is all there is.
FirstLoad(r) ==
  /\ requests = {r} /\ r.number = 1 /\ r.cookie = cookie /\ r.lease = LeaseOf(portal)
  /\ r.under = [generation |-> 0, session |-> Nobody]
  /\ \/ /\ r.kind = "profile" /\ r.under = r.lease
        /\ \/ r.answer = NoAnswer
           \/ r.answer.is = "unauthenticated" /\ cookie \notin api.live
           \/ /\ r.answer.is = "ok" /\ cookie \in api.live
              /\ r.answer.session = cookie /\ r.answer.workspace = api.bound[cookie]
     \/ /\ r.kind = "detail" /\ portal.session = cookie /\ cookie \in api.live
        /\ r.asked = api.bound[cookie]
        /\ \/ r.answer = NoAnswer
           \/ r.answer.is = "ok" /\ r.answer.workspace = r.asked
Starting ==
  /\ portal.screen = Empty /\ portal.latest = 1 /\ portal.replacing = 0
  /\ portal.deferred = NoLease /\ portal.signingOut = NoLease
  /\ \E r \in requests : FirstLoad(r)

\* What a request may have been answered, and what it speaks for.
Verdict(r) ==
  /\ r.answer.is = "awaited" => r.answer = NoAnswer
  /\ r.answer.is # "lost"
  /\ r.answer.is = "failed" => r.kind \in {"login", "change", "select"}
  /\ r.answer.is = "forbidden" => r.kind \in {"read", "mutation", "change"}
  /\ r.answer.is = "ok" => r.kind \notin {"read", "mutation"}
  /\ r.answer.is = "ok" /\ r.kind \in {"profile", "check"} => r.answer.session = r.cookie
  /\ r.answer.is = "ok" /\ Asker(r) /\ Mine(r) => r.answer.session = portal.session
Shared(r) == r.kind \in {"login", "check"}
Owned(r) ==
  /\ ~Shared(r) => /\ r.lease.session # Nobody /\ r.cookie # Nobody /\ r.under = r.lease
                   /\ r.kind = "read" \/ r.cookie = r.lease.session
                   /\ r.cookie = portal.session => Mine(r)
  /\ IsLoad(r) => r.number <= portal.latest
Proper(r) == Verdict(r) /\ Owned(r)

ShowsNobody(s) == /\ s.status = "anonymous" /\ s.ready /\ ~s.loading /\ ~s.problem
                  /\ s.of = Nobody /\ s.workspace = Unbound
SignedOut == portal.session = Nobody => ShowsNobody(portal.screen) /\ cookie \notin api.live
SignedIn ==
  portal.session # Nobody => portal.screen.status = "authenticated" /\ portal.screen.ready

\* The sign-out that is pending is the only one under the session held.
EndsOnce ==
  \A r \in requests : EndsSession(r) /\ Mine(r) =>
    /\ portal.signingOut = r.lease
    /\ \A s \in requests : EndsSession(s) /\ Mine(s) => s = r

\* What is coming: another session or none, a load's answer, a selection's, a
\* refusal's reconciliation.
Resolves(f) == Brings(f) \/ (f.kind = "logout" /\ f.answer.is = "ok" /\ Pending(f.lease))
Resolution == \E f \in requests : Resolves(f)
LoadComing == \E r \in requests : IsCurrent(r)
Selects(r) == r.kind = "select" /\ r.answer.is = "ok" /\ Mine(r)
SelectComing == \E r \in requests : Selects(r)
CheckComing == \E c \in requests : c.kind = "check" /\ c.number = portal.generation
Reconciles(a) ==
  /\ a.kind = "refusal" /\ Mine(a)
  /\ a.answer.is = "unauthenticated" \/ (a.answer = NoAnswer /\ CheckComing)
RefusalComing ==
  Holding(portal, portal.deferred) \/ \E a \in requests : Reconciles(a)

\* The session held is live: what is shown, and what loads bring, is what it is bound to.
Bound == api.bound[portal.session]
Tells(r) ==
  /\ r.kind = "detail" => r.asked = Bound
  /\ r.answer.is = "ok" => r.answer.workspace = Bound
UpToDate ==
  /\ ~portal.screen.problem
  /\ \A r \in requests : IsCurrent(r) => Tells(r)
  /\ LoadComing \/ portal.screen.workspace = Bound
Alive ==
  /\ portal.session \in api.live
  /\ portal.screen.loading => LoadComing
  /\ SelectComing \/ UpToDate

\* It had ended before it was adopted: whatever is asked under it is refused.
Heard(r) == IF r.kind = "check" THEN r.number = portal.generation
            ELSE r.kind # "login" /\ Mine(r) /\ ~Stranger(r)
Refused(r) == r.answer = NoAnswer \/ r.answer.is = "unauthenticated"
BornDead ==
  /\ portal.session \notin api.live
  /\ \A r \in requests : Heard(r) => Refused(r)
  /\ LoadComing \/ RefusalComing

CookieIsTheSessions == portal.session \in {Nobody, cookie}
General ==
  /\ CookieIsTheSessions
  /\ \A r \in requests : Proper(r)
  /\ portal.deferred = NoLease \/ portal.deferred.session # Nobody
  /\ SignedOut /\ SignedIn /\ EndsOnce
  /\ portal.session # Nobody => Resolution \/ Alive \/ BornDead
TruthInv ==
  Undisturbed => IF portal.screen.status = "loading" THEN Starting ELSE General

-----------------------------------------------------------------------------
LEMMA PortalFacts ==
  ASSUME PortalInv
  PROVE  /\ portal \in Portals /\ portal.generation \in Nat /\ portal.latest \in Nat
         /\ portal.session \in Known /\ cookie \in Known
         /\ \A r \in requests : /\ r \in Awaited /\ r.lease \in Leases /\ r.under \in Leases
                                /\ r.lease.generation \in Int /\ r.lease.session \in Known
                                /\ r.lease.generation <= portal.generation
                                /\ r.number \in Int /\ r.answer \in Answers /\ r.cookie \in Known
         /\ \A lease : Holding(portal, lease) => lease.session = portal.session
                                                 /\ lease.generation = portal.generation
         /\ ~Holding(portal, NoLease)
<1>1. portal \in Portals /\ portal.generation \in Nat /\ portal.latest \in Nat
      /\ portal.session \in Known /\ cookie \in Known
  BY DEF PortalInv, Typed, Portals
<1>2. \A r \in requests : /\ r \in Awaited /\ r.lease \in Leases /\ r.under \in Leases
                          /\ r.lease.generation \in Int /\ r.lease.session \in Known
                          /\ r.lease.generation <= portal.generation
                          /\ r.number \in Int /\ r.answer \in Answers /\ r.cookie \in Known
  BY DEF PortalInv, Typed, LeasesArePast, Awaited, Leases
<1>3. \A lease : Holding(portal, lease) => lease.session = portal.session
                                           /\ lease.generation = portal.generation
  BY DEF Holding, LeaseOf
<1> QED  BY <1>1, <1>2, <1>3, Constants

\* What is heard under the session held was asked with its cookie.
LEMMA HeardIsTheSessions ==
  ASSUME PortalInv, General, portal.session # Nobody, NEW r \in requests
  PROVE  /\ Heard(r) => r.cookie = portal.session
         /\ ~Shared(r) /\ r.cookie = portal.session => Mine(r)
         /\ ~Shared(r) /\ ~Stranger(r) /\ r.cookie = portal.session => Heard(r)
<1>1. portal.session = cookie
  BY DEF General, CookieIsTheSessions
<1>2. Heard(r) => Speaks(r)
  BY DEF Heard, Speaks, Stranger, Mine
<1>3. Speaks(r) => r.cookie = portal.session
  BY <1>1 DEF PortalInv, BelievedIsTrue
<1>4. Proper(r)
  BY DEF General
<1> QED  BY <1>2, <1>3, <1>4 DEF Proper, Owned, Heard, Shared, Stranger

-----------------------------------------------------------------------------
(* The API answers. *)

\* What a request may be answered, and what becomes of the sessions.
Unauthentic(r, v) == r.kind # "login" /\ v.is = "unauthenticated" /\ api' = api
Answered(r, v) ==
  \/ Unauthentic(r, v)
  \/ /\ r.kind \in {"profile", "check"} /\ r.cookie \in api.live /\ api' = api
     /\ v.is = "ok" /\ v.session = r.cookie /\ v.workspace = api.bound[r.cookie]
  \/ /\ r.kind = "detail" /\ r.cookie \in api.live /\ api' = api /\ v.is = "ok"
     /\ v.workspace = IF r.asked = Unbound THEN Unbound ELSE api.bound[r.cookie]
  \/ /\ r.kind \in {"read", "mutation", "change"} /\ r.cookie \in api.live /\ api' = api
     /\ v.is = "forbidden"
  \/ /\ r.kind \in {"login", "change"} /\ v.is = "ok" /\ api'.bound = api.bound
     /\ r.kind = "change" => r.cookie \in api.live
  \/ /\ r.kind \in {"login", "change", "select"} /\ v.is = "failed" /\ api' = api
     /\ r.kind # "login" => r.cookie \in api.live
  \/ /\ r.kind = "logout" /\ v.is = "ok" /\ r.cookie \in api.live
     /\ api'.live = api.live \ {r.cookie} /\ api'.bound = api.bound
  \/ /\ r.kind = "select" /\ v.is = "ok" /\ r.cookie \in api.live /\ api'.live = api.live
     /\ v.workspace = r.asked /\ api'.bound = [api.bound EXCEPT ![r.cookie] = r.asked]

LEMMA ServedIs ==
  ASSUME PortalInv, NEW r \in requests, Serve(r)
  PROVE  /\ r.answer = NoAnswer /\ ~Asker(r) /\ UNCHANGED <<portal, cookie, happened>>
         /\ \A s \in api'.live : s \in api.live \/ s > api.opened
         /\ \E v \in Answers : AnswerOf(r, v) /\ Answered(r, v)
<1> USE NoAnswerIs
<1>1. /\ r.answer = NoAnswer /\ ~Asker(r) /\ UNCHANGED <<portal, cookie, happened>>
      /\ r.cookie \in Known /\ r.asked \in Bindings
  BY PortalFacts DEF Serve, Awaited
<1>2. /\ api \in [opened : Sessions, live : SUBSET Sessions, bound : [Sessions -> Bindings]]
      /\ api.opened \in Nat
  BY Constants DEF PortalInv, Typed
<1>3. ASSUME NEW s \in api.live PROVE s \in Known /\ api.bound[s] \in Bindings
  BY <1>2, <1>3 DEF Known
<1>4. CASE ServeRead(r)
  <2>1. /\ r.cookie \in api.live /\ api' = api /\ api.bound[r.cookie] \in Bindings
    BY <1>3, <1>4 DEF ServeRead
  <2>2. CASE r.kind \in {"profile", "check"}
    <3> DEFINE v == [is |-> "ok", session |-> r.cookie, workspace |-> api.bound[r.cookie]]
    <3>1. v \in Answers /\ AnswerOf(r, v)
      BY <1>1, <1>4, <2>1, <2>2 DEF Answers, ServeRead
    <3> QED  BY <1>1, <2>1, <2>2, <3>1 DEF Answered
  <2>3. CASE r.kind = "detail"
    <3> DEFINE w == IF r.asked = Unbound THEN Unbound ELSE api.bound[r.cookie]
               v == [Says("ok") EXCEPT !.workspace = w]
    <3>1. w \in Bindings
      BY <2>1, Constants
    <3>2. AnswerOf(r, v)
      BY <1>4, <2>3 DEF ServeRead
    <3> HIDE DEF w
    <3>3. v \in Answers /\ v.is = "ok" /\ v.workspace = w
      BY <3>1 DEF Answers
    <3> QED  BY <1>1, <2>1, <2>3, <3>2, <3>3 DEF Answered, w
  <2>4. CASE r.kind \in {"read", "mutation"}
    BY <1>1, <1>4, <2>1, <2>4 DEF ServeRead, Answered
  <2> QED  BY <1>1, <1>4, <2>1, <2>2, <2>3, <2>4 DEF ServeRead
<1>5. ASSUME NEW ended, Opens(r, ended), r.kind \in {"login", "change"},
             r.kind = "change" => r.cookie \in api.live
      PROVE  /\ \A s \in api'.live : s \in api.live \/ s > api.opened
             /\ \E v \in Answers : AnswerOf(r, v) /\ Answered(r, v)
  <2> DEFINE n == api.opened + 1
             v == [Says("ok") EXCEPT !.session = n]
  <2>1. /\ n \in Sessions /\ n > api.opened /\ AnswerOf(r, v)
        /\ api'.live = (api.live \ ended) \union {n} /\ api'.bound = api.bound
    BY <1>2, <1>5 DEF Opens
  <2>2. v \in Answers /\ v.is = "ok"
    BY <2>1 DEF Answers, Known
  <2> QED  BY <1>5, <2>1, <2>2 DEF Answered
<1>6. CASE ServeLogin(r)
  BY <1>1, <1>5, <1>6 DEF ServeLogin, Answered
<1>7. CASE ServeChange(r)
  BY <1>1, <1>5, <1>7 DEF ServeChange, Answered
<1>8. CASE ServeLogout(r)
  BY <1>1, <1>2, <1>8 DEF ServeLogout, Answered
<1>9. CASE ServeSelect(r)
  <2>1. CASE /\ api' = [api EXCEPT !.bound[r.cookie] = r.asked]
             /\ AnswerOf(r, [Says("ok") EXCEPT !.workspace = r.asked])
    <3> DEFINE v == [Says("ok") EXCEPT !.workspace = r.asked]
    <3>1. v \in Answers /\ v.is = "ok" /\ v.workspace = r.asked /\ AnswerOf(r, v)
      BY <1>1, <2>1 DEF Answers
    <3>2. api'.live = api.live /\ api'.bound = [api.bound EXCEPT ![r.cookie] = r.asked]
      BY <1>2, <2>1
    <3> HIDE DEF v
    <3>3. Answered(r, v)
      BY <1>9, <3>1, <3>2 DEF Answered, ServeSelect
    <3>4. \A s \in api'.live : s \in api.live
      BY <3>2
    <3> QED  BY <1>1, <3>1, <3>3, <3>4
  <2>2. CASE UNCHANGED api /\ AnswerOf(r, Says("failed"))
    BY <1>1, <1>9, <2>2 DEF ServeSelect, Answered
  <2> QED  BY <1>9, <2>1, <2>2 DEF ServeSelect
<1>10. CASE ServeRefusal(r)
  BY <1>1, <1>10 DEF ServeRefusal, Answered, Unauthentic, Mutations
<1> QED  BY <1>1, <1>4, <1>6, <1>7, <1>8, <1>9, <1>10 DEF Serve

\* An answer leaves what the screen tells as true as it was.
LEMMA ServeTells ==
  ASSUME PortalInv, General, NEW r \in requests, Serve(r)
  PROVE  General'
<1>1. /\ r.answer = NoAnswer /\ ~Asker(r) /\ portal' = portal /\ cookie' = cookie
      /\ \A s \in api'.live : s \in api.live \/ s > api.opened
  BY ServedIs
<1>2. PICK v \in Answers : AnswerOf(r, v) /\ Answered(r, v)
  BY ServedIs
<1> DEFINE y == [r EXCEPT !.answer = v]
<1>3. /\ y.kind = r.kind /\ y.lease = r.lease /\ y.under = r.under /\ y.number = r.number
      /\ y.cookie = r.cookie /\ y.asked = r.asked /\ y.answer = v
  BY PortalFacts DEF Awaited
<1>4. requests' = (requests \ {r}) \union {y}
  BY <1>2 DEF AnswerOf
<1> HIDE DEF y
<1>5. r.answer.is = "awaited"
  BY <1>1, NoAnswerIs
<1>6. Proper(r)
  BY DEF General
<1>7. Proper(y)
  <2>1. Verdict(y)
    BY <1>1, <1>2, <1>3 DEF Verdict, Answered, Unauthentic, Asker
  <2> QED  BY <1>3, <1>6, <2>1 DEF Proper, Owned, Shared, IsLoad, Mine
<1>8. /\ \A x : Proper(x)' <=> Proper(x)
      /\ \A x : IsCurrent(x)' <=> IsCurrent(x)
      /\ \A x : Mine(x)' <=> Mine(x)
      /\ \A x : Resolves(x)' <=> Resolves(x)
      /\ \A x : Selects(x)' <=> Selects(x)
      /\ \A x : Heard(x)' <=> Heard(x)
  BY <1>1 DEF Proper, Verdict, Owned, Mine, IsCurrent, Resolves, Selects, Heard, Stranger, Pending
<1>9. \A x \in requests' : Proper(x)'
  BY <1>4, <1>7, <1>8 DEF General
<1>10. CookieIsTheSessions' /\ SignedIn'
       /\ (portal.deferred = NoLease \/ portal.deferred.session # Nobody)'
  BY <1>1 DEF General, CookieIsTheSessions, SignedIn
<1>11. SignedOut'
  BY <1>1, Numbers DEF General, SignedOut
<1>12. EndsOnce'
  <2>1. \A x \in requests' : EndsSession(x)' /\ Mine(x)' =>
          \E s \in requests : /\ EndsSession(s) /\ Mine(s) /\ s.lease = x.lease
                             /\ x = IF s = r THEN y ELSE s
    BY <1>3, <1>4, <1>8 DEF EndsSession, Mine
  <2> QED  BY <1>1, <2>1 DEF General, EndsOnce
<1>13. ASSUME portal.session # Nobody PROVE (Resolution \/ Alive \/ BornDead)'
  <2>1. CASE Resolution
    <3>1. PICK f \in requests : Resolves(f)
      BY <2>1 DEF Resolution
    <3>2. f # r
      BY <1>5, <3>1 DEF Resolves, Brings
    <3> QED  BY <1>4, <1>8, <3>1, <3>2 DEF Resolution
  <2>2. LoadComing => LoadComing'
    BY <1>3, <1>4, <1>8 DEF LoadComing, IsCurrent, IsLoad
  <2>3. CASE Alive /\ ~Resolution'
    <3>1. /\ r.kind \in {"login", "change"} => v.is # "ok"
          /\ r.kind = "logout" /\ v.is = "ok" => r.cookie # portal.session
      <4>1. ~Resolves(y)
        BY <1>4, <1>8, <2>3 DEF Resolution
      <4>2. Mine(r) /\ r.kind = "logout" => Pending(r.lease)
        BY DEF General, EndsOnce, EndsSession, Pending, Mine
      <4> QED  BY <1>3, <1>13, <4>1, <4>2, HeardIsTheSessions DEF Resolves, Brings, Shared
    <3>2. portal.session \in api'.live
      BY <1>2, <2>3, <3>1 DEF Answered, Unauthentic, Alive
    <3>3. SelectComing => SelectComing'
      BY <1>3, <1>4, <1>5, <1>8 DEF SelectComing, Selects
    <3>4. ASSUME ~SelectComing' PROVE UpToDate'
      <4>1. ~Selects(y)
        BY <1>4, <1>8, <3>4 DEF SelectComing
      <4>2. r.kind = "select" /\ v.is = "ok" => r.cookie # portal.session
        BY <1>3, <1>13, <4>1, HeardIsTheSessions DEF Selects, Shared, Mine
      <4>3. Bound' = Bound
        <5>1. portal.session \in DOMAIN api.bound
          BY <1>13, PortalFacts DEF PortalInv, Typed, Known
        <5>2. api'.bound = api.bound \/ /\ r.cookie # portal.session
                                        /\ api'.bound = [api.bound EXCEPT ![r.cookie] = r.asked]
          BY <1>2, <4>2 DEF Answered, Unauthentic
        <5>3. api'.bound[portal.session] = api.bound[portal.session]
          BY <5>1, <5>2
        <5> QED  BY <1>1, <5>3 DEF Bound
      <4>4. UpToDate
        BY <2>3, <3>3, <3>4 DEF Alive
      <4>5. ASSUME IsCurrent(y) PROVE Tells(y)'
        <5>1. IsCurrent(r) /\ Tells(r) /\ Heard(r) /\ r.kind \in {"profile", "detail"}
          BY <1>3, <4>4, <4>5 DEF IsCurrent, IsLoad, UpToDate, Heard, Current, Mine, Stranger
        <5>2. r.cookie = portal.session
          BY <1>13, <5>1, HeardIsTheSessions
        <5> QED  BY <1>2, <1>3, <4>3, <5>1, <5>2 DEF Tells, Answered, Unauthentic, Bound
      <4>6. \A x : Tells(x)' <=> Tells(x)
        BY <4>3 DEF Tells
      <4> QED  BY <1>1, <1>4, <1>8, <2>2, <4>3, <4>4, <4>5, <4>6 DEF UpToDate
    <3> QED  BY <1>1, <2>2, <2>3, <3>2, <3>3, <3>4 DEF Alive
  <2>4. CASE BornDead
    <3>1. portal.session \notin api'.live
      BY <1>1, <2>4, Numbers DEF BornDead
    <3>2. ASSUME NEW x \in requests', Heard(x) PROVE Refused(x)
      <4>1. CASE x = y
        <5>1. Heard(r) /\ r.cookie \notin api.live /\ r.kind # "login"
          BY <1>3, <1>13, <2>4, <3>2, <4>1, HeardIsTheSessions
          DEF Heard, BornDead, Mine, Stranger
        <5> QED  BY <1>2, <1>3, <4>1, <5>1 DEF Answered, Unauthentic, Refused
      <4> QED  BY <1>4, <2>4, <3>2, <4>1 DEF BornDead
    <3>3. CheckComing => CheckComing'
      BY <1>1, <1>3, <1>4 DEF CheckComing
    <3>4. \A a : a \in requests /\ Reconciles(a) => a \in requests' /\ Reconciles(a)'
      BY <1>1, <1>4, <1>8, <3>3 DEF Reconciles, Asker
    <3>5. RefusalComing => RefusalComing'
      BY <1>1, <3>4 DEF RefusalComing
    <3>6. \A x : Refused(x)' <=> Refused(x)
      BY DEF Refused
    <3> QED  BY <1>1, <1>8, <2>2, <2>4, <3>1, <3>2, <3>5, <3>6 DEF BornDead
  <2> QED  BY <1>13, <2>1, <2>3, <2>4 DEF General
<1> QED  BY <1>1, <1>9, <1>10, <1>11, <1>12, <1>13 DEF General

-----------------------------------------------------------------------------
(* Answers are settled and requests are sent. *)

JustSent(x) ==
  /\ x.answer = NoAnswer
  /\ ~Shared(x) => /\ x.lease = LeaseOf(portal') /\ x.under = x.lease
                   /\ x.lease.session # Nobody /\ x.cookie = x.lease.session
  /\ IsLoad(x) => x.number <= portal'.latest
Settles(gone, p, more) ==
  /\ gone \subseteq requests /\ portal' = p /\ requests' = (requests \ gone) \union more
  /\ \A x \in more : JustSent(x)
  /\ api' = api
SameLease(p) == p.generation = portal.generation /\ p.session = portal.session

LEMMA SameLeaseIs ==
  ASSUME NEW p, SameLease(p)
  PROVE  LeaseOf(p) = LeaseOf(portal) /\ \A lease : Holding(p, lease) <=> Holding(portal, lease)
BY DEF SameLease, LeaseOf, Holding

\* Requests stay proper, under the same lease or another session's.
LEMMA ProperKeeps ==
  ASSUME PortalInv, General, NEW gone, NEW p, NEW more, Settles(gone, p, more),
         p.latest \in Int, portal.latest <= p.latest,
         \/ SameLease(p)
         \/ /\ p.generation = portal.generation + 1
            /\ \A x \in requests : ~Shared(x) => x.cookie # p.session
  PROVE  \A x \in requests' : Proper(x)'
<1> SUFFICES ASSUME NEW x \in requests' PROVE Proper(x)'
  OBVIOUS
<1>1. portal' = p
  BY DEF Settles
<1>2. CASE x \in requests
  <2>1. Proper(x) /\ x.number \in Int /\ portal.latest \in Int
        /\ x.lease.generation \in Int /\ x.lease.generation <= portal.generation
        /\ portal.generation \in Nat
    BY <1>2, PortalFacts DEF General
  <2>2. CASE SameLease(p)
    <3>1. (Mine(x)' <=> Mine(x)) /\ portal'.session = portal.session
      BY <1>1, <2>2, SameLeaseIs DEF Mine, SameLease
    <3> QED  BY <1>1, <2>1, <3>1 DEF Proper, Verdict, Owned
  <2>3. CASE /\ p.generation = portal.generation + 1
             /\ ~Shared(x) => x.cookie # p.session
    <3>1. ~Mine(x)'
      BY <1>1, <2>1, <2>3 DEF Mine, Holding, LeaseOf
    <3> QED  BY <1>1, <2>1, <2>3, <3>1 DEF Proper, Verdict, Owned
  <2> QED  BY <1>2, <2>2, <2>3
<1>3. CASE JustSent(x)
  <2>1. x.answer.is = "awaited"
    BY <1>3, NoAnswerIs DEF JustSent
  <2>2. ~Shared(x) => Mine(x)'
    BY <1>3 DEF JustSent, Mine, Holding
  <2> QED  BY <1>3, <2>1, <2>2 DEF Proper, Verdict, Owned, JustSent
<1> QED  BY <1>2, <1>3 DEF Settles

LEMMA EndsOnceStays ==
  ASSUME General, NEW gone, NEW p, NEW more, Settles(gone, p, more), SameLease(p),
         p.signingOut = portal.signingOut, \A x \in more : ~EndsSession(x)
  PROVE  EndsOnce' /\ \A f : Resolves(f) <=> Resolves(f)'
<1>1. \A x : Mine(x)' <=> Mine(x)
  BY SameLeaseIs DEF Mine, Settles
<1>2. \A x : EndsSession(x)' <=> EndsSession(x)
  BY DEF EndsSession
<1>3. EndsOnce'
  BY <1>1, <1>2 DEF General, EndsOnce, Settles
<1>4. \A f : Resolves(f) <=> Resolves(f)'
  BY SameLeaseIs DEF Resolves, Pending, Brings, Settles
<1> QED  BY <1>3, <1>4

\* The provider stays as it is under the session held.
LEMMA RestKeeps ==
  ASSUME PortalInv, General, cookie' = cookie, NEW gone, NEW p, NEW more, Settles(gone, p, more),
         SameLease(p), p.screen = portal.screen, p.latest = portal.latest,
         p.deferred = NoLease \/ p.deferred.session # Nobody,
         EndsOnce', \A f \in requests : Resolves(f) => f \notin gone /\ Resolves(f)',
         \A g \in gone : ~Selects(g) /\ g.kind # "check",
         UpToDate /\ ~SelectComing => \A x \in more : x.kind = "detail" => x.asked = Bound,
         portal.session \in api.live /\ (\E g \in gone : IsCurrent(g)) => LoadComing',
         portal.session # Nobody /\ portal.session \notin api.live =>
           /\ (\E g \in gone : IsCurrent(g)) => LoadComing' \/ RefusalComing'
           /\ Holding(portal, portal.deferred) \/ (\E g \in gone : Reconciles(g)) => RefusalComing'
  PROVE  General'
<1>1. portal' = p /\ api' = api /\ requests' = (requests \ gone) \union more
      /\ portal'.session = portal.session /\ portal'.generation = portal.generation
  BY DEF Settles, SameLease
<1>2. \A x \in requests' : Proper(x)'
  BY PortalFacts, ProperKeeps
<1>3. CookieIsTheSessions' /\ SignedOut' /\ SignedIn'
      /\ (portal.deferred = NoLease \/ portal.deferred.session # Nobody)'
  BY <1>1 DEF General, CookieIsTheSessions, SignedOut, SignedIn
<1>4. \A x : /\ Mine(x)' <=> Mine(x)
             /\ IsCurrent(x)' <=> IsCurrent(x)
             /\ Selects(x)' <=> Selects(x)
             /\ Heard(x)' <=> Heard(x)
             /\ Refused(x)' <=> Refused(x)
             /\ Tells(x)' <=> Tells(x)
  BY <1>1, SameLeaseIs
  DEF Mine, IsCurrent, Current, Selects, Heard, Stranger, Refused, Tells, Bound, IsLoad
<1>5. Bound' = Bound
  BY <1>1 DEF Bound
<1>6. \A x \in more : JustSent(x) /\ x.answer = NoAnswer /\ x.answer.is = "awaited"
  BY NoAnswerIs DEF Settles, JustSent
<1>7. ASSUME portal.session # Nobody PROVE (Resolution \/ Alive \/ BornDead)'
  <2>1. CASE Resolution
    BY <1>1, <2>1 DEF Resolution
  <2>2. LoadComing => LoadComing' \/ \E g \in gone : IsCurrent(g)
    BY <1>1, <1>4 DEF LoadComing
  <2>3. CASE Alive
    <3>1. LoadComing => LoadComing'
      BY <2>2, <2>3 DEF Alive
    <3>2. SelectComing => SelectComing'
      BY <1>1, <1>4 DEF SelectComing
    <3>3. ASSUME UpToDate, ~SelectComing PROVE UpToDate'
      <4>1. \A x \in more : IsCurrent(x) => Tells(x)
        BY <1>6, <3>3 DEF Tells, IsCurrent, IsLoad
      <4>2. \A x \in requests' : IsCurrent(x)' => Tells(x)'
        BY <1>1, <1>4, <3>3, <4>1 DEF UpToDate
      <4> QED  BY <1>1, <1>5, <3>1, <3>3, <4>2 DEF UpToDate
    <3> QED  BY <1>1, <2>3, <3>1, <3>2, <3>3 DEF Alive
  <2>4. CASE BornDead
    <3>1. \A x \in requests' : Heard(x)' => Refused(x)'
      BY <1>1, <1>4, <1>6, <2>4 DEF BornDead, Refused
    <3>2. CheckComing => CheckComing'
      BY <1>1 DEF CheckComing
    <3>3. \A a \in requests : Reconciles(a) => a \in gone \/ (a \in requests' /\ Reconciles(a)')
      BY <1>1, <1>4, <3>2 DEF Reconciles
    <3>4. RefusalComing => RefusalComing'
      BY <1>7, <2>4, <3>3 DEF RefusalComing, BornDead
    <3> QED  BY <1>1, <1>7, <2>2, <2>4, <3>1, <3>4 DEF BornDead
  <2> QED  BY <1>7, <2>1, <2>3, <2>4 DEF General
<1> QED  BY <1>1, <1>2, <1>3, <1>7 DEF General

\* The one load there is has just begun: whatever it brings will be up to date, or
\* refused.
LEMMA JustBegun ==
  ASSUME NEW x \in requests', x.kind = "profile", IsCurrent(x)', ~portal'.screen.problem,
         \A y \in requests' : IsCurrent(y)' => y.kind = "profile" /\ y.answer = NoAnswer,
         portal'.session \notin api'.live => \A y \in requests' : Heard(y)' => Refused(y)'
  PROVE  (Alive \/ BornDead)'
<1>1. LoadComing'
  BY DEF LoadComing
<1>2. \A y \in requests' : IsCurrent(y)' => Tells(y)'
  BY NoAnswerIs DEF Tells
<1> QED  BY <1>1, <1>2 DEF Alive, BornDead, UpToDate

\* A load begins under the session held.
LEMMA BeginKeeps ==
  ASSUME PortalInv, General, cookie' = cookie, NEW gone, NEW p, NEW more, Settles(gone, p, more),
         SameLease(p), portal.session # Nobody, p.latest \in Int, portal.latest < p.latest,
         p.screen.status = "authenticated" /\ p.screen.ready /\ ~p.screen.problem,
         p.deferred = NoLease \/ p.deferred.session # Nobody,
         EndsOnce', \A f \in requests : Resolves(f) => f \notin gone /\ Resolves(f)',
         \A x \in more : IsLoad(x) => x.kind = "profile",
         \E x \in more : x.kind = "profile" /\ x.number = p.latest
  PROVE  General'
<1>1. portal' = p /\ api' = api /\ requests' = (requests \ gone) \union more
      /\ portal'.session = portal.session /\ portal'.generation = portal.generation
  BY DEF Settles, SameLease
<1>2. \A x \in requests' : Proper(x)'
  BY PortalFacts, ProperKeeps
<1>3. CookieIsTheSessions' /\ SignedOut' /\ SignedIn'
      /\ (portal.deferred = NoLease \/ portal.deferred.session # Nobody)'
  BY <1>1 DEF General, CookieIsTheSessions, SignedOut, SignedIn
<1>4. \A y \in more : JustSent(y)
  BY DEF Settles
<1>5. \A y \in requests : IsLoad(y) => y.number \in Int /\ y.number < p.latest
  BY PortalFacts DEF General, Proper, Owned
<1>6. \A y \in requests' : IsCurrent(y)' => y.kind = "profile" /\ y.answer = NoAnswer
  BY <1>1, <1>4, <1>5 DEF IsCurrent, Current, JustSent, IsLoad
<1>7. PICK x \in more : x.kind = "profile" /\ x.number = p.latest
  OBVIOUS
<1>8. IsCurrent(x)'
  BY <1>1, <1>4, <1>7 DEF IsCurrent, Current, JustSent, IsLoad, Shared, Holding
<1>9. (Resolution \/ Alive \/ BornDead)'
  <2>1. CASE Resolution
    BY <1>1, <2>1 DEF Resolution
  <2>2. CASE ~Resolution
    <3>1. portal'.session \notin api'.live => BornDead
      BY <1>1, <2>2 DEF General, Alive
    <3>2. \A y : (Heard(y)' <=> Heard(y)) /\ (Refused(y)' <=> Refused(y))
      BY <1>1, SameLeaseIs DEF Heard, Refused, Mine, Stranger
    <3>3. portal'.session \notin api'.live => \A y \in requests' : Heard(y)' => Refused(y)'
      BY <1>1, <1>4, <3>1, <3>2 DEF BornDead, Refused, JustSent
    <3> QED  BY <1>1, <1>6, <1>7, <1>8, <3>3, JustBegun
  <2> QED  BY <2>1, <2>2
<1> QED  BY <1>1, <1>2, <1>3, <1>9 DEF General

\* What a turn begins: the profile read of a load that was not in flight.
LEMMA NothingBegun ==
  ASSUME NEW p, p.latest = portal.latest \/ p.inFlight = NoLease
  PROVE  Begun(p) = {}
BY DEF Begun

LEMMA LoadBegins ==
  ASSUME PortalInv, cookie' \in Known, NEW q \in Portals, portal.latest <= q.latest,
         NEW lease \in Leases, Holding(q, lease), ~Holding(q, q.inFlight), lease.session # Nobody
  PROVE  /\ Load(q, lease).generation = q.generation /\ Load(q, lease).session = q.session
         /\ Load(q, lease).latest = q.latest + 1 /\ portal.latest < Load(q, lease).latest
         /\ Load(q, lease).deferred = q.deferred /\ Load(q, lease).signingOut = q.signingOut
         /\ Load(q, lease).screen.status = q.screen.status
         /\ Load(q, lease).screen.ready = q.screen.ready /\ ~Load(q, lease).screen.problem
         /\ Begun(Load(q, lease)) = {Request("profile", lease, q.latest + 1)}
         /\ Request("profile", lease, q.latest + 1).kind = "profile"
         /\ Request("profile", lease, q.latest + 1).number = q.latest + 1
<1>1. q.latest \in Nat /\ portal.latest \in Nat /\ q.screen \in Screens /\ lease # NoLease
  BY PortalFacts, Constants DEF Portals
<1> DEFINE n == q.latest + 1
           screen == [q.screen EXCEPT !.loading = TRUE, !.problem = FALSE]
           p == [q EXCEPT !.latest = n, !.inFlight = lease, !.screen = screen]
<1>2. Load(q, lease) = p
  BY <1>1 DEF Load, Portals
<1>3. screen.status = q.screen.status /\ screen.ready = q.screen.ready /\ ~screen.problem
  BY <1>1 DEF Screens
<1>4. n \in Int /\ n = q.latest + 1 /\ portal.latest < n
  BY <1>1
<1> HIDE DEF screen, n
<1>5. /\ p.generation = q.generation /\ p.session = q.session /\ p.latest = n
      /\ p.inFlight = lease /\ p.deferred = q.deferred /\ p.signingOut = q.signingOut
      /\ p.screen = screen
  BY DEF Portals
<1> HIDE DEF p
<1>6. Begun(p) = {Request("profile", lease, n)}
  BY <1>1, <1>4, <1>5 DEF Begun
<1>7. Request("profile", lease, n).kind = "profile" /\ Request("profile", lease, n).number = n
  BY <1>4, RequestIs DEF Reads
<1> QED  BY <1>2, <1>3, <1>4, <1>5, <1>6, <1>7

\* What is sent under the session held.
LEMMA JustSentIs ==
  ASSUME PortalInv', portal'.session # Nobody, cookie' = portal'.session,
         NEW kind \in Reads \union Askers \union Mutations \union {"login"}, NEW number \in Int,
         kind \in {"profile", "detail"} => number <= portal'.latest
  PROVE  JustSent(Request(kind, LeaseOf(portal'), number))
<1>1. LeaseOf(portal') \in Leases /\ cookie' \in Known /\ LeaseOf(portal').session = portal'.session
  BY LeaseIs DEF PortalInv, Typed
<1> QED  BY <1>1, RequestIs DEF JustSent, IsLoad

\* The session is forgotten: nothing that is awaited speaks for the portal any more.
ForgetsTo(p) ==
  /\ p.session = Nobody /\ p.generation = portal.generation + 1 /\ p.inFlight = NoLease
  /\ p.latest \in Int /\ portal.latest <= p.latest
  /\ ShowsNobody(p.screen)
LEMMA ForgetKeepsTruth ==
  ASSUME PortalInv, General, NEW r \in requests, api' = api, NEW p, Turn(p, r, {}), ForgetsTo(p),
         p.deferred = NoLease \/ p.deferred.session # Nobody,
         cookie' \notin api.live
  PROVE  General'
<1>1. portal' = p /\ requests' = requests \ {r} /\ Settles({r}, p, {})
  BY NothingBegun DEF Turn, Settles, ForgetsTo
<1>2. \A x \in requests' : Proper(x)'
  BY <1>1, ProperKeeps DEF General, Proper, Owned, ForgetsTo
<1>3. \A x \in requests : ~Mine(x)'
  BY <1>1, PortalFacts DEF Mine, Holding, LeaseOf, ForgetsTo
<1> QED  BY <1>1, <1>2, <1>3 DEF General, CookieIsTheSessions, SignedOut, SignedIn, EndsOnce, ForgetsTo

LEMMA AdoptBecomes ==
  ASSUME NEW p, Good(p), NEW session \in Known, NEW keep \in BOOLEAN
  PROVE  LET q == Adopt(p, session, keep) IN
         /\ q \in Portals /\ q.generation = p.generation + 1 /\ q.session = session
         /\ q.latest = p.latest + 1 /\ p.latest \in Nat /\ q.inFlight = NoLease
         /\ q.deferred = p.deferred /\ q.signingOut = NoLease /\ q.replacing = p.replacing
         /\ q.screen.status = IF session = Nobody THEN "anonymous" ELSE "authenticated"
         /\ q.screen.ready /\ ~q.screen.problem
         /\ session = Nobody /\ ~keep => ShowsNobody(q.screen)
<1> DEFINE before == IF keep /\ p.screen.status = "authenticated" THEN p.screen ELSE Empty
           screen == [before EXCEPT
                        !.status = IF session = Nobody THEN "anonymous" ELSE "authenticated",
                        !.ready = TRUE, !.loading = session # Nobody, !.problem = FALSE]
           q == Adopt(p, session, keep)
           g == p.generation + 1
           l == p.latest + 1
<1>1. p \in Portals /\ p.screen \in Screens /\ p.latest \in Nat
  BY DEF Good, Portals
<1>2. /\ screen.status = IF session = Nobody THEN "anonymous" ELSE "authenticated"
      /\ screen.ready /\ ~screen.problem
  <2>1. before \in Screens
    BY <1>1, Constants
  <2> HIDE DEF before
  <2> QED  BY <2>1 DEF Screens
<1>3. session = Nobody /\ ~keep => ShowsNobody(screen)
  BY Constants DEF Empty, Screens, ShowsNobody
<1>4. q = [[p EXCEPT !.latest = l, !.inFlight = NoLease] EXCEPT
             !.generation = g, !.session = session, !.signingOut = NoLease, !.screen = screen]
  BY <1>1 DEF Adopt, InvalidateLoads, Portals
<1>5. Good(q)
  BY AdoptIs
<1> HIDE DEF screen, g, l, q
<1>6. /\ q.generation = g /\ q.session = session /\ q.latest = l /\ q.inFlight = NoLease
      /\ q.deferred = p.deferred /\ q.signingOut = NoLease /\ q.replacing = p.replacing
      /\ q.screen = screen
  BY <1>1, <1>4 DEF Portals
<1> QED  BY <1>1, <1>2, <1>3, <1>5, <1>6 DEF g, l, q, Good

LEMMA ForgetIsSo ==
  ASSUME NEW p, Good(p), p.generation = portal.generation, p.latest = portal.latest
  PROVE  /\ ForgetsTo(Forget(p)) /\ Forget(p).deferred = p.deferred
         /\ Forget(p).latest = p.latest + 1
<1> DEFINE q == Adopt(p, Nobody, FALSE)
<1> HIDE DEF q
<1>1. /\ q.generation = p.generation + 1 /\ q.session = Nobody /\ q.latest = p.latest + 1
      /\ p.latest \in Nat /\ q.inFlight = NoLease /\ q.deferred = p.deferred
      /\ ShowsNobody(q.screen)
  <2>1. \A keep \in BOOLEAN :
          LET a == Adopt(p, Nobody, keep) IN
          /\ a.generation = p.generation + 1 /\ a.session = Nobody /\ a.latest = p.latest + 1
          /\ p.latest \in Nat /\ a.inFlight = NoLease /\ a.deferred = p.deferred
          /\ ~keep => ShowsNobody(a.screen)
    BY AdoptBecomes, Constants
  <2> QED  BY <2>1 DEF q
<1>2. Forget(p) = q
  BY DEF Forget, q
<1> QED  BY <1>1, <1>2 DEF ForgetsTo

\* Something is settled that told nothing the provider still waits for.
LEMMA GoneKeeps ==
  ASSUME PortalInv, General, NEW r \in requests, cookie' = cookie, api' = api,
         NEW p, Turn(p, r, {}), SameLease(p), p.screen = portal.screen,
         p.latest = portal.latest, p.deferred = portal.deferred, p.signingOut = portal.signingOut,
         r.kind # "check", ~Resolves(r), ~Selects(r), ~IsCurrent(r),
         portal.session # Nobody /\ portal.session \notin api.live => ~Reconciles(r)
  PROVE  General'
<1>1. portal' = p /\ Settles({r}, p, {})
  BY NothingBegun DEF Turn, Settles
<1>2. EndsOnce' /\ \A f \in requests : Resolves(f) => f \notin {r} /\ Resolves(f)'
  BY <1>1, EndsOnceStays
<1>3. Holding(portal, portal.deferred) => RefusalComing'
  BY <1>1, SameLeaseIs DEF RefusalComing
<1> QED  BY <1>1, <1>2, <1>3, RestKeeps DEF General

\* A refusal is put off, for a replacement is in flight.
LEMMA PutOffKeeps ==
  ASSUME PortalInv, General, NEW r \in requests, cookie' = cookie, api' = api,
         NEW p, Turn(p, r, {}), SameLease(p), p.screen = portal.screen,
         p.latest = portal.latest, p.deferred = r.lease, p.signingOut = portal.signingOut,
         Mine(r), portal.session \in api.live => ~IsCurrent(r), ~Shared(r), ~Resolves(r),
         ~Selects(r)
  PROVE  General'
<1>1. portal' = p /\ Settles({r}, p, {})
  BY NothingBegun DEF Turn, Settles
<1>2. EndsOnce' /\ \A f \in requests : Resolves(f) => f \notin {r} /\ Resolves(f)'
  BY <1>1, EndsOnceStays
<1>3. RefusalComing'
  BY <1>1, SameLeaseIs DEF RefusalComing, Mine
<1>4. r.lease.session # Nobody /\ r.kind # "check"
  BY DEF General, Proper, Owned, Shared
<1> QED  BY <1>1, <1>2, <1>3, <1>4, RestKeeps

\* A refusal of a session that has ended is believed, or put off; a former session's may
\* be put off.
LEMMA ClearTells ==
  ASSUME PortalInv, General, NEW r \in requests, cookie' = cookie, api' = api,
         r.kind \in {"profile", "detail", "read", "refusal"}, r.answer.is = "unauthenticated",
         NEW n, Turn(Finished(ClearForRefusal(portal, r.lease), n), r, {}) \/
                Turn(ClearForRefusal(portal, r.lease), r, {}),
         IsLoad(r) => Mine(r), ~Misleads(r)
  PROVE  General'
<1> DEFINE q == ClearForRefusal(portal, r.lease)
<1>1. Good(portal) /\ Good(q) /\ r \in Awaited /\ portal \in Portals
  BY PortalIsGood, PortalFacts, ClearIs
<1>2. PICK p : /\ Turn(p, r, {}) /\ p.generation = q.generation /\ p.session = q.session
               /\ p.screen = q.screen /\ p.latest = q.latest /\ p.deferred = q.deferred
               /\ p.signingOut = q.signingOut /\ p.inFlight \in {q.inFlight, NoLease}
  <2>1. \A m : LET p == Finished(q, m) IN
               /\ p.generation = q.generation /\ p.session = q.session
               /\ p.screen = q.screen /\ p.latest = q.latest /\ p.deferred = q.deferred
               /\ p.signingOut = q.signingOut /\ p.inFlight \in {q.inFlight, NoLease}
    BY <1>1 DEF Finished, Good, Portals
  <2> QED  BY <2>1
<1>3. ~Shared(r) /\ ~Resolves(r) /\ ~Selects(r) /\ r.kind # "check"
  BY DEF Shared, Resolves, Selects, Brings
<1>4. CASE ~Mine(r)
  <2>1. q = portal
    BY <1>4 DEF ClearForRefusal, Mine
  <2> HIDE DEF q
  <2>2. ~IsCurrent(r) /\ ~Reconciles(r)
    BY <1>4 DEF IsCurrent, Current, Reconciles, Mine
  <2> QED  BY <1>2, <1>3, <2>1, <2>2, GoneKeeps DEF SameLease
<1>5. ASSUME Mine(r), ~Stranger(r)
      PROVE  portal.session # Nobody /\ portal.session = cookie /\ cookie \notin api.live
  <2>1. portal.session # Nobody
    BY <1>3, <1>5, PortalFacts DEF General, Proper, Owned, Mine
  <2>2. portal.session = cookie
    BY <2>1 DEF General, CookieIsTheSessions
  <2>3. Gone
    BY <1>5, <2>1, RefusalsAreBelieved DEF Mine, Reads, Asker
  <2> QED  BY <2>1, <2>2, <2>3 DEF Gone
<1>6. CASE Mine(r) /\ portal.replacing > 0
  <2>1. q = [portal EXCEPT !.deferred = r.lease]
    BY <1>6 DEF ClearForRefusal, Mine
  <2>2. /\ q.generation = portal.generation /\ q.session = portal.session
        /\ q.screen = portal.screen /\ q.latest = portal.latest /\ q.deferred = r.lease
        /\ q.signingOut = portal.signingOut
    BY <1>1, <2>1 DEF Portals
  <2> HIDE DEF q
  <2>3. Stranger(r) => ~IsCurrent(r)
    BY DEF Stranger, IsCurrent, IsLoad
  <2> QED  BY <1>2, <1>3, <1>5, <1>6, <2>2, <2>3, PutOffKeeps DEF SameLease
<1>7. CASE Mine(r) /\ ~(portal.replacing > 0)
  <2>1. q = Forget(portal)
    BY <1>1, <1>7 DEF ClearForRefusal, Mine, Portals
  <2>2. ForgetsTo(q) /\ q.deferred = portal.deferred
    BY <1>1, <2>1, ForgetIsSo
  <2> HIDE DEF q
  <2>3. ForgetsTo(p) /\ p.deferred = portal.deferred
    BY <1>2, <2>2 DEF ForgetsTo
  <2>4. portal'.session = Nobody
    BY <1>2, <2>3 DEF Turn, ForgetsTo
  <2>5. portal.session # Nobody
    BY <1>3, <1>7, PortalFacts DEF General, Proper, Owned, Mine
  <2>6. ~Stranger(r)
    BY <1>7, <2>4, <2>5 DEF Misleads, Deceives, Mine
  <2> QED  BY <1>2, <1>5, <1>7, <2>3, <2>6, ForgetKeepsTruth DEF General
<1> QED  BY <1>4, <1>6, <1>7

-----------------------------------------------------------------------------
(* The handlers. *)

LEMMA FinishedShows ==
  ASSUME NEW p \in Portals, NEW n
  PROVE  LET q == Finished(p, n) IN
         /\ q.generation = p.generation /\ q.session = p.session /\ q.screen = p.screen
         /\ q.latest = p.latest /\ q.deferred = p.deferred /\ q.signingOut = p.signingOut
BY DEF Finished, Portals

\* An answer that is being applied.
LEMMA AppliedTells ==
  ASSUME PortalInv, General, NEW r \in requests, r.answer # NoAnswer, cookie' = SetCookie(r)
  PROVE  /\ Proper(r) /\ r.answer.is # "awaited" /\ r \in Awaited
         /\ r.kind \notin {"login", "change", "logout"} => cookie' = cookie
         /\ r.answer.is # "ok" => cookie' = cookie
         /\ ~Shared(r) => r.under = r.lease
         /\ ~Shared(r) /\ Mine(r) =>
              /\ portal.session # Nobody /\ portal.session = cookie /\ r.lease = LeaseOf(portal)
         /\ Refused(r) => r.answer.is = "unauthenticated"
<1>1. Proper(r) /\ r \in Awaited
  BY PortalFacts DEF General
<1>2. ~Shared(r) /\ Mine(r) =>
        /\ portal.session # Nobody /\ portal.session = cookie /\ r.lease = LeaseOf(portal)
  BY <1>1, PortalFacts DEF Proper, Owned, General, CookieIsTheSessions, Mine, Holding
<1> QED  BY <1>1, <1>2, AppliedIs DEF Proper, Verdict, Owned, Refused

LEMMA StaleTells ==
  ASSUME PortalInv, General, NEW r \in requests, r.answer # NoAnswer, cookie' = SetCookie(r),
         api' = api, IsLoad(r), ~IsCurrent(r), Turn(Finished(portal, r.number), r, {})
  PROVE  General'
<1>1. cookie' = cookie
  BY AppliedTells DEF IsLoad
<1>2. r.kind # "check" /\ ~Resolves(r) /\ ~Selects(r) /\ ~Reconciles(r)
  BY DEF IsLoad, Resolves, Selects, Reconciles, Brings
<1> QED  BY <1>1, <1>2, PortalFacts, FinishedShows, GoneKeeps DEF SameLease

LEMMA LoadFailedTells ==
  ASSUME PortalInv, General, NEW r \in requests, r.answer # NoAnswer, cookie' = SetCookie(r),
         api' = api, IsLoad(r), r.answer.is # "ok", LoadFailed(r)
  PROVE  General'
<1>1. /\ cookie' = cookie /\ r.under = r.lease /\ r.answer.is = "unauthenticated"
      /\ r.kind \in {"profile", "detail"}
  BY AppliedTells DEF IsLoad, Shared, Proper, Verdict, Awaited, Answers
<1>2. CASE ~IsCurrent(r)
  BY <1>1, <1>2, StaleTells DEF LoadFailed, FailLoad, IsCurrent
<1>3. CASE IsCurrent(r)
  BY <1>1, <1>3, ClearTells
  DEF LoadFailed, FailLoad, IsCurrent, Current, Mine, Misleads, Deceives, Stranger
<1> QED  BY <1>2, <1>3

LEMMA ProfileTells ==
  ASSUME PortalInv, PortalInv', General, NEW r \in requests, r.answer # NoAnswer,
         cookie' = SetCookie(r), api' = api, ProfileAnswered(r)
  PROVE  General'
<1>1. r.kind = "profile" /\ IsLoad(r) /\ ~Shared(r) /\ cookie' = cookie
  BY AppliedTells DEF ProfileAnswered, IsLoad, Shared
<1>2. CASE r.answer.is # "ok"
  BY <1>1, <1>2, LoadFailedTells DEF ProfileAnswered
<1>3. CASE r.answer.is = "ok" /\ ~IsCurrent(r)
  BY <1>1, <1>3, StaleTells DEF ProfileAnswered, IsCurrent
<1>4. CASE r.answer.is = "ok" /\ IsCurrent(r)
  <2>1. /\ portal.session # Nobody /\ portal.session = cookie /\ r.lease = LeaseOf(portal)
        /\ r.under = r.lease /\ r.answer.session = r.lease.session /\ r.number \in Int
        /\ r.answer.workspace \in Bindings
    BY <1>1, <1>4, AppliedTells, PortalFacts DEF IsCurrent, Current, Mine, Proper, Verdict, Owned, Answers
  <2> DEFINE d == [Request("detail", r.lease, r.number) EXCEPT
                     !.under = r.under, !.attempt = r.attempt, !.asked = r.answer.workspace]
  <2>2. Turn(portal, r, {d})
    BY <1>1, <1>4, <2>1 DEF ProfileAnswered, Identify, IsCurrent, DetailOf
  <2>3. portal' = portal /\ requests' = (requests \ {r}) \union {d}
    BY <2>2, NothingBegun DEF Turn
  <2>4. /\ d.kind = "detail" /\ d.lease = r.lease /\ d.under = r.lease /\ d.number = r.number
        /\ d.cookie = cookie' /\ d.answer = NoAnswer /\ d.asked = r.answer.workspace
    BY <2>1 DEF Request
  <2> HIDE DEF d
  <2>5. JustSent(d) /\ IsCurrent(d) /\ ~EndsSession(d)
    BY <1>1, <1>4, <2>1, <2>3, <2>4, PortalFacts, AppliedTells
    DEF JustSent, IsCurrent, IsLoad, Current, Shared, EndsSession, Proper, Owned
  <2>6. Settles({r}, portal, {d}) /\ SameLease(portal)
    BY <2>3, <2>5 DEF Settles, SameLease
  <2>7. EndsOnce' /\ \A f \in requests : Resolves(f) => f \notin {r} /\ Resolves(f)'
    BY <1>1, <2>5, <2>6, EndsOnceStays DEF Resolves, Brings
  <2>8. LoadComing'
    BY <2>3, <2>5 DEF LoadComing, IsCurrent, IsLoad
  <2>9. UpToDate => d.asked = Bound
    BY <1>1, <1>4, <2>4 DEF UpToDate, Tells
  <2>10. ~Selects(r) /\ ~Reconciles(r) /\ r.kind # "check"
    BY <1>1 DEF Selects, Reconciles
  <2>11. Holding(portal, portal.deferred) => RefusalComing'
    BY <2>3 DEF RefusalComing
  <2> QED  BY <1>1, <2>6, <2>7, <2>8, <2>9, <2>10, <2>11, RestKeeps DEF General
<1> QED  BY <1>2, <1>3, <1>4

\* A pass of the load ends: with what it found, or with what it could not make agree.
LEMMA PassEndsKeeps ==
  ASSUME PortalInv, General, NEW r \in requests, r.answer # NoAnswer, cookie' = cookie,
         api' = api, r.kind = "detail", r.answer.is = "ok", IsCurrent(r),
         NEW p, Turn(p, r, {}), SameLease(p), p.latest = portal.latest,
         p.deferred = portal.deferred, p.signingOut = portal.signingOut,
         p.screen.status = "authenticated", p.screen.ready, ~p.screen.loading,
         UpToDate => ~p.screen.problem /\ p.screen.workspace = Bound
  PROVE  General'
<1>1. portal' = p /\ Settles({r}, p, {}) /\ requests' = requests \ {r}
  BY NothingBegun DEF Turn, Settles
<1>2. EndsOnce' /\ \A f \in requests : Resolves(f) => f \notin {r} /\ Resolves(f)'
  BY <1>1, EndsOnceStays DEF Resolves, Brings
<1>3. portal.session # Nobody /\ portal'.session = portal.session /\ Heard(r) /\ ~Refused(r)
  BY <1>1, PortalFacts DEF General, Proper, Owned, Shared, IsCurrent, Current, SameLease, Heard,
     Mine, Refused, Stranger
<1>4. \A x \in requests' : Proper(x)'
  BY <1>1, PortalFacts, ProperKeeps
<1>5. CookieIsTheSessions' /\ SignedOut' /\ SignedIn'
      /\ (portal.deferred = NoLease \/ portal.deferred.session # Nobody)'
  BY <1>1, <1>3 DEF General, CookieIsTheSessions, SignedOut, SignedIn
<1>6. \A x : /\ Selects(x)' <=> Selects(x)
             /\ IsCurrent(x)' <=> IsCurrent(x)
             /\ Tells(x)' <=> Tells(x)
  BY <1>1, <1>3, SameLeaseIs DEF Mine, IsCurrent, Current, Selects, Tells, Bound, IsLoad
<1>7. (Resolution \/ Alive \/ BornDead)'
  <2>1. CASE Resolution
    BY <1>1, <1>2, <2>1 DEF Resolution
  <2>2. CASE Alive
    <3>1. SelectComing => SelectComing'
      BY <1>1, <1>6 DEF SelectComing, Selects
    <3>2. UpToDate => UpToDate'
      BY <1>1, <1>3, <1>6 DEF UpToDate, Bound
    <3> QED  BY <1>1, <1>3, <2>2, <3>1, <3>2 DEF Alive
  <2> QED  BY <1>3, <2>1, <2>2 DEF General, BornDead
<1> QED  BY <1>1, <1>2, <1>4, <1>5, <1>7 DEF General

LEMMA DetailTells ==
  ASSUME PortalInv, PortalInv', General, NEW r \in requests, r.answer # NoAnswer,
         cookie' = SetCookie(r), api' = api, DetailAnswered(r)
  PROVE  General'
<1>1. r.kind = "detail" /\ IsLoad(r) /\ ~Shared(r) /\ cookie' = cookie
  BY AppliedTells DEF DetailAnswered, IsLoad, Shared
<1>2. CASE r.answer.is # "ok"
  BY <1>1, <1>2, LoadFailedTells DEF DetailAnswered
<1>3. CASE r.answer.is = "ok" /\ ~IsCurrent(r)
  BY <1>1, <1>3, StaleTells DEF DetailAnswered, IsCurrent
<1>4. CASE r.answer.is = "ok" /\ IsCurrent(r)
  <2>1. /\ portal.session # Nobody /\ portal.session = cookie /\ r.lease = LeaseOf(portal)
        /\ r.lease.session = portal.session /\ r.number \in Int /\ portal.latest = r.number
        /\ portal \in Portals /\ portal.screen \in Screens
        /\ portal.screen.status = "authenticated" /\ portal.screen.ready
    BY <1>1, <1>4, AppliedTells, PortalFacts, LeaseIs
    DEF IsCurrent, Current, Mine, General, SignedIn, Portals
  <2>2. UpToDate => r.asked = Bound /\ r.answer.workspace = Bound
    BY <1>1, <1>4 DEF UpToDate, Tells
  <2>3. CASE Coherent(r)
    <3> DEFINE q == Publish(portal, r)
    <3>1. /\ q \in Portals /\ q.generation = portal.generation /\ q.session = portal.session
          /\ q.latest = portal.latest /\ q.deferred = portal.deferred
          /\ q.signingOut = portal.signingOut
          /\ q.screen.status = "authenticated" /\ q.screen.ready /\ ~q.screen.loading
          /\ ~q.screen.problem /\ q.screen.workspace = r.answer.workspace
      <4> DEFINE s == [status |-> "authenticated", ready |-> TRUE, of |-> r.lease.session,
                       names |-> r.asked, workspace |-> r.answer.workspace,
                       loading |-> FALSE, problem |-> FALSE]
      <4>1. s \in Screens
        BY PortalFacts DEF Screens, Awaited, Answers, Leases
      <4>2. /\ s.status = "authenticated" /\ s.ready /\ ~s.loading /\ ~s.problem
            /\ s.workspace = r.answer.workspace
        OBVIOUS
      <4>3. q = [portal EXCEPT !.screen = s]
        BY DEF Publish
      <4> HIDE DEF s, q
      <4> QED  BY <2>1, <4>1, <4>2, <4>3 DEF Portals
    <3>2. Turn(Finished(q, r.number), r, {})
      BY <1>1, <1>4, <2>3 DEF DetailAnswered, IsCurrent
    <3> HIDE DEF q
    <3> DEFINE p == Finished(q, r.number)
    <3>3. /\ SameLease(p) /\ p.latest = portal.latest /\ p.deferred = portal.deferred
          /\ p.signingOut = portal.signingOut /\ p.screen = q.screen
      BY <3>1, FinishedShows DEF SameLease
    <3> HIDE DEF p
    <3>4. UpToDate => ~p.screen.problem /\ p.screen.workspace = Bound
      BY <2>2, <3>1, <3>3
    <3> QED  BY <1>1, <1>4, <3>1, <3>2, <3>3, <3>4, PassEndsKeeps DEF p
  <2>4. CASE ~Coherent(r) /\ r.attempt = 1
    <3> DEFINE x == [Request("profile", r.lease, r.number) EXCEPT !.attempt = 2]
    <3>1. portal' = portal /\ requests' = (requests \ {r}) \union {x}
      BY <1>1, <1>4, <2>4, NothingBegun DEF DetailAnswered, IsCurrent, Turn
    <3>2. /\ x.kind = "profile" /\ x.lease = r.lease /\ x.under = r.lease /\ x.number = r.number
          /\ x.cookie = cookie' /\ x.answer = NoAnswer
      BY DEF Request
    <3> HIDE DEF x
    <3>3. JustSent(x) /\ IsCurrent(x) /\ ~EndsSession(x)
      BY <1>1, <1>4, <2>1, <3>1, <3>2, PortalFacts
      DEF JustSent, IsCurrent, IsLoad, Current, Shared, EndsSession
    <3>4. Settles({r}, portal, {x}) /\ SameLease(portal)
      BY <3>1, <3>3 DEF Settles, SameLease
    <3>5. EndsOnce' /\ \A f \in requests : Resolves(f) => f \notin {r} /\ Resolves(f)'
      BY <1>1, <3>3, <3>4, EndsOnceStays DEF Resolves, Brings
    <3>6. LoadComing'
      BY <3>1, <3>3 DEF LoadComing, IsCurrent, IsLoad
    <3>7. ~Selects(r) /\ ~Reconciles(r) /\ r.kind # "check"
      BY <1>1 DEF Selects, Reconciles
    <3>8. Holding(portal, portal.deferred) => RefusalComing'
      BY <3>1 DEF RefusalComing
    <3> QED  BY <1>1, <3>2, <3>4, <3>5, <3>6, <3>7, <3>8, RestKeeps DEF General
  <2>5. CASE ~Coherent(r) /\ r.attempt # 1
    <3> DEFINE q == [portal EXCEPT !.screen = [@ EXCEPT !.loading = FALSE, !.problem = TRUE]]
    <3>1. /\ q \in Portals /\ q.generation = portal.generation /\ q.session = portal.session
          /\ q.latest = portal.latest /\ q.deferred = portal.deferred
          /\ q.signingOut = portal.signingOut
          /\ q.screen.status = "authenticated" /\ q.screen.ready /\ ~q.screen.loading
      <4> DEFINE s == [portal.screen EXCEPT !.loading = FALSE, !.problem = TRUE]
      <4>1. s \in Screens /\ s.status = "authenticated" /\ s.ready /\ ~s.loading
        BY <2>1 DEF Screens
      <4>2. q = [portal EXCEPT !.screen = s]
        BY <2>1 DEF Portals
      <4> HIDE DEF s, q
      <4> QED  BY <2>1, <4>1, <4>2 DEF Portals
    <3>2. Turn(Finished(q, r.number), r, {})
      BY <1>1, <1>4, <2>1, <2>5 DEF DetailAnswered, IsCurrent, FailLoad
    <3> HIDE DEF q
    <3> DEFINE p == Finished(q, r.number)
    <3>3. /\ SameLease(p) /\ p.latest = portal.latest /\ p.deferred = portal.deferred
          /\ p.signingOut = portal.signingOut /\ p.screen = q.screen
      BY <3>1, FinishedShows DEF SameLease
    <3> HIDE DEF p
    <3>4. ~UpToDate
      BY <2>2, <2>5 DEF Coherent
    <3> QED  BY <1>1, <1>4, <3>1, <3>2, <3>3, <3>4, PassEndsKeeps DEF p
  <2> QED  BY <2>3, <2>4, <2>5
<1> QED  BY <1>2, <1>3, <1>4

\* The askers of a validity read are given its answer.
LEMMA CheckTells ==
  ASSUME PortalInv, PortalInv', General, NEW r \in requests, r.answer # NoAnswer,
         cookie' = SetCookie(r), api' = api, CheckAnswered(r)
  PROVE  General'
<1> DEFINE Gets(a) == Asker(a) /\ a.number = r.number /\ a.answer = NoAnswer
           Put(a) == IF Gets(a) THEN [a EXCEPT !.answer = r.answer] ELSE a
<1>1. /\ r.kind = "check" /\ portal' = portal /\ requests' = { Put(a) : a \in requests \ {r} }
      /\ cookie' = cookie
  BY AppliedTells DEF CheckAnswered
<1>2. \A a \in requests :
        /\ Put(a).kind = a.kind /\ Put(a).lease = a.lease /\ Put(a).under = a.under
        /\ Put(a).number = a.number /\ Put(a).cookie = a.cookie /\ Put(a).asked = a.asked
        /\ Put(a).answer = IF Gets(a) THEN r.answer ELSE a.answer
        /\ ~Gets(a) => Put(a) = a
  BY PortalFacts DEF Awaited
<1> HIDE DEF Put
<1>3. /\ \A x : Proper(x)' <=> Proper(x)
      /\ \A x : IsCurrent(x)' <=> IsCurrent(x)
      /\ \A x : Mine(x)' <=> Mine(x)
      /\ \A x : Resolves(x)' <=> Resolves(x)
      /\ \A x : Selects(x)' <=> Selects(x)
      /\ \A x : Heard(x)' <=> Heard(x)
      /\ \A x : Tells(x)' <=> Tells(x)
      /\ Bound' = Bound
  BY <1>1 DEF Proper, Verdict, Owned, Mine, IsCurrent, Resolves, Selects, Heard, Stranger, Pending,
     Tells, Bound
<1>4. Proper(r) /\ r.answer.is # "awaited"
  BY AppliedTells
<1>5. ASSUME NEW a \in requests, Gets(a), Mine(a), portal.session # Nobody
      PROVE  Heard(r) /\ r.cookie = portal.session
  <2>1. a.number = portal.generation
    BY <1>5, PortalFacts DEF PortalInv, LeasesArePast, Mine
  <2>2. Heard(r)
    BY <1>1, <1>5, <2>1 DEF Heard
  <2> QED  BY <1>5, <2>2, HeardIsTheSessions
<1>6. \A x \in requests' : Proper(x)
  <2> SUFFICES ASSUME NEW a \in requests PROVE Proper(Put(a))
    BY <1>1
  <2>1. Proper(a)
    BY DEF General
  <2>2. CASE Gets(a)
    <3>1. Mine(a) => portal.session # Nobody
      BY <2>1, <2>2, PortalFacts DEF Proper, Owned, Shared, Asker, Mine
    <3>2. Verdict(Put(a))
      BY <1>1, <1>2, <1>4, <1>5, <2>2, <3>1 DEF Proper, Verdict, Asker, Mine
    <3> QED  BY <1>2, <2>1, <3>2 DEF Proper, Owned, Shared, IsLoad, Mine
  <2> QED  BY <1>2, <2>1, <2>2
<1>7. /\ CookieIsTheSessions' /\ SignedIn' /\ SignedOut'
      /\ (portal.deferred = NoLease \/ portal.deferred.session # Nobody)'
  BY <1>1 DEF General, CookieIsTheSessions, SignedIn, SignedOut
<1>8. EndsOnce'
  <2>1. \A x \in requests' : \E a \in requests : x = Put(a)
    BY <1>1
  <2> QED  BY <1>1, <1>2, <1>3, <2>1 DEF General, EndsOnce, EndsSession, Mine
<1>9. ASSUME portal.session # Nobody PROVE (Resolution \/ Alive \/ BornDead)'
  <2>1. \A a \in requests \ {r} : ~Asker(a) => a \in requests'
    BY <1>1, <1>2
  <2>2. \A x \in requests' : ~Asker(x) => x \in requests
    BY <1>1, <1>2 DEF Asker
  <2>3. LoadComing <=> LoadComing'
    BY <1>1, <1>3, <2>1, <2>2 DEF LoadComing, IsCurrent, IsLoad, Asker
  <2>4. CASE Resolution
    BY <1>1, <1>3, <2>1, <2>4 DEF Resolution, Resolves, Brings, Asker
  <2>5. CASE Alive
    <3>1. SelectComing => SelectComing'
      BY <1>1, <1>3, <2>1 DEF SelectComing, Selects, Asker
    <3>2. UpToDate => UpToDate'
      BY <1>1, <1>3, <2>2, <2>3 DEF UpToDate, IsCurrent, IsLoad, Asker
    <3> QED  BY <1>1, <2>3, <2>5, <3>1, <3>2 DEF Alive
  <2>6. CASE BornDead
    <3>1. \A a \in requests : Heard(a) => Refused(a)
      BY <2>6 DEF BornDead
    <3>2. ASSUME NEW a \in requests, Gets(a), Mine(a) PROVE r.answer.is = "unauthenticated"
      BY <1>4, <1>5, <1>9, <3>1, <3>2, NoAnswerIs DEF Refused
    <3>3. ASSUME NEW a \in requests, Heard(Put(a)) PROVE Refused(Put(a))
      BY <1>2, <3>1, <3>2, <3>3 DEF Heard, Refused, Mine, Asker, Stranger
    <3>4. CheckComing => CheckComing' \/ Heard(r)
      BY <1>1, <2>1 DEF CheckComing, Asker, Heard
    <3>5. ASSUME NEW a \in requests, Reconciles(a) PROVE Put(a) \in requests' /\ Reconciles(Put(a))'
      <4>1. Put(a) \in requests' /\ Put(a).kind = "refusal" /\ Mine(Put(a))'
        BY <1>1, <1>2, <3>5 DEF Reconciles, Mine
      <4>2. CASE Gets(a)
        BY <1>2, <3>2, <3>5, <4>1, <4>2 DEF Reconciles
      <4>3. CASE ~Gets(a) /\ a.answer = NoAnswer
        <5>1. a.number = portal.generation
          BY <3>5, PortalFacts DEF PortalInv, LeasesArePast, Mine, Asker, Reconciles
        <5>2. ~Heard(r)
          BY <1>1, <3>5, <4>3, <5>1 DEF Heard, Asker, Reconciles
        <5> QED  BY <1>2, <3>4, <3>5, <4>1, <4>3, <5>2, NoAnswerIs DEF Reconciles
      <4> QED  BY <1>2, <3>5, <4>1, <4>2, <4>3 DEF Reconciles
    <3>6. RefusalComing => RefusalComing'
      BY <1>1, <3>5 DEF RefusalComing
    <3>7. \A x : Refused(x)' <=> Refused(x)
      BY DEF Refused
    <3> QED  BY <1>1, <1>3, <2>3, <2>6, <3>3, <3>6, <3>7 DEF BornDead
  <2> QED  BY <1>9, <2>4, <2>5, <2>6 DEF General
<1> QED  BY <1>1, <1>3, <1>6, <1>7, <1>8, <1>9 DEF General

\* A validity read is asked for under the session held.
LEMMA AskingSends ==
  ASSUME PortalInv, PortalInv', SameLease(portal'), portal.session # Nobody,
         cookie' = portal.session, NEW kind \in Askers
  PROVE  /\ \A x \in Asking(kind, LeaseOf(portal)) :
              JustSent(x) /\ ~IsLoad(x) /\ (EndsSession(x) => kind = "ending")
         /\ \A x, y \in Asking(kind, LeaseOf(portal)) : EndsSession(x) /\ EndsSession(y) => x = y
         /\ \A x \in Asking(kind, LeaseOf(portal)) : EndsSession(x) => x.lease = LeaseOf(portal)
<1> DEFINE a == Request(kind, LeaseOf(portal), portal.generation)
           c == Request("check", NoLease, portal.generation)
<1>1. \A x \in Asking(kind, LeaseOf(portal)) : x = a \/ x = c
  BY DEF Asking
<1>2. LeaseOf(portal') = LeaseOf(portal) /\ portal.generation \in Nat /\ cookie' \in Known
      /\ LeaseOf(portal) \in Leases
  BY PortalFacts, SameLeaseIs, LeaseIs
<1>3. a.kind = kind /\ JustSent(a) /\ a.lease = LeaseOf(portal)
  <2>1. portal'.session # Nobody /\ cookie' = portal'.session
    BY DEF SameLease
  <2>2. JustSent(Request(kind, LeaseOf(portal'), portal.generation))
    BY <1>2, <2>1, JustSentIs DEF Askers
  <2> QED  BY <1>2, <2>2, RequestIs
<1>4. c.kind = "check" /\ c.answer = NoAnswer
  BY <1>2, RequestIs, Constants DEF Reads
<1> HIDE DEF a, c
<1>5. ~IsLoad(a) /\ (EndsSession(a) => kind = "ending")
  BY <1>3 DEF IsLoad, Askers, EndsSession
<1>6. JustSent(c) /\ ~IsLoad(c) /\ ~EndsSession(c)
  BY <1>4 DEF JustSent, Shared, IsLoad, EndsSession
<1> QED  BY <1>1, <1>3, <1>5, <1>6

LEMMA AskingComes ==
  ASSUME PortalInv, SameLease(portal'), cookie' \in Known,
         Asking("refusal", LeaseOf(portal)) \subseteq requests',
         \A x \in requests : x.kind = "check" => x \in requests'
  PROVE  RefusalComing'
<1> DEFINE a == Request("refusal", LeaseOf(portal), portal.generation)
           c == Request("check", NoLease, portal.generation)
<1>1. LeaseOf(portal') = LeaseOf(portal) /\ portal.generation \in Nat /\ LeaseOf(portal) \in Leases
      /\ portal'.generation = portal.generation
  BY PortalFacts, SameLeaseIs, LeaseIs DEF SameLease
<1>2. /\ a \in requests'
      /\ c \in requests' \/ \E x \in requests : x.kind = "check" /\ x.number = portal.generation
  BY DEF Asking
<1>3. /\ a.kind = "refusal" /\ a.lease = LeaseOf(portal) /\ a.answer = NoAnswer
      /\ c.kind = "check" /\ c.number = portal.generation
  BY <1>1, RequestIs, Constants DEF Askers, Reads
<1> HIDE DEF a, c
<1>4. CheckComing'
  BY <1>1, <1>2, <1>3 DEF CheckComing
<1>5. PICK x \in requests' : x.kind = "refusal" /\ x.lease = LeaseOf(portal) /\ x.answer = NoAnswer
  BY <1>2, <1>3
<1>6. Reconciles(x)'
  BY <1>1, <1>4, <1>5 DEF Reconciles, Mine, Holding
<1> QED  BY <1>5, <1>6 DEF RefusalComing

\* A refusal that may be of the session, or of the request alone, is put to a read.
LEMMA AmbiguousTells ==
  ASSUME PortalInv, PortalInv', General, NEW r \in requests, r.answer # NoAnswer,
         cookie' = SetCookie(r), api' = api, r.kind \in {"mutation", "select"}, r.answer.is # "ok",
         Ambiguous(portal, r, r.lease)
  PROVE  General'
<1>1. /\ cookie' = cookie /\ ~Shared(r) /\ ~Resolves(r) /\ ~Selects(r) /\ ~IsCurrent(r)
      /\ ~Reconciles(r) /\ r.kind # "check"
  BY AppliedTells DEF Shared, Resolves, Selects, IsCurrent, IsLoad, Reconciles, Brings
<1>2. CASE ~Mine(r)
  BY <1>1, <1>2, GoneKeeps DEF Ambiguous, SameLease, Mine
<1>3. CASE Mine(r)
  <2> DEFINE more == Asking("refusal", LeaseOf(portal))
  <2>1. portal.session # Nobody /\ cookie' = portal.session /\ r.lease = LeaseOf(portal)
    BY <1>1, <1>3, AppliedTells
  <2>2. portal' = portal /\ requests' = (requests \ {r}) \union more
    BY <1>3, <2>1, NothingBegun DEF Ambiguous, Turn, Mine
  <2>3. SameLease(portal') /\ SameLease(portal)
    BY <2>2 DEF SameLease
  <2>4. \A x \in more : JustSent(x) /\ ~IsLoad(x) /\ ~EndsSession(x)
    BY <2>1, <2>3, AskingSends DEF Askers
  <2>5. RefusalComing'
    BY <1>1, <2>2, <2>3, AskingComes DEF PortalInv, Typed
  <2> HIDE DEF more
  <2>6. Settles({r}, portal, more)
    BY <2>2, <2>4 DEF Settles
  <2>7. EndsOnce' /\ \A f \in requests : Resolves(f) => f \notin {r} /\ Resolves(f)'
    BY <1>1, <2>3, <2>4, <2>6, EndsOnceStays
  <2> QED  BY <1>1, <2>3, <2>4, <2>5, <2>6, <2>7, RestKeeps DEF General, IsLoad
<1> QED  BY <1>2, <1>3

LEMMA RefusalTells ==
  ASSUME PortalInv, General, NEW r \in requests, r.answer # NoAnswer,
         cookie' = SetCookie(r), api' = api, RefusalSettled(r)
  PROVE  General'
<1>1. /\ r.kind = "refusal" /\ cookie' = cookie /\ ~Shared(r) /\ ~Resolves(r) /\ ~Selects(r)
      /\ ~IsCurrent(r) /\ ~IsLoad(r) /\ Asker(r)
  BY AppliedTells DEF RefusalSettled, Shared, Resolves, Selects, IsCurrent, IsLoad, Brings, Asker
<1>2. CASE r.answer.is = "unauthenticated"
  BY <1>1, <1>2, ClearTells DEF RefusalSettled, Misleads, Deceives, Stranger
<1>3. CASE r.answer.is # "unauthenticated"
  <2>1. Mine(r) /\ r.answer.is = "ok" => r.answer.session = r.lease.session
    BY <1>1, AppliedTells, PortalFacts DEF Proper, Verdict, Mine
  <2>2. Turn(portal, r, {})
    BY <1>1, <1>3, <2>1 DEF RefusalSettled, Mine
  <2>3. ~Reconciles(r)
    BY <1>3 DEF Reconciles
  <2> QED  BY <1>1, <2>2, <2>3, GoneKeeps DEF SameLease
<1> QED  BY <1>2, <1>3

\* A load is asked for under the lease of what is settled.
LEMMA LoadTells ==
  ASSUME PortalInv, PortalInv', General, NEW r \in requests, r.answer # NoAnswer,
         cookie' = cookie, api' = api, r.kind \in {"read", "mutation", "select"},
         cookie' = SetCookie(r), ~Selects(r), Turn(Load(portal, r.lease), r, {})
  PROVE  General'
<1>1. /\ ~Shared(r) /\ ~Resolves(r) /\ ~IsCurrent(r) /\ ~IsLoad(r) /\ ~Reconciles(r)
      /\ r.kind # "check"
  BY DEF Shared, Resolves, IsCurrent, IsLoad, Brings, Reconciles
<1>2. CASE ~Mine(r) \/ Holding(portal, portal.inFlight)
  BY <1>1, <1>2, GoneKeeps DEF Load, SameLease, Mine
<1>3. CASE Mine(r) /\ ~Holding(portal, portal.inFlight)
  <2> DEFINE p == Load(portal, r.lease)
             x == Request("profile", r.lease, portal.latest + 1)
  <2>1. /\ portal.session # Nobody /\ cookie = portal.session /\ r.lease = LeaseOf(portal)
        /\ r.lease \in Leases /\ cookie \in Known /\ portal \in Portals /\ portal.latest \in Nat
        /\ r.lease.session # Nobody
    BY <1>1, <1>3, AppliedTells, PortalFacts DEF Mine
  <2>2. /\ SameLease(p) /\ p.latest = portal.latest + 1 /\ portal.latest < p.latest
        /\ p.deferred = portal.deferred /\ p.signingOut = portal.signingOut
        /\ p.screen.status = "authenticated" /\ p.screen.ready /\ ~p.screen.problem
        /\ Begun(p) = {x} /\ x.kind = "profile" /\ x.number = p.latest
    BY <1>3, <2>1, LoadBegins DEF SameLease, Mine, General, SignedIn
  <2> HIDE DEF p
  <2>3. portal' = p /\ requests' = (requests \ {r}) \union {x}
    BY <2>2 DEF Turn, p
  <2>4. JustSent(x)
    <3>1. LeaseOf(portal') = r.lease /\ portal'.session = portal.session /\ cookie' = portal'.session
      BY <2>1, <2>2, <2>3, SameLeaseIs DEF SameLease
    <3>2. portal.latest + 1 \in Int /\ portal.latest + 1 <= portal'.latest
      BY <2>1, <2>2, <2>3
    <3> QED  BY <2>1, <3>1, <3>2, JustSentIs DEF Reads
  <2> HIDE DEF x
  <2>5. Settles({r}, p, {x})
    BY <2>3, <2>4 DEF Settles
  <2>6. EndsOnce' /\ \A f \in requests : Resolves(f) => f \notin {r} /\ Resolves(f)'
    BY <1>1, <2>2, <2>5, EndsOnceStays DEF EndsSession
  <2> QED  BY <1>1, <2>1, <2>2, <2>5, <2>6, BeginKeeps DEF General
<1> QED  BY <1>2, <1>3

LEMMA PageTells ==
  ASSUME PortalInv, PortalInv', General, NEW r \in requests, r.answer # NoAnswer,
         cookie' = SetCookie(r), api' = api, PageAnswered(r), ~Misleads(r)
  PROVE  General'
<1>1. /\ r.kind \in {"read", "mutation"} /\ cookie' = cookie /\ ~Shared(r) /\ ~Resolves(r)
      /\ ~Selects(r) /\ ~IsCurrent(r) /\ ~IsLoad(r) /\ ~Reconciles(r) /\ r.kind # "check"
  BY AppliedTells
  DEF PageAnswered, Shared, Resolves, Selects, IsCurrent, IsLoad, Brings, Reconciles
<1>2. CASE Turn(portal, r, {})
  BY <1>1, <1>2, GoneKeeps DEF SameLease
<1>3. CASE r.answer.is = "forbidden" /\ Turn(Load(portal, r.lease), r, {})
  BY <1>1, <1>3, LoadTells
<1>4. CASE /\ r.answer.is = "unauthenticated" /\ r.kind = "read"
           /\ Turn(ClearForRefusal(portal, r.lease), r, {})
  BY <1>1, <1>4, ClearTells
<1>5. CASE /\ r.answer.is = "unauthenticated" /\ r.kind = "mutation"
           /\ Ambiguous(portal, r, r.lease)
  BY <1>1, <1>5, AmbiguousTells
<1> QED  BY <1>2, <1>3, <1>4, <1>5 DEF PageAnswered

\* A selection is shown at once, and everything is read again under it.
LEMMA SwitchedIs ==
  ASSUME PortalInv, NEW r \in requests
  PROVE  LET q == Switched(portal, r) IN
         /\ q \in Portals /\ q.generation = portal.generation /\ q.session = portal.session
         /\ q.latest = portal.latest + 1 /\ q.inFlight = NoLease /\ q.deferred = portal.deferred
         /\ q.signingOut = portal.signingOut /\ q.screen.status = portal.screen.status
         /\ q.screen.ready = portal.screen.ready
<1> DEFINE screen == [portal.screen EXCEPT
                        !.workspace = r.answer.workspace, !.problem = FALSE,
                        !.names = IF portal.screen.of = Nobody THEN portal.screen.names
                                  ELSE r.answer.workspace]
           l == portal.latest + 1
           q == Switched(portal, r)
<1>1. portal \in Portals /\ portal.screen \in Screens /\ r.answer.workspace \in Bindings
  BY PortalFacts DEF Portals, Answers
<1>2. screen \in Screens /\ screen.status = portal.screen.status
      /\ screen.ready = portal.screen.ready
  BY <1>1 DEF Screens
<1>3. l \in Nat /\ q = [portal EXCEPT !.latest = l, !.inFlight = NoLease, !.screen = screen]
  BY <1>1 DEF Switched, InvalidateLoads, Portals
<1> HIDE DEF screen, l, q
<1>4. /\ q \in Portals /\ q.generation = portal.generation /\ q.session = portal.session
      /\ q.latest = l /\ q.inFlight = NoLease /\ q.deferred = portal.deferred
      /\ q.signingOut = portal.signingOut /\ q.screen = screen
  BY <1>1, <1>2, <1>3, Constants DEF Portals
<1> QED  BY <1>2, <1>4 DEF q, l

LEMMA SelectTells ==
  ASSUME PortalInv, PortalInv', General, NEW r \in requests, r.answer # NoAnswer,
         cookie' = SetCookie(r), api' = api, SelectAnswered(r)
  PROVE  General'
<1>1. /\ r.kind = "select" /\ cookie' = cookie /\ ~Shared(r) /\ ~Resolves(r)
      /\ ~IsCurrent(r) /\ ~IsLoad(r) /\ ~Reconciles(r) /\ r.kind # "check"
  BY AppliedTells DEF SelectAnswered, Shared, Resolves, IsCurrent, IsLoad, Brings, Reconciles
<1>2. CASE ~Selects(r) /\ Turn(portal, r, {})
  BY <1>1, <1>2, GoneKeeps DEF SameLease
<1>3. CASE Mine(r) /\ r.answer.is = "ok"
  <2> DEFINE q == Switched(portal, r)
             p == Load(q, r.lease)
             x == Request("profile", r.lease, q.latest + 1)
  <2>1. /\ portal.session # Nobody /\ cookie = portal.session /\ r.lease = LeaseOf(portal)
        /\ r.lease \in Leases /\ cookie \in Known /\ portal.latest \in Nat
        /\ r.lease.session # Nobody
    BY <1>1, <1>3, AppliedTells, PortalFacts DEF Mine
  <2>2. /\ q \in Portals /\ SameLease(q) /\ q.latest = portal.latest + 1 /\ q.inFlight = NoLease
        /\ q.deferred = portal.deferred /\ q.signingOut = portal.signingOut
        /\ q.screen.status = portal.screen.status /\ q.screen.ready = portal.screen.ready
    BY SwitchedIs DEF SameLease
  <2> HIDE DEF q
  <2>3. Holding(q, r.lease) /\ ~Holding(q, q.inFlight) /\ portal.latest <= q.latest
    BY <1>3, <2>1, <2>2, SameLeaseIs, PortalFacts DEF Mine
  <2>4. /\ SameLease(p) /\ p.latest = q.latest + 1 /\ portal.latest < p.latest
        /\ p.deferred = portal.deferred /\ p.signingOut = portal.signingOut
        /\ p.screen.status = "authenticated" /\ p.screen.ready /\ ~p.screen.problem
        /\ Begun(p) = {x} /\ x.kind = "profile" /\ x.number = p.latest
    BY <1>1, <2>1, <2>2, <2>3, LoadBegins DEF SameLease, General, SignedIn
  <2>5. p.latest \in Int
    BY <2>1, <2>2, <2>4
  <2>6. Turn(p, r, {})
    BY <1>1, <1>3 DEF SelectAnswered, Mine, q
  <2> HIDE DEF p
  <2>7. portal' = p /\ requests' = (requests \ {r}) \union {x}
    BY <2>4, <2>6 DEF Turn
  <2>8. JustSent(x)
    <3>1. LeaseOf(portal') = r.lease /\ portal'.session = portal.session /\ cookie' = portal'.session
      BY <1>1, <2>1, <2>4, <2>7, SameLeaseIs DEF SameLease
    <3>2. q.latest + 1 \in Int /\ q.latest + 1 <= portal'.latest
      BY <2>4, <2>5, <2>7
    <3> QED  BY <2>1, <3>1, <3>2, JustSentIs DEF Reads
  <2> HIDE DEF x
  <2>9. Settles({r}, p, {x})
    BY <2>7, <2>8 DEF Settles
  <2>10. EndsOnce' /\ \A f \in requests : Resolves(f) => f \notin {r} /\ Resolves(f)'
    BY <1>1, <2>4, <2>9, EndsOnceStays DEF EndsSession
  <2> QED  BY <1>1, <2>1, <2>4, <2>5, <2>9, <2>10, BeginKeeps DEF General
<1>4. CASE r.answer.is = "unauthenticated" /\ Ambiguous(portal, r, r.lease)
  BY <1>1, <1>4, AmbiguousTells
<1>5. CASE r.answer.is # "ok" /\ Turn(Load(portal, r.lease), r, {})
  BY <1>1, <1>5, LoadTells DEF Selects
<1> QED  BY <1>2, <1>3, <1>4, <1>5 DEF SelectAnswered, Mine, Selects

\* A sign-out is concluded: the session is forgotten, or the sign-out was refused.
LEMMA ConcludedShows ==
  ASSUME PortalInv
  PROVE  /\ SameLease(Concluded) /\ Concluded.screen = portal.screen
         /\ Concluded.latest = portal.latest /\ Concluded.deferred = portal.deferred
         /\ Concluded.signingOut = NoLease
BY PortalFacts DEF Concluded, SameLease, Portals

LEMMA ForgottenTells ==
  ASSUME PortalInv, General, NEW r \in requests, api' = api, Turn(Forget(Concluded), r, {}),
         cookie' \notin api.live
  PROVE  General'
<1>1. Good(Concluded) /\ ForgetsTo(Forget(Concluded)) /\ Forget(Concluded).deferred = portal.deferred
  BY ConcludedIs, ConcludedShows, ForgetIsSo
<1> QED  BY <1>1, ForgetKeepsTruth DEF General

LEMMA LogoutTells ==
  ASSUME PortalInv, PortalInv', General, NEW r \in requests, r.answer # NoAnswer,
         cookie' = SetCookie(r), api' = api, LogoutAnswered(r)
  PROVE  General'
<1>1. /\ r.kind = "logout" /\ ~Shared(r) /\ ~Selects(r) /\ ~IsCurrent(r) /\ ~IsLoad(r)
      /\ ~Reconciles(r) /\ EndsSession(r) /\ r.kind # "check"
  BY DEF LogoutAnswered, Shared, Selects, IsCurrent, IsLoad, Reconciles, EndsSession
<1>2. CASE ~Pending(r.lease)
  <2>1. cookie' = cookie /\ Turn(portal, r, {}) /\ ~Resolves(r)
    BY <1>1, <1>2 DEF LogoutAnswered, SetCookie, Resolves, Brings
  <2> QED  BY <1>1, <2>1, GoneKeeps DEF SameLease
<1>3. CASE Pending(r.lease) /\ r.answer.is = "ok"
  <2>1. cookie' = Nobody /\ Turn(Forget(Concluded), r, {})
    BY <1>1, <1>3 DEF LogoutAnswered, SetCookie
  <2>2. cookie' \notin api.live
    BY <2>1, Constants DEF PortalInv, Typed
  <2> QED  BY <2>1, <2>2, ForgottenTells
<1>4. CASE Pending(r.lease) /\ r.answer.is # "ok"
  <2> DEFINE more == Asking("ending", LeaseOf(portal))
  <2>1. /\ portal.session # Nobody /\ cookie = portal.session /\ r.lease = LeaseOf(portal)
        /\ cookie' = cookie /\ Mine(r) /\ ~Resolves(r)
    BY <1>1, <1>4, AppliedTells DEF Pending, Mine, Resolves, Brings
  <2>2. portal' = portal /\ requests' = (requests \ {r}) \union more
    BY <1>4, <2>1, NothingBegun DEF LogoutAnswered, Turn
  <2>3. SameLease(portal') /\ SameLease(portal)
    BY <2>2 DEF SameLease
  <2>4. /\ \A x \in more : JustSent(x) /\ ~IsLoad(x) /\ (EndsSession(x) => x.lease = LeaseOf(portal))
        /\ \A x, y \in more : EndsSession(x) /\ EndsSession(y) => x = y
    BY <2>1, <2>3, AskingSends DEF Askers
  <2> HIDE DEF more
  <2>5. Settles({r}, portal, more)
    BY <2>2, <2>4 DEF Settles
  <2>6. \A x : (Mine(x)' <=> Mine(x)) /\ (EndsSession(x)' <=> EndsSession(x))
               /\ (Resolves(x)' <=> Resolves(x))
    BY <2>2 DEF Mine, EndsSession, Resolves, Pending, Brings
  <2>7. \A x \in requests \ {r} : ~(EndsSession(x) /\ Mine(x))
    BY <1>1, <2>1 DEF General, EndsOnce
  <2>8. EndsOnce'
    BY <1>4, <2>1, <2>2, <2>4, <2>6, <2>7 DEF EndsOnce, Pending
  <2>9. Holding(portal, portal.deferred) => RefusalComing'
    BY <2>2 DEF RefusalComing
  <2>10. \A f \in requests : Resolves(f) => f \notin {r} /\ Resolves(f)'
    BY <2>1, <2>6
  <2> QED  BY <1>1, <2>1, <2>3, <2>4, <2>5, <2>8, <2>9, <2>10, RestKeeps DEF General, IsLoad
<1> QED  BY <1>2, <1>3, <1>4

LEMMA EndingTells ==
  ASSUME PortalInv, General, NEW r \in requests, r.answer # NoAnswer,
         cookie' = SetCookie(r), api' = api, EndingSettled(r)
  PROVE  General'
<1>1. /\ r.kind = "ending" /\ cookie' = cookie /\ ~Shared(r) /\ ~Resolves(r) /\ ~Selects(r)
      /\ ~IsCurrent(r) /\ ~IsLoad(r) /\ ~Reconciles(r) /\ Asker(r) /\ EndsSession(r)
      /\ r.kind # "check"
  BY AppliedTells DEF EndingSettled, Shared, Resolves, Selects, IsCurrent, IsLoad, Brings, Asker,
     Reconciles, EndsSession
<1>2. CASE ~Pending(r.lease)
  BY <1>1, <1>2, GoneKeeps DEF EndingSettled, SameLease
<1>3. CASE Pending(r.lease) /\ r.answer.is = "unauthenticated"
  <2>1. portal.session # Nobody /\ portal.session = cookie /\ Gone
    BY <1>1, <1>3, AppliedTells, RefusalsAreBelieved DEF Pending, Mine
  <2> QED  BY <1>1, <1>3, <2>1, ForgottenTells DEF EndingSettled, Gone
<1>4. CASE Pending(r.lease) /\ r.answer.is # "unauthenticated"
  <2> DEFINE p == Concluded
  <2>1. /\ SameLease(p) /\ p.screen = portal.screen /\ p.latest = portal.latest
        /\ p.deferred = portal.deferred /\ p.signingOut = NoLease
    BY ConcludedShows
  <2>2. portal' = p /\ requests' = requests \ {r} /\ Settles({r}, p, {})
    BY <1>4, <2>1, NothingBegun DEF EndingSettled, Turn, Settles
  <2> HIDE DEF p
  <2>3. \A x \in requests \ {r} : ~(EndsSession(x) /\ Mine(x))
    BY <1>1, <1>4 DEF General, EndsOnce, Pending, Mine
  <2>4. \A x : Mine(x)' <=> Mine(x)
    BY <2>1, <2>2, SameLeaseIs DEF Mine
  <2>5. EndsOnce'
    BY <2>2, <2>3, <2>4 DEF EndsOnce, EndsSession
  <2>6. \A f \in requests : Resolves(f) => f \notin {r} /\ Resolves(f)'
    BY <1>1, <2>3 DEF Resolves, Brings, Pending, EndsSession, Mine
  <2>7. Holding(portal, portal.deferred) => RefusalComing'
    BY <2>1, <2>2, SameLeaseIs DEF RefusalComing
  <2> QED  BY <1>1, <2>1, <2>2, <2>5, <2>6, <2>7, RestKeeps DEF General, IsLoad
<1> QED  BY <1>2, <1>3, <1>4

-----------------------------------------------------------------------------
(* A replacement. *)

\* The provider when the replacement has been answered.
LEMMA UnawaitedIs ==
  ASSUME PortalInv
  PROVE  /\ Unawaited \in Portals /\ Good(Unawaited) /\ SameLease(Unawaited)
         /\ Unawaited.screen = portal.screen /\ Unawaited.latest = portal.latest
         /\ Unawaited.deferred = NoLease /\ Unawaited.signingOut = portal.signingOut
         /\ Unawaited.replacing = portal.replacing - 1
<1> DEFINE n == portal.replacing - 1
<1>1. n \in Int /\ Unawaited = [portal EXCEPT !.replacing = n, !.deferred = NoLease]
      /\ portal \in Portals
  BY PortalFacts DEF Unawaited, Portals
<1> HIDE DEF n
<1>2. /\ Unawaited \in Portals /\ Unawaited.generation = portal.generation
      /\ Unawaited.session = portal.session /\ Unawaited.inFlight = portal.inFlight
      /\ Unawaited.screen = portal.screen /\ Unawaited.latest = portal.latest
      /\ Unawaited.deferred = NoLease /\ Unawaited.signingOut = portal.signingOut
      /\ Unawaited.replacing = n
  BY <1>1, Constants DEF Portals
<1> QED  BY <1>2, PortalIsGood DEF SameLease, Good, n

\* The session it brought is adopted, and its account is loaded.
LEMMA AdoptTells ==
  ASSUME PortalInv, PortalInv', General, NEW r \in requests, Brings(r), api' = api,
         cookie' = r.answer.session, Turn(AdoptAndLoad(Unawaited, r.answer.session, TRUE), r, {})
  PROVE  General'
<1> DEFINE s == r.answer.session
           q == Adopt(Unawaited, s, TRUE)
           p == Load(q, LeaseOf(q))
           x == Request("profile", LeaseOf(q), q.latest + 1)
<1>1. /\ s \in Known /\ s # Nobody /\ portal.generation \in Nat /\ portal.latest \in Nat
      /\ \A y \in requests : y.cookie # s
  BY PortalFacts DEF PortalInv, NewIsNew, AnswersAreTheServers, Brings, Answers
<1> HIDE DEF s
<1>2. /\ q \in Portals /\ q.generation = portal.generation + 1 /\ q.session = s
      /\ q.latest = portal.latest + 1 /\ q.inFlight = NoLease /\ q.deferred = NoLease
      /\ q.screen.status = "authenticated" /\ q.screen.ready
  <2>1. /\ q \in Portals /\ q.generation = Unawaited.generation + 1 /\ q.session = s
        /\ q.latest = Unawaited.latest + 1 /\ q.inFlight = NoLease
        /\ q.deferred = Unawaited.deferred
        /\ q.screen.status = "authenticated" /\ q.screen.ready
    <3>1. Good(Unawaited) /\ s \in Known /\ TRUE \in BOOLEAN
      BY <1>1, UnawaitedIs
    <3> HIDE DEF q
    <3>2. \A keep \in BOOLEAN :
            LET a == Adopt(Unawaited, s, keep) IN
            /\ a \in Portals /\ a.generation = Unawaited.generation + 1 /\ a.session = s
            /\ a.latest = Unawaited.latest + 1 /\ a.inFlight = NoLease
            /\ a.deferred = Unawaited.deferred
            /\ a.screen.status = (IF s = Nobody THEN "anonymous" ELSE "authenticated")
            /\ a.screen.ready
      BY <3>1, AdoptBecomes
    <3> QED  BY <1>1, <3>1, <3>2 DEF q
  <2> HIDE DEF q
  <2> QED  BY <2>1, UnawaitedIs DEF SameLease
<1>3. portal' = p /\ requests' = (requests \ {r}) \union Begun(p)
  BY DEF Turn, AdoptAndLoad, s
<1> HIDE DEF q
<1>4. /\ LeaseOf(q) \in Leases /\ Holding(q, LeaseOf(q)) /\ LeaseOf(q).session = s
      /\ ~Holding(q, q.inFlight) /\ portal.latest <= q.latest
  BY <1>1, <1>2, LeaseIs, Constants
<1>5. /\ p.generation = q.generation /\ p.session = s /\ p.latest = q.latest + 1
      /\ p.deferred = NoLease /\ p.screen.status = "authenticated" /\ p.screen.ready
      /\ ~p.screen.problem /\ Begun(p) = {x} /\ x.kind = "profile" /\ x.number = q.latest + 1
  BY <1>1, <1>2, <1>4, LoadBegins DEF s
<1>6. LeaseOf(portal') = LeaseOf(q) /\ p.latest \in Int /\ portal.latest <= p.latest
  BY <1>1, <1>2, <1>3, <1>5 DEF LeaseOf
<1> HIDE DEF p
<1>7. JustSent(x) /\ x.lease = LeaseOf(q)
  <2>1. portal'.session # Nobody /\ cookie' = portal'.session /\ cookie' \in Known
    BY <1>1, <1>3, <1>5 DEF s
  <2>2. q.latest + 1 \in Int /\ q.latest + 1 <= portal'.latest
    BY <1>3, <1>5, <1>6
  <2> QED  BY <1>4, <1>6, <2>1, <2>2, JustSentIs, RequestIs DEF Reads
<1> HIDE DEF x
<1>8. Settles({r}, p, {x})
  BY <1>3, <1>5, <1>7 DEF Settles
<1>9. \A y \in requests' : Proper(y)'
  <2>1. \A y \in requests : ~Shared(y) => y.cookie # p.session
    BY <1>1, <1>5 DEF General, Proper, Owned
  <2> QED  BY <1>2, <1>5, <1>6, <1>8, <2>1, ProperKeeps
<1>10. \A y \in requests : /\ ~Mine(y)'
                           /\ y.kind = "check" => y.number # portal'.generation
  BY <1>1, <1>2, <1>3, <1>5, PortalFacts DEF Mine, Holding, LeaseOf, PortalInv, LeasesArePast, Awaited
<1>11. (Alive \/ BornDead)'
  <2>1. PICK y \in requests' :
          /\ y.kind = "profile" /\ y.number = portal'.latest /\ y.answer = NoAnswer
          /\ Holding(portal', y.lease)
    <3>1. x \in requests' /\ x.number = portal'.latest /\ x.answer = NoAnswer
      BY <1>3, <1>5, <1>7 DEF JustSent
    <3>2. Holding(portal', x.lease)
      BY <1>6, <1>7 DEF Holding
    <3> QED  BY <1>5, <3>1, <3>2
  <2>2. IsCurrent(y)'
    BY <2>1 DEF IsCurrent, IsLoad, Current
  <2>3. \A z \in requests' : IsCurrent(z)' => z.kind = "profile" /\ z.answer = NoAnswer
    BY <1>3, <1>5, <1>7, <1>10 DEF IsCurrent, Current, Mine, JustSent
  <2>4. \A z \in requests' : Heard(z)' => Refused(z)'
    BY <1>3, <1>5, <1>7, <1>10 DEF Heard, Refused, JustSent
  <2>5. ~portal'.screen.problem
    BY <1>3, <1>5
  <2> QED  BY <2>1, <2>2, <2>3, <2>4, <2>5, JustBegun
<1>12. EndsOnce'
  BY <1>3, <1>5, <1>10 DEF EndsOnce, EndsSession
<1>13. CookieIsTheSessions' /\ SignedOut' /\ SignedIn'
       /\ (portal.deferred = NoLease \/ portal.deferred.session # Nobody)'
  BY <1>1, <1>3, <1>5 DEF CookieIsTheSessions, SignedOut, SignedIn, s
<1> QED  BY <1>9, <1>11, <1>12, <1>13 DEF General

\* It failed: the refusal put off meanwhile, if any, is put to a read.
PutToARead == IF Unawaited.replacing = 0 /\ Holding(Unawaited, portal.deferred)
              THEN Asking("refusal", portal.deferred) ELSE {}
LEMMA FailedRests ==
  ASSUME PortalInv, PortalInv', General, NEW r \in requests, r.answer # NoAnswer,
         cookie' = cookie, cookie' = SetCookie(r), api' = api, r.kind \in {"login", "change"},
         r.answer.is # "ok", portal.replacing \in Nat \ {0}, ~Drops(r),
         NEW reconciles \in BOOLEAN, reconciles => r.kind = "change" /\ Mine(r),
         Turn(Unawaited, r,
              PutToARead \union (IF reconciles THEN Asking("refusal", r.lease) ELSE {}))
  PROVE  General'
<1>1. /\ ~Resolves(r) /\ ~Selects(r) /\ ~IsCurrent(r) /\ ~IsLoad(r) /\ ~Reconciles(r)
      /\ r.kind # "check"
  BY DEF Resolves, Selects, IsCurrent, IsLoad, Brings, Reconciles
<1> DEFINE asks == Asking("refusal", LeaseOf(portal))
           more == (IF portal.replacing = 1 /\ Holding(portal, portal.deferred) THEN asks ELSE {})
                   \union (IF reconciles THEN asks ELSE {})
<1>3. portal' = Unawaited /\ requests' = (requests \ {r}) \union more
  <2>1. Unawaited.replacing = 0 <=> portal.replacing = 1
    BY UnawaitedIs
  <2>2. Holding(Unawaited, portal.deferred) <=> Holding(portal, portal.deferred)
    BY UnawaitedIs, SameLeaseIs
  <2>3. reconciles => r.lease = LeaseOf(portal)
    BY DEF Mine, Holding
  <2>4. Holding(portal, portal.deferred) => portal.deferred = LeaseOf(portal)
    BY DEF Holding
  <2>5. Begun(Unawaited) = {}
    BY UnawaitedIs, NothingBegun
  <2> QED  BY <2>1, <2>2, <2>3, <2>4, <2>5 DEF Turn, PutToARead
<1>4. more # {} => portal.session # Nobody /\ cookie' = portal.session
  <2>1. reconciles => portal.session # Nobody /\ cookie = portal.session
    BY AppliedTells DEF Shared
  <2>2. Holding(portal, portal.deferred) => portal.session # Nobody /\ cookie = portal.session
    BY PortalFacts DEF General, CookieIsTheSessions
  <2> QED  BY <2>1, <2>2
<1>5. SameLease(portal') /\ SameLease(Unawaited)
  BY <1>3, UnawaitedIs
<1>6. \A x \in more : JustSent(x) /\ ~IsLoad(x) /\ ~EndsSession(x)
  BY <1>4, <1>5, AskingSends DEF Askers
<1>7. Holding(portal, portal.deferred) => RefusalComing'
  <2> SUFFICES ASSUME Holding(portal, portal.deferred) PROVE RefusalComing'
    OBVIOUS
  <2>1. portal.replacing = 1
    BY DEF Drops
  <2>2. asks \subseteq requests'
    BY <1>3, <2>1
  <2> QED  BY <1>1, <1>3, <1>5, <2>2, AskingComes DEF PortalInv, Typed
<1> HIDE DEF more
<1>8. Settles({r}, Unawaited, more)
  BY <1>3, <1>6 DEF Settles
<1>9. EndsOnce' /\ \A f \in requests : Resolves(f) => f \notin {r} /\ Resolves(f)'
  BY <1>1, <1>6, <1>8, UnawaitedIs, EndsOnceStays
<1> QED  BY <1>1, <1>6, <1>7, <1>8, <1>9, UnawaitedIs, RestKeeps DEF IsLoad

\* A change of password that was not allowed: what is shown is read again.
LEMMA FailedLoads ==
  ASSUME PortalInv, PortalInv', General, NEW r \in requests, r.answer # NoAnswer,
         cookie' = cookie, cookie' = SetCookie(r), api' = api, r.kind = "change",
         r.answer.is # "ok", portal.replacing \in Nat \ {0}, ~Drops(r), Mine(r),
         Turn(Load(Unawaited, r.lease), r, PutToARead)
  PROVE  General'
<1>1. /\ ~Resolves(r) /\ ~IsLoad(r) /\ ~Shared(r)
  BY DEF Resolves, IsLoad, Brings, Shared
<1>2. CASE Holding(Unawaited, Unawaited.inFlight)
  <2>1. Turn(Unawaited, r, PutToARead \union (IF FALSE THEN Asking("refusal", r.lease) ELSE {}))
    BY <1>2 DEF Load
  <2> QED  BY <2>1, FailedRests
<1>3. CASE ~Holding(Unawaited, Unawaited.inFlight)
  <2> DEFINE p == Load(Unawaited, r.lease)
             x == Request("profile", r.lease, Unawaited.latest + 1)
  <2>1. /\ portal.session # Nobody /\ cookie = portal.session /\ r.lease = LeaseOf(portal)
        /\ r.lease \in Leases /\ cookie \in Known /\ portal.latest \in Nat
        /\ r.lease.session # Nobody
    BY <1>1, AppliedTells, PortalFacts DEF Mine
  <2>2. /\ Unawaited \in Portals /\ SameLease(Unawaited) /\ Unawaited.latest = portal.latest
        /\ Unawaited.deferred = NoLease /\ Unawaited.signingOut = portal.signingOut
        /\ Unawaited.screen = portal.screen /\ Holding(Unawaited, r.lease)
    BY UnawaitedIs, SameLeaseIs DEF Mine
  <2>3. /\ SameLease(p) /\ p.latest = portal.latest + 1 /\ portal.latest < p.latest
        /\ p.deferred = NoLease /\ p.signingOut = portal.signingOut
        /\ p.screen.status = "authenticated" /\ p.screen.ready /\ ~p.screen.problem
        /\ Begun(p) = {x} /\ x.kind = "profile" /\ x.number = p.latest
    <3>1. portal.latest <= Unawaited.latest /\ cookie' \in Known
      BY <2>1, <2>2
    <3> HIDE DEF p, x
    <3>2. /\ p.generation = Unawaited.generation /\ p.session = Unawaited.session
          /\ p.latest = Unawaited.latest + 1 /\ portal.latest < p.latest
          /\ p.deferred = Unawaited.deferred /\ p.signingOut = Unawaited.signingOut
          /\ p.screen.status = Unawaited.screen.status
          /\ p.screen.ready = Unawaited.screen.ready /\ ~p.screen.problem
          /\ Begun(p) = {x} /\ x.kind = "profile" /\ x.number = Unawaited.latest + 1
      BY <1>3, <2>1, <2>2, <3>1, LoadBegins DEF p, x
    <3> QED  BY <2>1, <2>2, <3>2 DEF SameLease, General, SignedIn
  <2> HIDE DEF p
  <2>4. portal' = p /\ requests' = (requests \ {r}) \union ({x} \union PutToARead)
    BY <2>3 DEF Turn, p
  <2>5. SameLease(portal')
    BY <2>3, <2>4
  <2>6. JustSent(x) /\ x.kind = "profile" /\ ~EndsSession(x)
    <3>1. LeaseOf(portal') = r.lease /\ portal'.session = portal.session /\ cookie' = portal'.session
      BY <2>1, <2>5, SameLeaseIs DEF SameLease
    <3>2. Unawaited.latest + 1 \in Int /\ Unawaited.latest + 1 <= portal'.latest
      BY <2>1, <2>2, <2>3, <2>4
    <3>3. JustSent(x)
      BY <2>1, <3>1, <3>2, JustSentIs DEF Reads
    <3> QED  BY <2>3, <3>3 DEF EndsSession
  <2> HIDE DEF x
  <2>7. \A y \in PutToARead : JustSent(y) /\ ~IsLoad(y) /\ ~EndsSession(y)
    <3>1. Holding(Unawaited, portal.deferred) => portal.deferred = LeaseOf(portal)
      BY <2>2, SameLeaseIs DEF Holding
    <3>2. \A y \in Asking("refusal", LeaseOf(portal)) : JustSent(y) /\ ~IsLoad(y) /\ ~EndsSession(y)
      BY <2>1, <2>5, AskingSends DEF Askers
    <3> QED  BY <3>1, <3>2 DEF PutToARead
  <2>8. /\ \A y \in {x} \union PutToARead : JustSent(y) /\ ~EndsSession(y)
        /\ \A y \in {x} \union PutToARead : IsLoad(y) => y.kind = "profile"
    BY <2>6, <2>7
  <2>9. Settles({r}, p, {x} \union PutToARead)
    BY <2>4, <2>8 DEF Settles
  <2>10. EndsOnce' /\ \A f \in requests : Resolves(f) => f \notin {r} /\ Resolves(f)'
    BY <1>1, <2>3, <2>8, <2>9, EndsOnceStays
  <2>11. p.latest \in Int /\ \E y \in {x} \union PutToARead : y.kind = "profile" /\ y.number = p.latest
    BY <2>1, <2>3
  <2> QED  BY <2>1, <2>3, <2>8, <2>9, <2>10, <2>11, BeginKeeps
<1> QED  BY <1>2, <1>3

LEMMA FailedTells ==
  ASSUME PortalInv, PortalInv', General, NEW r \in requests, r.answer # NoAnswer,
         cookie' = cookie, cookie' = SetCookie(r), api' = api, r.kind \in {"login", "change"},
         r.answer.is # "ok", portal.replacing \in Nat \ {0}, ~Drops(r), Replaced(r)
  PROVE  General'
<1>1. Holding(Unawaited, r.lease) <=> Mine(r)
  BY UnawaitedIs, SameLeaseIs DEF Mine
<1>2. ReplacementFailed(r)
  BY DEF Replaced
<1>3. CASE Turn(Unawaited, r, PutToARead)
  <2>1. Turn(Unawaited, r, PutToARead \union (IF FALSE THEN Asking("refusal", r.lease) ELSE {}))
    BY <1>3
  <2> QED  BY <2>1, FailedRests
<1>4. CASE /\ r.kind = "change" /\ Mine(r)
           /\ Turn(Unawaited, r, PutToARead \union Asking("refusal", r.lease))
  <2>1. Turn(Unawaited, r, PutToARead \union (IF TRUE THEN Asking("refusal", r.lease) ELSE {}))
    BY <1>4
  <2> QED  BY <1>4, <2>1, FailedRests
<1>5. CASE r.kind = "change" /\ Mine(r) /\ Turn(Load(Unawaited, r.lease), r, PutToARead)
  BY <1>5, FailedLoads
<1> QED  BY <1>1, <1>2, <1>3, <1>4, <1>5 DEF ReplacementFailed, PutToARead

LEMMA ReplacedTells ==
  ASSUME PortalInv, PortalInv', PendingInv, General, NEW r \in requests, r.answer # NoAnswer,
         cookie' = SetCookie(r), api' = api, Replaced(r), ~Drops(r)
  PROVE  General'
<1>1. r.kind \in {"login", "change"}
  BY DEF Replaced
<1>2. CASE r.answer.is = "ok"
  <2>1. cookie' = r.answer.session /\ Brings(r)
    BY <1>1, <1>2 DEF SetCookie, Brings
  <2>2. Turn(AdoptAndLoad(Unawaited, r.answer.session, TRUE), r, {})
    BY <1>2 DEF Replaced, Unawaited
  <2> QED  BY <2>1, <2>2, AdoptTells
<1>3. CASE r.answer.is # "ok"
  <2>1. cookie' = cookie
    BY <1>3, AppliedTells
  <2>2. portal.replacing \in Nat \ {0}
    <3>1. r \in Replacements
      BY <1>1 DEF Replacements, Replaces
    <3>2. Cardinality(Replacements) \in Nat /\ Cardinality(Replacements) # 0
      BY <3>1, FS_CardinalityType, FS_EmptySet DEF PendingInv, Counted
    <3> QED  BY <3>2 DEF PendingInv, Counted
  <2> QED  BY <1>1, <1>3, <2>1, <2>2, FailedTells
<1> QED  BY <1>2, <1>3

\* Whatever answer is applied, in whatever order.
LEMMA ApplyTells ==
  ASSUME PortalInv, PendingInv, General, NEW r \in requests, Apply(r), Undisturbed'
  PROVE  General'
<1>1. PortalInv'
  BY ApplyKeeps
<1>2. ~Drops(r) /\ ~Misleads(r)
  BY DEF Apply, Undisturbed, PendingInv, WithinBounds, Counts
<1> QED  BY <1>1, <1>2, ProfileTells, DetailTells, CheckTells, RefusalTells, PageTells,
            ReplacedTells, LogoutTells, EndingTells, SelectTells DEF Apply

-----------------------------------------------------------------------------
(* The customer. *)

\* A request is sent under the session held.
LEMMA SendKeeps ==
  ASSUME PortalInv, General, cookie' = cookie, api' = api, NEW p, SameLease(p), portal' = p,
         p.screen = portal.screen, p.latest = portal.latest, p.deferred = portal.deferred,
         NEW x, requests' = requests \union {x}, JustSent(x), ~IsLoad(x),
         EndsOnce', \A f \in requests : Resolves(f) => Resolves(f)'
  PROVE  General'
<1> DEFINE gone == {}
           more == {x}
<1>1. Settles(gone, p, more)
  BY DEF Settles
<1>2. Holding(portal, portal.deferred) => RefusalComing'
  BY SameLeaseIs DEF RefusalComing
<1>3. /\ \A y \in more : ~IsLoad(y) /\ y.kind # "detail"
      /\ \A f : f \notin gone
  BY DEF IsLoad
<1> HIDE DEF gone, more
<1> QED  BY <1>1, <1>2, <1>3, RestKeeps DEF General

\* What the customer asks for while somebody is signed in.
Asked == {"change", "logout", "select", "read", "mutation"}
LEMMA AskedIs ==
  ASSUME PortalInv, PortalInv', General, Mounted, cookie' = cookie, SameLease(portal'),
         NEW kind \in Asked
  PROVE  /\ Sent(kind).kind = kind /\ Sent(kind).lease = LeaseOf(portal)
         /\ JustSent(Sent(kind)) /\ ~IsLoad(Sent(kind))
<1>1. portal.session # Nobody /\ cookie = portal.session
  BY DEF Mounted, PortalInv, Anonymous, General, CookieIsTheSessions
<1>2. portal'.session # Nobody /\ cookie' = portal'.session /\ LeaseOf(portal') = LeaseOf(portal)
  BY <1>1, SameLeaseIs DEF SameLease
<1>3. /\ kind \in Reads \union Askers \union Mutations \union {"login"}
      /\ kind \notin {"profile", "detail"} /\ happened.gestures \in Int
      /\ LeaseOf(portal) \in Leases /\ cookie' \in Known
  BY PortalFacts, LeaseIs DEF Asked, Reads, Mutations, PortalInv, Typed, History
<1>4. Sent(kind).kind = kind /\ Sent(kind).lease = LeaseOf(portal)
  BY <1>3, RequestIs DEF Sent
<1>5. JustSent(Sent(kind))
  BY <1>2, <1>3, JustSentIs DEF Sent
<1> QED  BY <1>3, <1>4, <1>5 DEF IsLoad

\* It is sent, and the provider counts it or not.
LEMMA AskTells ==
  ASSUME PortalInv, PortalInv', General, Mounted, NEW p, SameLease(p),
         p.screen = portal.screen, p.latest = portal.latest, p.deferred = portal.deferred,
         p.signingOut = portal.signingOut,
         NEW kind \in Asked \ {"logout"}, NEW w \in Bindings,
         NEW x \in {Sent(kind), [Sent(kind) EXCEPT !.asked = w]}, Gesture(p, {x})
  PROVE  General'
<1>1. /\ portal' = p /\ requests' = requests \union {x} /\ cookie' = cookie /\ api' = api
      /\ SameLease(portal')
  BY NothingBegun DEF Gesture, SameLease
<1>2. kind \in Asked /\ kind # "logout" /\ kind # "ending"
  BY DEF Asked
<1>3. /\ Sent(kind).kind = kind /\ Sent(kind).lease = LeaseOf(portal)
      /\ JustSent(Sent(kind)) /\ ~IsLoad(Sent(kind))
  BY <1>1, <1>2, AskedIs
<1> DEFINE z == Sent(kind)
           y == [z EXCEPT !.asked = w]
<1>4. /\ y.kind = z.kind /\ y.lease = z.lease /\ y.under = z.under /\ y.number = z.number
      /\ y.cookie = z.cookie /\ y.answer = z.answer
  BY DEF Sent, Request
<1>5. x = z \/ x = y
  OBVIOUS
<1> HIDE DEF y, z
<1>6. JustSent(x) /\ ~IsLoad(x) /\ ~EndsSession(x)
  <2>1. JustSent(z) /\ ~IsLoad(z) /\ z.kind = kind
    BY <1>3 DEF z
  <2> QED  BY <1>2, <1>4, <1>5, <2>1 DEF JustSent, IsLoad, Shared, EndsSession
<1>7. Settles({}, p, {x})
  BY <1>1, <1>6 DEF Settles
<1>8. EndsOnce' /\ \A f \in requests : Resolves(f) => Resolves(f)'
  BY <1>6, <1>7, EndsOnceStays
<1> QED  BY <1>1, <1>6, <1>8, SendKeeps

LEMMA SignInTells ==
  ASSUME PortalInv, General, SignIn
  PROVE  General'
<1> DEFINE n == portal.replacing + 1
           p == [portal EXCEPT !.replacing = n]
           x == Sent("login")
<1>1. portal \in Portals /\ Gesture(p, {x})
  BY PortalFacts DEF SignIn
<1> HIDE DEF n
<1>2. /\ SameLease(p) /\ p.screen = portal.screen /\ p.latest = portal.latest
      /\ p.deferred = portal.deferred /\ p.signingOut = portal.signingOut
  BY <1>1 DEF Portals, SameLease
<1> HIDE DEF p
<1>3. portal' = p /\ requests' = requests \union {x} /\ cookie' = cookie /\ api' = api
  BY <1>1, <1>2, NothingBegun DEF Gesture
<1>4. JustSent(x) /\ ~IsLoad(x) /\ ~EndsSession(x)
  BY DEF JustSent, IsLoad, Shared, EndsSession, Sent, Request
<1> HIDE DEF x
<1>5. Settles({}, p, {x})
  BY <1>3, <1>4 DEF Settles
<1>6. EndsOnce' /\ \A f \in requests : Resolves(f) => Resolves(f)'
  BY <1>2, <1>4, <1>5, EndsOnceStays
<1> QED  BY <1>2, <1>3, <1>4, <1>6, SendKeeps

\* No sign-out was pending: the one that begins is the only one under the session held.
LEMMA SignOutTells ==
  ASSUME PortalInv, PortalInv', General, SignOut
  PROVE  General'
<1> DEFINE p == [portal EXCEPT !.signingOut = LeaseOf(portal)]
           x == Sent("logout")
<1>1. portal \in Portals /\ Mounted /\ Gesture(p, {x}) /\ portal.signingOut = NoLease
  BY PortalFacts DEF SignOut
<1>2. /\ SameLease(p) /\ p.screen = portal.screen /\ p.latest = portal.latest
      /\ p.deferred = portal.deferred /\ p.signingOut = LeaseOf(portal)
  BY <1>1 DEF Portals, SameLease
<1> HIDE DEF p
<1>3. portal' = p /\ requests' = requests \union {x} /\ cookie' = cookie /\ api' = api
      /\ SameLease(portal')
  BY <1>1, <1>2, NothingBegun DEF Gesture, SameLease
<1>4. JustSent(x) /\ ~IsLoad(x) /\ x.lease = LeaseOf(portal)
  BY <1>1, <1>3, AskedIs DEF Asked
<1> HIDE DEF x
<1>5. \A y : Mine(y)' <=> Mine(y)
  BY <1>2, <1>3, SameLeaseIs DEF Mine
<1>6. \A f : ~(Mine(f) /\ f.lease = NoLease)
  BY PortalFacts, Constants DEF Mine, Holding, LeaseOf
<1>7. \A y \in requests : ~(EndsSession(y) /\ Mine(y))
  BY <1>1, <1>6 DEF General, EndsOnce
<1>8. EndsOnce'
  BY <1>2, <1>3, <1>4, <1>5, <1>7 DEF EndsOnce, EndsSession
<1>9. \A f \in requests : Resolves(f) => Resolves(f)'
  BY <1>1, <1>6 DEF Resolves, Pending, Mine, Brings
<1> QED  BY <1>2, <1>3, <1>4, <1>8, <1>9, SendKeeps

LEMMA RetryTells ==
  ASSUME PortalInv, PortalInv', General, RetryLoad
  PROVE  General'
<1> DEFINE lease == LeaseOf(portal)
           p == Load(portal, lease)
<1>1. /\ portal' = p /\ requests' = requests \union Begun(p)
      /\ cookie' = cookie /\ api' = api
  BY DEF RetryLoad, Gesture
<1>2. /\ portal.session # Nobody /\ cookie = portal.session /\ cookie \in Known
      /\ portal \in Portals /\ portal.latest \in Nat
      /\ lease \in Leases /\ Holding(portal, lease) /\ lease.session = portal.session
  BY PortalFacts, LeaseIs DEF RetryLoad, General, SignedOut, ShowsNobody, CookieIsTheSessions
<1>3. CASE Holding(portal, portal.inFlight)
  <2>1. portal' = portal /\ requests' = requests
    BY <1>1, <1>3, NothingBegun DEF Load
  <2>2. Settles({}, portal, {}) /\ SameLease(portal)
    BY <1>1, <2>1 DEF Settles, SameLease
  <2>3. EndsOnce' /\ \A f \in requests : Resolves(f) => Resolves(f)'
    BY <2>2, EndsOnceStays
  <2>4. Holding(portal, portal.deferred) => RefusalComing'
    BY <2>1 DEF RefusalComing
  <2> QED  BY <1>1, <2>2, <2>3, <2>4, RestKeeps DEF General
<1>4. CASE ~Holding(portal, portal.inFlight)
  <2> DEFINE x == Request("profile", lease, portal.latest + 1)
  <2>1. /\ SameLease(p) /\ p.latest = portal.latest + 1 /\ portal.latest < p.latest
        /\ p.deferred = portal.deferred /\ p.signingOut = portal.signingOut
        /\ p.screen.status = "authenticated" /\ p.screen.ready /\ ~p.screen.problem
        /\ Begun(p) = {x} /\ x.kind = "profile" /\ x.number = p.latest
    BY <1>1, <1>2, <1>4, LoadBegins DEF SameLease, General, SignedIn
  <2> HIDE DEF p
  <2>2. JustSent(x)
    <3>1. LeaseOf(portal') = lease /\ portal'.session = portal.session /\ cookie' = portal'.session
      BY <1>1, <1>2, <2>1, SameLeaseIs DEF SameLease
    <3>2. portal.latest + 1 \in Int /\ portal.latest + 1 <= portal'.latest
      BY <1>1, <1>2, <2>1
    <3> QED  BY <1>2, <3>1, <3>2, JustSentIs DEF Reads
  <2> HIDE DEF x
  <2>3. Settles({}, p, {x})
    BY <1>1, <2>1, <2>2 DEF Settles
  <2>4. EndsOnce' /\ \A f \in requests : Resolves(f) => Resolves(f)'
    BY <2>1, <2>3, EndsOnceStays DEF EndsSession
  <2> QED  BY <1>1, <1>2, <2>1, <2>3, <2>4, BeginKeeps DEF General
<1> QED  BY <1>3, <1>4

LEMMA GesturesTell ==
  ASSUME PortalInv, General,
         \/ SignIn \/ ChangePassword \/ SignOut \/ RetryLoad
         \/ \E w \in Workspaces : SelectWorkspace(w)
         \/ \E kind \in {"read", "mutation"} : UsePage(kind)
  PROVE  General'
<1>1. PortalInv'
  BY GesturesKeep
<1>2. SameLease(portal)
  BY DEF SameLease
<1>3. CASE ChangePassword
  <2> DEFINE n == portal.replacing + 1
             p == [portal EXCEPT !.replacing = n]
  <2>1. portal \in Portals /\ Gesture(p, {Sent("change")}) /\ Mounted
    BY <1>3, PortalFacts DEF ChangePassword
  <2> HIDE DEF n
  <2>2. /\ SameLease(p) /\ p.screen = portal.screen /\ p.latest = portal.latest
        /\ p.deferred = portal.deferred /\ p.signingOut = portal.signingOut
    BY <2>1 DEF Portals, SameLease
  <2> HIDE DEF p
  <2> QED  BY <1>1, <2>1, <2>2, AskTells, Constants DEF Asked
<1>4. ASSUME NEW w \in Workspaces, SelectWorkspace(w) PROVE General'
  BY <1>1, <1>2, <1>4, AskTells DEF SelectWorkspace, Asked, Bindings
<1>5. ASSUME NEW kind \in {"read", "mutation"}, UsePage(kind) PROVE General'
  BY <1>1, <1>2, <1>5, AskTells, Constants DEF UsePage, Asked
<1> QED  BY <1>1, <1>3, <1>4, <1>5, SignInTells, SignOutTells, RetryTells

\* A page joins a read that another page had sent before: under the session held it is
\* a stranger, and nothing that is listened to has changed.
LEMMA JoinTells ==
  ASSUME PortalInv, General, NEW r \in requests, JoinRead(r)
  PROVE  General'
<1>1. PICK y : /\ requests' = (requests \ {r}) \union {y}
               /\ y \in Awaited /\ y.kind = r.kind /\ r.kind = "read"
               /\ y.lease = LeaseOf(portal) /\ y.under = LeaseOf(portal)
               /\ y.number = r.number /\ y.cookie = r.cookie /\ y.answer = r.answer
  BY JoinIs
<1>2. UNCHANGED <<portal, cookie, api>> /\ ~Mine(r) /\ portal.session # Nobody
  BY DEF JoinRead, Mine, Mounted, PortalInv, Anonymous
<1>3. Proper(r) /\ ~Shared(r) /\ ~Shared(y) /\ LeaseOf(portal).session = portal.session
  BY <1>1 DEF General, Shared, LeaseOf
<1>4. Mine(y) /\ r.cookie # portal.session /\ Stranger(y)
  BY <1>1, <1>2, <1>3 DEF Mine, Holding, Proper, Owned, Stranger
<1>5. Proper(y)
  BY <1>1, <1>2, <1>3, <1>4 DEF Proper, Verdict, Owned, IsLoad, Asker
<1>6. /\ \A x : Proper(x)' <=> Proper(x)
      /\ \A x : IsCurrent(x)' <=> IsCurrent(x)
      /\ \A x : Mine(x)' <=> Mine(x)
      /\ \A x : Resolves(x)' <=> Resolves(x)
      /\ \A x : Selects(x)' <=> Selects(x)
      /\ \A x : Heard(x)' <=> Heard(x)
      /\ \A x : Refused(x)' <=> Refused(x)
      /\ \A x : Tells(x)' <=> Tells(x)
  BY <1>2 DEF Proper, Verdict, Owned, Mine, IsCurrent, Resolves, Selects, Heard, Stranger, Pending,
     Refused, Tells, Bound
<1>7. \A x \in {r, y} : /\ ~IsCurrent(x) /\ ~Resolves(x) /\ ~Selects(x) /\ ~Reconciles(x)
                        /\ ~EndsSession(x) /\ x.kind # "check"
  BY <1>1 DEF IsCurrent, IsLoad, Resolves, Brings, Selects, Reconciles, EndsSession
<1>8. ~Heard(y)
  BY <1>1, <1>4 DEF Heard
<1>9. (CheckComing <=> CheckComing') /\ (LoadComing <=> LoadComing')
      /\ (SelectComing <=> SelectComing') /\ (Resolution <=> Resolution')
  BY <1>1, <1>2, <1>6, <1>7 DEF CheckComing, LoadComing, SelectComing, Resolution
<1>10. \A x : Reconciles(x)' <=> Reconciles(x)
  BY <1>6, <1>9 DEF Reconciles
<1>11. RefusalComing => RefusalComing'
  BY <1>1, <1>2, <1>7, <1>10 DEF RefusalComing
<1>12. UpToDate => UpToDate'
  BY <1>1, <1>2, <1>6, <1>7, <1>9 DEF UpToDate, Bound
<1>13. Alive => Alive'
  BY <1>2, <1>9, <1>12 DEF Alive
<1>14. BornDead => BornDead'
  BY <1>1, <1>2, <1>6, <1>8, <1>9, <1>11 DEF BornDead
<1>15. EndsOnce'
  BY <1>1, <1>2, <1>6, <1>7 DEF General, EndsOnce, EndsSession
<1>16. \A x \in requests' : Proper(x)'
  BY <1>1, <1>5, <1>6 DEF General
<1>17. CookieIsTheSessions' /\ SignedOut' /\ SignedIn'
       /\ (portal.deferred = NoLease \/ portal.deferred.session # Nobody)'
  BY <1>2 DEF General, CookieIsTheSessions, SignedOut, SignedIn
<1> QED  BY <1>2, <1>9, <1>13, <1>14, <1>15, <1>16, <1>17 DEF General

-----------------------------------------------------------------------------
(* The first load, and the theorem. *)

LEMMA GeneralShows == General => portal.screen.status # "loading"
BY DEF General, SignedOut, SignedIn, ShowsNobody

\* The one request of the first load, as it is known to be.
LEMMA FirstIs ==
  ASSUME PortalInv, Starting, NEW r \in requests
  PROVE  /\ FirstLoad(r) /\ requests = {r} /\ r \in Awaited /\ Current(portal, r.lease, r.number)
         /\ portal \in Portals /\ portal.latest = 1 /\ portal.replacing = 0
         /\ portal.deferred = NoLease /\ portal.signingOut = NoLease
         /\ LeaseOf(portal) = [generation |-> portal.generation, session |-> portal.session]
         /\ r.cookie = cookie /\ cookie \in Known
         /\ cookie \in api.live => cookie # Nobody /\ api.bound[cookie] \in Bindings
<1>1. FirstLoad(r) /\ requests = {r}
  BY DEF Starting, FirstLoad
<1>2. r.lease = LeaseOf(portal) /\ r.number = 1 /\ r.cookie = cookie
  BY <1>1 DEF FirstLoad
<1>3. cookie \in api.live => cookie \in Sessions /\ cookie # Nobody /\ api.bound[cookie] \in Bindings
  BY Constants DEF PortalInv, Typed
<1> QED  BY <1>1, <1>2, <1>3, PortalFacts DEF Starting, Current, Holding, LeaseOf

\* It is answered: by what the session is bound to, or by a refusal of no session.
LEMMA FirstServed ==
  ASSUME PortalInv, Starting, NEW r \in requests, Serve(r)
  PROVE  Starting'
<1>1. /\ FirstLoad(r) /\ requests = {r} /\ r \in Awaited /\ r.answer = NoAnswer /\ r.cookie = cookie
      /\ UNCHANGED <<portal, cookie, happened>>
  BY FirstIs DEF Serve
<1>2. PICK v \in Answers : AnswerOf(r, v) /\ Answered(r, v)
  BY ServedIs
<1> DEFINE x == [r EXCEPT !.answer = v]
<1>3. requests' = {x} /\ x.kind = r.kind /\ x.lease = r.lease /\ x.number = r.number
      /\ x.under = r.under /\ x.cookie = r.cookie /\ x.asked = r.asked /\ x.answer = v
  BY <1>1, <1>2 DEF AnswerOf, Awaited
<1> HIDE DEF x
<1>4. r.kind \in {"profile", "detail"} /\ v.is = "unauthenticated" => cookie \notin api'.live
  <2>1. PortalInv'
    BY ServeKeeps
  <2> QED  BY <1>1, <1>3, <2>1 DEF PortalInv, AnswersAreTheServers, Reads
<1>5. CASE r.kind = "profile"
  <2>1. /\ api' = api
        /\ \/ v.is = "unauthenticated" /\ cookie \notin api.live
           \/ /\ v.is = "ok" /\ cookie \in api.live /\ v.session = cookie
              /\ v.workspace = api.bound[cookie]
    BY <1>1, <1>2, <1>4, <1>5 DEF Answered, Unauthentic
  <2> QED  BY <1>1, <1>3, <1>5, <2>1 DEF Starting, FirstLoad
<1>6. CASE r.kind = "detail"
  <2>1. cookie \in api.live /\ r.asked = api.bound[cookie] /\ portal.session = cookie
    BY <1>1, <1>6 DEF FirstLoad
  <2>2. api' = api /\ v.is = "ok" /\ v.workspace = r.asked
    BY <1>1, <1>2, <1>4, <1>6, <2>1 DEF Answered, Unauthentic
  <2> QED  BY <1>1, <1>3, <1>6, <2>1, <2>2 DEF Starting, FirstLoad
<1> QED  BY <1>1, <1>5, <1>6 DEF FirstLoad

\* Nobody is signed in: the refusal is believed.
LEMMA FirstRefused ==
  ASSUME PortalInv, Starting, NEW r \in requests, r.answer.is = "unauthenticated",
         cookie' = SetCookie(r), api' = api, ProfileAnswered(r)
  PROVE  General'
<1>1. /\ FirstLoad(r) /\ requests = {r} /\ r.under = LeaseOf(portal) /\ r.number = 1
      /\ Current(portal, r.under, r.number) /\ Holding(portal, r.under)
      /\ portal \in Portals /\ portal.latest = 1 /\ portal.replacing = 0
      /\ portal.deferred = NoLease /\ r.kind = "profile" /\ cookie \notin api.live
  BY FirstIs, NoAnswerIs DEF FirstLoad, ProfileAnswered, Current, Holding
<1> DEFINE p == Forget(portal)
<1>2. Turn(Finished(p, 1), r, {})
  BY <1>1 DEF ProfileAnswered, LoadFailed, FailLoad, ClearForRefusal
<1>3. /\ p.session = Nobody /\ p.latest = 2 /\ p.deferred = NoLease /\ p.inFlight = NoLease
      /\ ShowsNobody(p.screen)
  BY <1>1, ForgetIsSo, PortalIsGood DEF ForgetsTo
<1> HIDE DEF p
<1>4. portal' = p /\ requests' = {}
  BY <1>1, <1>2, <1>3, NothingBegun DEF Turn, Finished
<1>5. cookie' = cookie
  BY <1>1 DEF SetCookie
<1> QED  BY <1>1, <1>3, <1>4, <1>5
         DEF General, CookieIsTheSessions, SignedOut, SignedIn, EndsOnce

\* A session is found, and claimed.
LEMMA FirstClaims ==
  ASSUME PortalInv, Starting, NEW r \in requests, r.answer.is = "ok",
         cookie' = SetCookie(r), api' = api, ProfileAnswered(r)
  PROVE  Starting'
<1>1. /\ FirstLoad(r) /\ requests = {r} /\ r.under = LeaseOf(portal) /\ r.lease = LeaseOf(portal)
      /\ r.number = 1 /\ Current(portal, r.lease, r.number) /\ portal \in Portals
      /\ portal.latest = 1 /\ portal.replacing = 0 /\ portal.screen = Empty
      /\ portal.deferred = NoLease /\ portal.signingOut = NoLease
      /\ r.kind = "profile" /\ r.answer # NoAnswer
      /\ r.under = [generation |-> 0, session |-> Nobody]
  BY FirstIs, NoAnswerIs DEF FirstLoad, ProfileAnswered, Starting
<1>2. /\ cookie \in api.live /\ r.answer.session = cookie /\ cookie # Nobody /\ cookie \in Known
      /\ r.answer.workspace = api.bound[cookie] /\ r.lease.session = Nobody
  BY <1>1, FirstIs DEF FirstLoad
<1>3. cookie' = cookie
  BY <1>1 DEF SetCookie
<1> DEFINE p == Claim(portal, cookie)
           d == [Request("detail", LeaseOf(p), r.number) EXCEPT
                   !.under = r.under, !.attempt = r.attempt, !.asked = r.answer.workspace]
<1>4. Turn(p, r, {d})
  BY <1>1, <1>2 DEF ProfileAnswered, Identify, DetailOf
<1>5. /\ p.session = cookie /\ p.latest = 1 /\ p.replacing = 0 /\ p.screen = Empty
      /\ p.deferred = NoLease /\ p.signingOut = NoLease
  BY <1>1 DEF Claim, Portals
<1> HIDE DEF p
<1>6. /\ d.kind = "detail" /\ d.lease = LeaseOf(p) /\ d.under = r.under /\ d.number = 1
      /\ d.asked = api.bound[cookie] /\ d.cookie = cookie' /\ d.answer = NoAnswer
  BY <1>1, <1>2 DEF Request
<1> HIDE DEF d
<1>7. portal' = p /\ requests' = {d}
  BY <1>1, <1>4, <1>5, NothingBegun DEF Turn
<1>8. PICK x \in requests' :
        /\ requests' = {x} /\ x.kind = "detail" /\ x.lease = LeaseOf(portal') /\ x.number = 1
        /\ x.under = r.under /\ x.asked = api.bound[cookie] /\ x.cookie = cookie'
        /\ x.answer = NoAnswer
  BY <1>6, <1>7
<1>9. FirstLoad(x)'
  BY <1>1, <1>2, <1>3, <1>5, <1>7, <1>8 DEF FirstLoad
<1> QED  BY <1>5, <1>7, <1>8, <1>9 DEF Starting

\* Its account is shown, and its workspace.
LEMMA FirstShows ==
  ASSUME PortalInv, Starting, NEW r \in requests, r.answer # NoAnswer,
         cookie' = SetCookie(r), api' = api, DetailAnswered(r)
  PROVE  General'
<1>1. /\ FirstLoad(r) /\ requests = {r} /\ r.kind = "detail" /\ r.answer.is = "ok"
      /\ Current(portal, r.lease, r.number) /\ portal \in Portals /\ portal.latest = 1
      /\ portal.deferred = NoLease /\ cookie' = cookie /\ portal.session = cookie
      /\ cookie \in api.live /\ cookie # Nobody /\ r.answer.workspace = api.bound[cookie]
      /\ r.answer.workspace = r.asked
  BY FirstIs DEF FirstLoad, DetailAnswered, SetCookie
<1> DEFINE s == [status |-> "authenticated", ready |-> TRUE, of |-> r.lease.session,
                 names |-> r.asked, workspace |-> r.answer.workspace,
                 loading |-> FALSE, problem |-> FALSE]
           p == [portal EXCEPT !.screen = s]
           q == Finished(p, r.number)
<1>2. Turn(q, r, {})
  BY <1>1 DEF DetailAnswered, Coherent, Publish
<1>3. /\ s.status = "authenticated" /\ s.ready /\ s.workspace = r.answer.workspace
      /\ ~s.loading /\ ~s.problem
  OBVIOUS
<1> HIDE DEF s
<1>4. /\ q.session = portal.session /\ q.latest = portal.latest /\ q.deferred = NoLease
      /\ q.screen = s
  BY <1>1 DEF Finished, Portals
<1> HIDE DEF q
<1>5. portal' = q /\ requests' = {}
  BY <1>1, <1>2, <1>4, NothingBegun DEF Turn
<1>6. UpToDate'
  BY <1>1, <1>3, <1>4, <1>5 DEF UpToDate, Bound
<1>7. Alive'
  BY <1>1, <1>3, <1>4, <1>5, <1>6 DEF Alive
<1> QED  BY <1>1, <1>3, <1>4, <1>5, <1>7
         DEF General, CookieIsTheSessions, SignedOut, SignedIn, EndsOnce

\* Nothing but the first load happens before it has settled.
LEMMA FirstApplied ==
  ASSUME PortalInv, Starting, NEW r \in requests, Apply(r)
  PROVE  Starting' \/ General'
<1>1. FirstLoad(r) /\ r.kind \in {"profile", "detail"} /\ r.answer # NoAnswer
  BY FirstIs DEF FirstLoad, Apply
<1>2. ProfileAnswered(r) \/ DetailAnswered(r)
  BY <1>1 DEF Apply, CheckAnswered, RefusalSettled, PageAnswered, Replaced, LogoutAnswered,
     EndingSettled, SelectAnswered
<1>3. CASE ProfileAnswered(r)
  <2>1. r.answer.is \in {"ok", "unauthenticated"}
    BY <1>1, <1>3 DEF FirstLoad, ProfileAnswered
  <2> QED  BY <1>3, <2>1, FirstRefused, FirstClaims DEF Apply
<1> QED  BY <1>1, <1>2, <1>3, FirstShows DEF Apply

LEMMA NothingIsAskedFirst ==
  ASSUME Starting
  PROVE  ~SignIn /\ ~Mounted /\ ~RetryLoad
BY DEF Starting, Empty, SignIn, Mounted, RetryLoad

LEMMA TruthInit == PortalInit => TruthInv
<1> SUFFICES ASSUME PortalInit PROVE TruthInv
  OBVIOUS
<1>1. PICK r \in requests :
        /\ requests = {r} /\ r.kind = "profile" /\ r.number = 1 /\ r.answer = NoAnswer
        /\ r.cookie = cookie /\ r.lease = LeaseOf(portal) /\ r.under = LeaseOf(portal)
  BY DEF PortalInit
<1>2. LeaseOf(portal) = [generation |-> 0, session |-> Nobody]
  BY DEF PortalInit, LeaseOf
<1>3. FirstLoad(r)
  BY <1>1, <1>2 DEF FirstLoad
<1>4. /\ portal.screen = Empty /\ portal.latest = 1 /\ portal.replacing = 0
      /\ portal.deferred = NoLease /\ portal.signingOut = NoLease
  BY DEF PortalInit
<1> QED  BY <1>1, <1>3, <1>4 DEF TruthInv, Starting, Empty

\* What has been disturbed stays so: while nothing has been, nothing is lost and
\* nothing happens elsewhere.
LEMMA UndisturbedSoFar ==
  ASSUME PendingInv, [PortalNext]_portalVars, Undisturbed'
  PROVE  /\ Undisturbed
         /\ \A r \in requests : ~Lose(r)
         /\ ~Happens("elsewhere")
<1>1. happened \in Counts
  BY DEF PendingInv, WithinBounds
<1>2. ~Happens("losses") /\ ~Happens("elsewhere")
  BY <1>1 DEF Happens, Undisturbed, Counts
<1>3. /\ \A r \in requests : ~Lose(r)
      /\ ~AnotherTabSignsIn /\ ~AnotherTabSignsOut
      /\ \A s \in Sessions : ~SessionEnds(s)
      /\ \A s \in Sessions, w \in Workspaces \union {Unbound} : ~BindingMoves(s, w)
  BY <1>2 DEF Lose, AnotherTabSignsIn, AnotherTabSignsOut, SessionEnds, BindingMoves, Elsewhere
<1>4. \/ happened' = happened
      \/ \E drops, misleads \in BOOLEAN :
           happened' = [happened EXCEPT !.dropped = @ \/ drops, !.misled = @ \/ misleads]
      \/ Happens("gestures")
  <2>1. ASSUME NEW r \in requests, Apply(r)
        PROVE  \E drops, misleads \in BOOLEAN :
                 happened' = [happened EXCEPT !.dropped = @ \/ drops, !.misled = @ \/ misleads]
    BY <2>1 DEF Apply, Drops, Misleads, Deceives, Stranger
  <2> QED
  BY <1>3, <2>1 DEF PortalNext, portalVars, Serve, JoinRead, SignIn, ChangePassword, SignOut, RetryLoad,
     SelectWorkspace, UsePage, Gesture
<1>5. Undisturbed
  BY <1>1, <1>4 DEF Happens, Undisturbed, Counts
<1> QED  BY <1>2, <1>3, <1>5

LEMMA TruthNext ==
  PortalInv /\ PendingInv /\ TruthInv /\ [PortalNext]_portalVars => TruthInv'
<1> SUFFICES ASSUME PortalInv, PendingInv, TruthInv, [PortalNext]_portalVars, Undisturbed'
             PROVE  Starting' \/ General'
  <2>1. Starting' => portal'.screen.status = "loading"
    BY DEF Starting, Empty
  <2>2. General' => portal'.screen.status # "loading"
    BY GeneralShows DEF General, SignedOut, SignedIn, ShowsNobody
  <2> QED  BY <2>1, <2>2 DEF TruthInv
<1>1. /\ Undisturbed
      /\ \A r \in requests : ~Lose(r)
      /\ ~Happens("elsewhere")
  BY UndisturbedSoFar
<1>2. Starting \/ General
  BY <1>1 DEF TruthInv
<1>3. CASE UNCHANGED portalVars
  <2>1. Starting => Starting'
    BY <1>3 DEF portalVars, Starting, FirstLoad
  <2>2. General => General'
    BY <1>3 DEF portalVars, General, CookieIsTheSessions, Proper, Verdict, Owned, Shared, IsLoad,
       Mine, SignedOut, SignedIn, ShowsNobody, EndsOnce, EndsSession, Resolution, Resolves, Brings,
       Pending, Alive, LoadComing, IsCurrent, SelectComing, Selects, UpToDate, Tells, Bound,
       BornDead, Heard, Stranger, Refused, RefusalComing, Reconciles, CheckComing, Asker
  <2> QED  BY <1>2, <2>1, <2>2
<1>4. ASSUME NEW r \in requests, Serve(r) PROVE Starting' \/ General'
  BY <1>2, <1>4, FirstServed, ServeTells
<1>5. ASSUME NEW r \in requests, Apply(r) PROVE Starting' \/ General'
  BY <1>2, <1>5, FirstApplied, ApplyTells
<1>6. CASE \/ SignIn \/ ChangePassword \/ SignOut \/ RetryLoad
           \/ \E w \in Workspaces : SelectWorkspace(w)
           \/ \E kind \in {"read", "mutation"} : UsePage(kind)
  <2>1. ~Starting
    BY <1>6, NothingIsAskedFirst DEF ChangePassword, SignOut, SelectWorkspace, UsePage
  <2> QED  BY <1>2, <1>6, <2>1, GesturesTell
<1>7. ASSUME NEW r \in requests, JoinRead(r) PROVE Starting' \/ General'
  BY <1>2, <1>7, NothingIsAskedFirst, JoinTells DEF JoinRead
<1> QED  BY <1>1, <1>3, <1>4, <1>5, <1>6, <1>7
         DEF PortalNext, AnotherTabSignsIn, AnotherTabSignsOut, SessionEnds, BindingMoves, Elsewhere

LEMMA TruthInvariant == PortalSpec => []TruthInv
BY TruthInit, TruthNext, PortalInvariant, PendingInvariant, PTL DEF PortalSpec

\* When every answer has been applied, in whatever order, the screen has settled and
\* tells what the server knows: who the browser is signed in as, and in which
\* workspace; unless an answer was lost, something happened elsewhere, a refusal that
\* was put off was let go of, or a former session's refusal was believed (adopt, load,
\* clearForRefusal, conclude, select, reads.run).
THEOREM TheScreenTellsTheTruth == PortalSpec => []ScreenTellsTheTruth
<1>1. PortalInv /\ PendingInv /\ TruthInv => ScreenTellsTheTruth
  <2> SUFFICES ASSUME PortalInv, PendingInv, TruthInv, requests = {}, Undisturbed
               PROVE  Settled /\ TellsTheServers
    BY DEF ScreenTellsTheTruth, PortalInv
  <2>1. General
    BY DEF TruthInv, Starting
  <2>2. portal.signingOut = NoLease /\ portal.deferred = NoLease
    <3>1. portal.replacing = 0
      BY FS_EmptySet DEF PendingInv, Counted, Replacements
    <3> QED  BY <3>1 DEF PendingInv, PutOffForOne, SigningOutIsAwaited
  <2>3. CASE portal.session = Nobody
    BY <2>1, <2>2, <2>3 DEF General, SignedOut, ShowsNobody, Settled, TellsTheServers
  <2>4. CASE portal.session # Nobody
    <3>1. ~Holding(portal, portal.deferred)
      BY <2>2, PortalFacts, Constants DEF Holding, LeaseOf
    <3>2. Alive
      BY <2>1, <2>4, <3>1
      DEF General, Resolution, BornDead, LoadComing, RefusalComing
    <3>3. /\ ~portal.screen.loading /\ ~portal.screen.problem
          /\ portal.screen.workspace = Bound /\ portal.session \in api.live
      BY <3>2 DEF Alive, UpToDate, LoadComing, SelectComing
    <3>4. /\ portal.screen.status = "authenticated" /\ portal.screen.ready
          /\ cookie = portal.session
      BY <2>1, <2>4 DEF General, SignedIn, CookieIsTheSessions
    <3>5. portal.screen.of = portal.session
      BY <3>3, <3>4 DEF PortalInv, ShowsOneSession, ShownAsRead
    <3> QED  BY <2>2, <2>4, <3>3, <3>4, <3>5 DEF Settled, TellsTheServers, Bound
  <2> QED  BY <2>3, <2>4
<1> QED  BY <1>1, PortalInvariant, PendingInvariant, TruthInvariant, PTL

=============================================================================
