# firmbatch: models, checks and proofs

firmbatch is two systems in one repository.

- **The v0 prototype** (`control/`, `worker/`, `providers/`, `controller.py`): a control plane on
  SQLite that cuts a batch job into shards and leases them to agents on rented GPU machines, and
  a deadline controller that rents and returns those machines.
- **The hosted control plane** (`control_plane/`, `portal/`): PostgreSQL functions that own every
  security and consistency decision (idempotent mutations with an outbox, lifecycle state
  machines, accounts, sessions, workspaces), a FastAPI layer over them, and a browser portal.

This directory holds TLA+ models of the parts whose steps interleave, fail, are lost and are
retried; the TLC configurations that check them; and TLAPS proofs of what matters most, for every
value of the constants.

    tlc -workers 2 -config Lease_safety.cfg MCLeaseProtocol.tla     # one run
    tlapm PrototypeProofs.tla                                       # one set of proofs

`PROJECT.json` lists the components, the runs, for every checked property a mutant of the model
that breaks it, the source lines of every definition, the hazards and the theorems.

## 1. Inventory of the system

| Part | State it keeps | Operations | What is hard | Where |
|---|---|---|---|---|
| Shard leases: `control/db.py`, `control/app.py`, `worker/agent.py` | `jobs`, `shards` (state, holder, expiry), `results`; the agent's shard, to-do list and stop flag | `claim`, `put_results`, `extend_lease`, `finish_shard`, `reap`, `kill_worker`, `set_job_status`; the agent's loop, heartbeat thread and `post()` with six tries | posts that time out and are served anyway; handlers made of several transactions; a machine lost at any step; leases that lapse under a living agent | `LeaseStore`, `LeaseProtocol`, `BatchJob`, `PrototypeProofs` |
| Worker fleet: `controller.py`, `providers/*`, the `workers` table | the table, the provider's machines, the loop's position | launch, register, heartbeat, retire, scale down, sweep; preemption, `fb chaos` | two writers of one row; rows read once and acted on one by one; failures between creating and recording | `Fleet`, `PrototypeProofs` |
| Billing, status, rates | none (computed from rows) | `bill`, `status`, the controller's arithmetic | floating point over timestamps | not modelled |
| Engines and acceptance checks: `worker/engines.py`, `worker/checks.py` | none | call a model, check a text | pure functions | a free verdict in `LeaseStore` |
| Idempotent mutations and outbox: `idempotency.py`, migration 0002 | business row, claim, event | `execute_idempotent_mutation` | races on two unique indexes; savepoints; lost acknowledgements; callbacks that commit | `IdempotentMutation`, `OnceOnly`, `IdempotentProofs` |
| Lifecycle transitions: migration 0004, `lifecycle.py` | instance row, history, audit, claim, event, provenance | `create_lifecycle_instance`, `transition_lifecycle_instance` | compare-and-swap against a concurrent winner that must be replayed, not refused | `Lifecycle`, `ConditionalMoves`, `LifecycleProofs` |
| Lifecycle definitions: migration 0004 | machine, states, edges, per-row transaction ids | inserts, `publish_lifecycle_machine` | publication against insertion in other transactions | `LifecycleRegistration`, `LifecycleProofs` |
| Accounts, tokens, sessions: migrations 0005 to 0007, `accounts.py` | account (status, epoch, password), tokens, browser sessions, bindings | token requests, verify, recover, login, change password, bound-session operations | row locks in many orders; reads before locks; rows committed while a sweep runs | `AccountPlane`, `AccountProofs` |
| Workspaces, memberships, invitations, credentials: migrations 0005, 0006 | memberships, invitations, credentials, name, cached authority, audit trail | role change, removal, invite, accept, issue, rotate, revoke, rename | two owners demoting one another; invitations accepted twice; authority cached before a lock; cascades over rows that other callers' binds hold | `MembershipPlane`, `MembershipProofs` |
| Preferences and consent: migration 0006, `preferences.py` | the workspace's statement and its acknowledgement | state, acknowledge | two members at once; an edit while another consents | `MembershipPlane` |
| Authenticated context and audit: migration 0003, `auth.py`, `engine.py`, `repositories.py`, `audit.py` | one context row per backend, bindings, revocations, audit entries, the ORM's identity map | bind, provision a tenant, register, revoke, record, read | pooled backends and recycled transaction ids; savepoints; raw SQL; an ORM cache that asks no policy | `AuthContext`, `AuthorityBook`, `AuthProofs` |
| Tenant spine and roles: migrations' grants, `roles.py`, `principal.py`, part of `testing/bootstrap.py` | ACLs, default privileges, memberships of roles | wire, sanitise, migrate up and down, lend the writer to the owner, admit a connection | grants an operator made before or meanwhile; grants on columns; a process that dies while a membership is lent | `RoleWiring`, `SchemaProofs` |
| Disposable databases: `testing/bootstrap.py` | a database, its roles, the identities recorded | create, clean up, tear down | statements that cannot be rolled back; answers lost; names reused by others between check and drop | `DisposableDatabase`, `SchemaProofs` |
| Database engine, configuration, secrets, permission tables | settings | parse and refuse | sequential | not modelled |
| HTTP API: `control_plane/api` | none of its own | one database operation per handler | none beyond it | through the modules above |
| Portal session: `portal/src/auth/session.tsx` | the session held, pending loads, pending sign-out, deferred refusal | load, adopt, reconcile, sign in, change password, sign out, select workspace | responses out of order, against cookies replaced meanwhile | `PortalSession`, `AccountProofs` |
| Portal pages | form state | render | none | not modelled |
| Release publication and deployment: `infra/delivery/delivery.py`, the workflows | image, SBOM and record in a registry and a bucket; main's stops, exceptions and authorizations; saved plans | gate, publish, resume, plan, authorize, apply | stopped between two uploads and re-run; reviewers and protections edited meanwhile; stops merged between plan and apply | `ReleaseAuthority`, `ReleasePublication`, `StagingDelivery`, `ReleaseBook`, `DeliveryProofs` |
| Infrastructure declarations, policy checker, tooling | none | static | none | not modelled |

How the parts meet: the agents and the control plane talk only by HTTP posts (modelled as messages
that may be lost, repeated or late); controller, control plane and `fb` share the SQLite file
(every transaction is an action); the controller and the providers meet in launch and kill; the
hosted control plane's callers meet only in the database (every wait is a row or index lock); the
portal and the API meet in requests that carry a cookie, which other tabs of the browser change;
the delivery workflows meet in the registry, the bucket and the history of main.

## 2. Modules

    LeaseStore <- LeaseProtocol <- MCLeaseProtocol                   BatchJob         (abstract)
    Fleet <- MCFleet
    LeaseProtocol, Fleet <- PrototypeProofs, MCPrototype
    IdempotentMutation <- IdempotentProofs, MCIdempotentMutation     OnceOnly         (abstract)
    Lifecycle, LifecycleRegistration <- LifecycleProofs, MCLifecycle ConditionalMoves (abstract)
    AccountPlane, PortalSession <- AccountProofs
    RoleWiring, DisposableDatabase <- SchemaProofs
    AccountPlane, RoleWiring, DisposableDatabase, PortalSession <- MCAccountsAndRoles
    MembershipPlane <- MembershipProofs, MCMembershipPlane
    AuthContext <- AuthProofs                                        AuthorityBook    (abstract)
    ReleaseAuthority <- ReleasePublication <- StagingDelivery <- DeliveryProofs
                                                                     ReleaseBook      (abstract)
    StagingDelivery, AuthContext <- MCDeliveryAndContext

Where an MC module extends several components, its behaviours are about one of them at a time: the
others stay in an initial or final state. That shares a run, not state. A proof module that extends
two components proves them one after the other.

Operators whose comment starts with "Mutant" or "Faulty variant" are not part of a specification.
Each changes one definition the way a plausible bug would, and `PROJECT.json` names the property
that catches it.

### LeaseStore and LeaseProtocol

`LeaseStore` has one action per SQLite transaction of `control/db.py`; `LeaseProtocol` puts the
agents, their posts (`net`), the handlers in progress (`handlers`) and the reaper around it.

- A post is in `net` until a handler takes it. The client may time out while the handler runs and
  post again (`RetryEarly`), so a post is served any number of times and after its sender has
  stopped waiting. `net` is a set: two waiting copies of one post are one.
- A handler that makes several transactions is in `handlers` between them: `w_claim` leases, may
  find the shard complete, closes it and starts over; `w_results` stores, reads what remains, then
  sets the status. A claim that finds nothing is answered only after a second transaction has
  counted what is outstanding, and leases lapse and are taken in between (`CountOutstanding`).
  `put_results` and the `extend_lease` next to it are one action (nothing reads between them). A
  heartbeat is served and answered at once; that one for a missing row is told to stop is left out,
  no agent being without a row.
- `GiveUp` is `post()` returning `{}` after six tries. For results and done the agent goes on; for
  a claim the answer reads "no shard, nothing outstanding". `gaveUp` remembers that it happened:
  what the code promises of closed shards and of agents sent home it promises until then, and the
  properties say so (`DoneShardsAreAnswered == gaveUp \/ ClosedMeansAnswered`). `BatchJob` is
  implemented either way.
- Time is one flag per lease (has `lease_exp_ts` passed?), set by `Lapse` at any moment.
- Losses, crashes of agents and of the control plane, early retries and give-ups share the budget
  `MaxFaults`. Lapses, kills, cancels, reaping and process restarts are not limited.
- Left out: the events table, attempts counters, timestamps, the text of results.
- Worker ids are recycled by `Boot`, which stands for a replacement machine as well as for systemd
  restarting the process; this only adds behaviours (late posts under a reused id).

### Fleet

The controller's loop with its position and the rows it read, both providers' `launch` and `kill`,
the `workers` table, the provider's machines and the agent's process. The wanted number is any value
between the minimum and the maximum: the rate arithmetic is abstracted to its range. `silent` stands
for `now - last_seen_ts > WORKER_STALE`. `setup`, chosen at the start and never changed, says which
provider is used, which of four kinds of fault may occur and how many ids exist (ids are fresh
uuids; the bound is on launches). Ctrl-C is always possible at the tick, where the loop sleeps, and
elsewhere, the final sweep included, is a fault; so is a call of the database that raises. Either
leaves the loop for the sweep, and the sweep for good (`Escapes`: `except Exception` does not catch
the one, and of the calls of the other stands around the registration alone), with recorded rows
still live. `RunEnds` says
so: the run ends swept, or such a fault cut its sweep short. It is about recorded rows. A machine
launched and not yet registered, or one whose row was marked dead before its kill, is in no live row
when the run is interrupted; the model has both, and for local subprocesses without faults they do
not happen (`EveryMachineHasALiveRow`, `LocalRunsLeaveNothing`). The two properties of the table and
the limit are about local subprocesses without faults (`Undisturbed`): with Verda, the agent's own
registration recreates rows without an instance id even when nothing fails (finding 2). Pid reuse
and the switch between spot and on-demand are not modelled.

### IdempotentMutation and OnceOnly

One caller per database session, each sending one request until it is answered. A call is split
where it takes a new snapshot or may wait: lookup, the callback's insert (with an optional unique
business column), claim, event, commit, acknowledgement, and the two rescues after an
`IntegrityError`. PostgreSQL is modelled by what the function relies on: READ COMMITTED, and a
unique index whose insert waits for an open transaction and is refused by a committed row. A crash
before the commit loses the transaction; one after it loses only the acknowledgement, and the
caller sends the same key again. All callers insert row, claim and event in this order, so no wait
is circular. Several calls in one transaction, writes flushed before the call, and a raw `COMMIT`
by a callback are outside the function's documented contract and outside the model, and so are the
refusals of `append_outbox_event`, after which the caller's whole transaction is gone.

`OnceOnly` is the promise without transactions: a key takes effect at most once, and every answer
is about that effect, a different request's use of the key, or no effect of the caller's own.

### Lifecycle and ConditionalMoves

`transition_lifecycle_instance` at its points of interleaving: resolve, lookup of the claim, the
conditional update with history and audit, the relookup when nothing was updated, claim with
provenance and event, the rescue that rolls the block back, commit. Creation takes no key and cannot
be waited for. One machine version (so a key's name space, which the code derives per version, is
the tenant's); scopes, authorisation and the checks of a request's form are refusals that change
nothing and are left out, and so are the audit row and the event of a creation, which nothing else
reads. An update waits for a held row even when the row has ceased to match. `ConditionalMoves` is
the promise: an instance is where the moves made on it took it, a move is made only from the
position its caller described, a keyed caller is never told it conflicted when its move was made. An
unkeyed caller may be: after a lost acknowledgement it cannot tell.

### LifecycleRegistration

Machine, state and edge inserts, publication and the triggers that seal a published graph, by
several owner sessions with transactions split anyhow; a refused statement aborts. Covers owner
statements in AUTOCOMMIT (a commit after each statement).

### AccountPlane

One account; each member of `Txs` is one transaction running one of ten operations statement by
statement. The row locks are explicit: `FOR UPDATE` on the account, the rows an `UPDATE` touches,
and the `KEY SHARE` lock a new token's or session's foreign key takes on the account. A statement
reads what is committed when it starts; an `UPDATE` matches rows then, visits them in any order
and looks at each again after waiting for it. `Abort` covers a lost client, a timeout and a
deadlock victim. The three updates of `recover`/`change` that only the account's holder can touch
(password, account, bindings) are one step, `Rekey`. Left out: sign-up and purge, expiry, ending
one other session by id, workspaces. One account suffices because no operation touches two.

`bind_session_context` reads the session and then waits for its row without looking at it again;
`Touch` does the same. An operation bound to a session that a recovery has just ended therefore
still goes on, and a credential it issues carries the epoch it reads then. The property is
accordingly about what was committed before the epoch moved.

### MembershipPlane

One workspace: `member`, `invite`, `credential`, the membership each account's `session` is bound
to, the workspace's name and its statement of intended use with its acknowledgement, the
idempotency `claims` and the audit `trail`. Each member of `Txs` is one request in one READ
COMMITTED transaction: the bind of the caller's session, then one of seventeen operations, split
wherever it takes a new snapshot or may wait for a row. Locks are explicit with PostgreSQL's four
strengths: the session row the bind touches, the workspace `FOR UPDATE` of every write, the
caller's own membership `FOR SHARE` of every listing, the membership and the session rows a
removal updates, the invitation rows, and the `KEY SHARE` lock a new membership's foreign key
takes on the workspace. Writes take effect at the commit, with the claim and the trail's entry;
`Abort` leaves nothing.

- The bind reads the session and the membership, and then waits for its session row without
  reading either again; the role it read is `cached`, and the authority re-reads it.
- Replays come where the code puts them: after the authority, before the checks of the target,
  except the owner rule of an invitation, the scopes of a credential to be issued and the
  ownership of one to be rotated, which come first (`Barred`).
- A removal's cascade matches sessions when its `UPDATE` starts, visits them in any order, and
  leaves alone one that was bound elsewhere meanwhile. A session bound while its membership was
  being removed stays bound to it; the next bind drops it. `Init` has such sessions.
- Two reads of one statement's length are one step where nothing can be decided between them: the
  bind's of session and membership. That `accept_invitation` replays when its insert breaks the index
  of the keys is left out: an account has one session here, and two of its acceptances are one after
  the other.
- Scopes are those that tell operations and roles apart; of the issuable ones two, one that members
  hold and one that only managers hold.
- A statement leaves the acknowledgement as it is; an acknowledgement in force is carried along with
  whoever gave it. `TheTrailTellsTheWorkspace` is what an auditor relies on: the name, the
  acknowledgement and the statement are what the last entries of the trail about them say. An entry
  carries bounded details and never the customer's free text, of which it tells only whether there
  is one: `Details` maps a statement to what its entry says, and two statements that differ in the
  note alone have equal entries. The property is about the details.
- Left out: other workspaces and the expected-workspace comparison of 0006, creating a workspace,
  credentials' expiry, the end of sessions (`AccountPlane` has it), several sessions of one
  account, events.

### AuthContext and AuthorityBook

ORM sessions take a pooled backend, begin, bind a credential (or the provisioning of a tenant that
is not there yet), register and revoke credentials, write, read, set savepoints, roll back to them
and commit. The context is one row per backend, marked with the backend's and the transaction's ids.
A crash of the server may make ids come again and loses what was not flushed; a session of
`RawCallers` executes SQL without the Python boundary's checks. Refused statements change nothing
(the caller rolls back) and are the absence of a step. What transactions write is a set of records
that carry the identity they were written under; for audit entries and bindings that is what the
tables say, for a workspace it is history. Savepoints are the Session's own (`begin_nested`), whose
end its listener hears and clears the map; the text `ROLLBACK TO SAVEPOINT` in a caller's own SQL is
not heard, and is outside the model. The registry's `SELECT` and the write of the context are one
step. The identity map is what `session.get()` may answer from without asking a policy.
`AuthorityBook` is the promise: the records grow by whole transactions, each of one genuine
identity, in its own tenant, granting no more than it holds.

### RoleWiring

Privileges as entries (grantee, object, columns or all, privilege), default privileges, memberships,
role attributes and the owner of the entry points, by revision. Actions: each migration up and down
with its grants, the wiring (`harden_database`, `grant_runtime_roles`, the writer's installation
under a membership lent by the administrator on a connection of its own, its return, commit), the
death of the process between any two of them, the check every pooled connection passes, and what an
operator may grant, state, join or alter before and meanwhile (`meanwhile` keeps the last out of
what is promised). Objects no plan tells apart are one object; grant options are left out. The lent
membership's second reading (the roles that inherit it through others) is left out.

### DisposableDatabase

The setup as a sequence of statements each of which may fail before or after it took effect, the
recorded identities (name, OID, marker), and the one disposal path of failed setups and teardowns,
with others dropping and creating the same names between any two steps. The login roles are alike,
so one stands beside the owner. `problems` is what the cleanup reports.

### ReleaseAuthority, ReleasePublication, StagingDelivery and ReleaseBook

`ReleaseAuthority` is what admits a commit: its pull request's reviews (constant), the permission
its reviewers hold now, the attested prerequisites, the protection of the environments.
`ReleasePublication` is the artifact workflow: dispatch on the head of main, re-runs whole or of
the failed jobs, gates, the wait for the environment's reviewer, build, SBOM, push, identity,
record, with `Interrupt` at any point. An image, its digest and its labels are determined by the
attempt that built it, whose number stands for them. `StagingDelivery` adds plan and apply with
the overlay they read from main: stops, exceptions, authorizations, findings of the scan, and a
clock; one of the two runs at a time, beside a publication. Storing a record and completing the
attempt are one step (in between promotion is refused, for a while); gate jobs that no rule tells
apart are one; a plan's or an apply's failed jobs are not re-run but dispatched again.

`DeploymentsWereSanctioned` is about main as the job fetched it when it checked the overlay out. The
docstring of the overlay (`delivery.py:347-358`) and the runbook speak of main at the moment it is
evaluated; a merge after the fetch is not seen by the run in progress. `NoPlanIsAppliedTwice` rests on
every change moving the serial of the stored state. An apply that changes something and then cannot
store its state (`errored.tfstate`, which `staging-apply.yml` tells the operator to recover) is not
modelled. `ReleaseBook` is the promise: one image and one release per commit, each written once.

### PortalSession

The provider of `session.tsx` in one tab: its refs (`generation`, `sessionId`, `latest`,
`inFlight`, `operation`, `replacing`, `deferredRefusal`) and what it shows; the requests it
awaits; the browser's cookie; the sessions the API knows. A request is served at any time with the
cookie it was sent with and its answer applied at any later time, or lost. Each application is one
turn of the event loop with everything the code does synchronously in it, so an action such as
`Replaced` does the adoption and begins the load. Other tabs, other devices and operators change
the cookie and the sessions (`Elsewhere`).

- A shared validity read is one request per generation with its askers waiting beside it. The
  reads of memberships and of the workspace are one request. A refusal that meets a page already
  left is dropped. An aborted sign-out has no effect on the cookie; a cookie that an answer sets and
  what the tab does with the answer are one step.
- The pages' reads are shared by key alone (`lib/requests.ts`, `reads`). A page that mounts under a new
  session and asks what another page is still waiting for joins that read (`JoinRead`): it was sent
  with the former session's cookie, and is settled under the lease of the page that joined. Its 401
  then forgets a session that is live and in the cookie (finding 5). `LiveSessionIsKept` says that
  nothing else does.
- `happened` is history: how much of what `MaxEvents` bounds, whether a refusal that was put
  off has been let go of (`dropped`, set by the step that `Drops` describes), and whether the refusal
  of such a joined read has been believed (`misled`). No step reads it but the bound.
- The screen is kept as far as it says whose account and which workspace: `of` is the session
  whose profile is shown, `names` the workspace that profile names.
- Left out: the teardown of the provider, StrictMode's replays (a second load joins the first),
  the wording of failures, the membership list, the buttons' busy flags.

## 3. Runs

| Run | Instance | Shows |
|---|---|---|
| `Lease_safety` | 3 requests in shards of 2 and 1, 2 agents, chunk 1, one fault or a cancellation, posts may be given up | Until a post is given up, a shard is closed, and an agent sent home, only when its requests (all requests) have results, with the covering invariant that makes it so; whatever happens, the system implements `BatchJob` |
| `Prototype` | the leases: 2 requests, 2 agents, one fault, fairness, until all is answered; the fleet: local, no faults, 3 ids and Verda, all faults, 2 ids, between 1 and 2 workers, fairness | Every request of an uncancelled job is answered; without faults every machine has a live row and the limit holds; with them the run ends after the job with no live row it recorded left, or its sweep was cut short |
| `Lease_giveup_done` | 2 requests, one fault, posts may be given up | **Violation**: a shard is closed unanswered after a given-up results post |
| `Fleet_verda_leak` | Verda, no faults, 2 ids | **Violation**: an instance survives the run |
| `Once` | 3 callers, 2 keys, 3 identities (2 share a unique value), one fault per caller, one assignment of requests of those alike but for names | All or nothing, at most once, the right answer, and an answer for everyone; implements `OnceOnly` |
| `Lifecycle` | registration: 3 sessions, 2 transactions each; then 2 callers, 8 requests, 2 instances, 2 tenants, 2 faults per caller | What is published is one transaction's complete graph and stays so; the record of an instance is whole; implements `ConditionalMoves`; every call is answered |
| `Accounts_and_roles` | 3 transactions, all ten operations; 2 acts of an operator around wirings and migrations; 2 acts of others around a disposable database; a portal with 3 sessions, 2 workspaces and 3 events (at most two gestures; losses, changes elsewhere) | Sessions follow the password, links act once, an advance leaves nothing usable, account-first operations never deadlock; a wiring ends exact, migrations grant nothing, an admitted connection reaches nothing; disposal touches only its own and reports what it leaves; the portal forgets a live session on nothing but the refusal of a former session's read it joined, and otherwise settles on the truth |
| `Membership` | 2 accounts, any roles and memberships, 2 transactions, all seventeen operations, one key | An owner remains; credentials and invitations follow the memberships; an answer rests on authority held at that moment; the trail tells the workspace's name, acknowledgement and, but for the note's text, statement |
| `Membership_circle` | 2 accounts, a removal and a listing | **Violation**: the member's listing and the member's removal wait for one another |
| `Delivery_and_context` | publishing: 2 commits, 3 attempts, 2 reviewers; deploying: 2 released commits, 2 more merges, 2 plans, a clock of 2 values; contexts: 2 sessions, one of them raw and one provisioning, 2 backends, 2 tenants, 2 credentials, 2 transaction ids, 1 savepoint | Every image can be resumed, every record promoted, only sanctioned plans reach Terraform, once each; implements `ReleaseBook`. Nobody acts under another's context, the identity map holds the caller's rows, dead credentials acquire nothing; implements `AuthorityBook` |
| `Portal_first_load` | 1 session, 1 event | **Violation**: the portal stays on its loading screen |
| `Portal_old_answer` | 2 sessions, 2 gestures | **Violation**: a joined read's 401, of the session before a change of password, forgets the new session |

Why these bounds. Two agents and two shards are the least in which a late post meets a shard
somebody else holds, and a third request gives one shard two batches and the other one. One fault is
one loss, crash or given-up post in the middle of everything; a cancellation, which leaves the
leases as they are, is explored without one. A job is followed until what is promised of it has come
about: no later step could undo that, answers are never withdrawn. Three ids let a lost worker be
replaced while another lives; they are used in their order, being fresh uuids. Three callers let a
loser and a third, different request meet at one key. Revisions up to three let the cycle of the
lifecycle graph close. Two transactions make every wait-for circle of two and a third can commit in
the middle of a sweep. A workspace's race is between two requests, and what a third has done before
them is in the initial states, which are all combinations of memberships, roles and stale sessions
of two accounts; requests ask for the roles viewer, member and owner, and admins are there from the
start. Of two that run at once both carry a key or none does: a key nobody else gives is looked up
by nobody else. Three statements, two of which differ in their note alone. `MaxRevision` is above
every revision a request names. `Delivery_and_context` has, of the delivery, two situations, each
bounded where the other is let go: what publication does to unpublished commits, with one thing
wrong at a time (a reviewer without write, or an edited protection), and what deployment does with
two published ones. Its contexts start with one tenant and its first credential; a transaction id
can come again after the crash, which two ids suffice for; a transaction that cannot acquire a
context sets no savepoint, loads nothing and is over before the role gains privileges; four records
are the tenant, its credential and two more. Three events of the portal are a gesture, an answer to
it overtaken by another, and a change elsewhere. Two replacements in flight, a page and a refusal of
the load it asks for need a fourth: that corner was reached by the proof (section 6, portal), not by
the run. Three sessions let a replacement be replaced. Where a proof exists (section 5) the bound
does not matter.

`CHECK_DEADLOCK FALSE` stands where the system really stops: the run is over (`Fleet`), every
caller has its answer (`Once`, `Lifecycle`), every session is closed (the registration), the
database is disposed of, the attempts, plans and merges are used up, the transaction ids are
(`Delivery_and_context`), or nothing is awaited and nobody touches the portal. `AccountPlane` and
`MembershipPlane` stutter once every transaction has ended, and nowhere else.

Each component has a type invariant. It is proved, and therefore left out of the runs.

Symmetry is used in runs without liveness only: over workers, backends, transactions, workspaces,
accounts, and the two statements that differ in their note alone.

## 4. Fairness

- `LeaseProtocol`: weak fairness of each agent's main thread and heartbeat (they are loops), of
  serving a request that is not lost (uvicorn's pool), of the reaper (a 5-second thread), of the
  lapse of leases nobody heartbeats for (time passes), and of `Boot` while the job runs (the
  controller replaces lost workers then, and only then). Nothing is assumed of faults, kills, the
  operator, or the lapse of a lease that is being heartbeaten. A claim that is being repeated is
  not assumed to win.
- `Fleet`: weak fairness of the controller's loop, and of the silence of a worker without process.
- `IdempotentMutation`, `Lifecycle`: weak fairness of each caller's next step. Waiting is the
  absence of an enabled step, so "everyone is answered" also excludes waiting in a circle.
- Liveness of the lease protocol is stated of answers, not of the job's status: if the agent and
  the handler of the last post both die before the status is set, no later post sets it.

## 5. Proofs

All for any values of the constants that satisfy the modules' `ASSUME`s. TLC checked every
invariant on an instance before it was proved.

**PrototypeProofs.** Of the leases, the inductive invariant is `TypeOK`, `NothingClaimedTooEarly` and
`DoneShardsAreAnswered` with `DrainedMeansAnswered`. That closed shards are answered is not
inductive alone, because `finish_shard` checks nothing: it needs that whoever is about to say
"done" (an agent past its last batch, a done post in flight however late, a handler about to close
a shard) speaks of a shard that misses nothing, and that an agent's to-do list and pending post
cover what its shard misses. Answers are never withdrawn, so all of this is monotone, and this is
why late, repeated and reordered posts are harmless. All of it is conditional on `~gaveUp`:
giving up is for good (`GivingUpIsForGood`), so a step into a state where nobody has given up comes
from such a state, and `Lease_giveup_done` shows the condition is needed. `CompletionIsDecidedInTime`
and the refinement `LeasesImplementBatchJob` hold without it: the status is set on a count of
results, not of shards.

Of the fleet, what the controller holds in its hands between two steps: a machine is launched before
it is listed (`LaunchedBeforeListed`), what is being registered or stopped is not in two places
(`InHand`), and the sweep has every live row it recorded before it (`SweepsTheRecorded`), which
gives the safety part of `RunEnds` (`EndedRunsBillNobody`): a run that swept bills nobody, and only
an interrupt or a failing database lets it leave the sweep undone. For local subprocesses without
faults a machine that is up has a live row or is in hand (`UpIsKnown`), and the limit is inductive
only as a sum (`RoomLeft`): live rows, machines up and the one being registered, with the launches
this tick still has to make, never exceed the maximum. The same invariant gives that a local run
leaves no process behind (`LocalRunsLeaveNothing`), which finding 2 refutes of Verda.

**IdempotentProofs.** The invariant adds to the checked ones: a caller at work has nothing
committed; an uncommitted claim is the only one of its key; and why a session is where it is
(`PlacesAreEarned`: its own commit, or the committed row that refused its insert). Refinement of
`OnceOnly`: `Commit` is the only step that takes effect, and every answer step maps to the
hearing its place earns. Every execution enters the three unique indexes in one order, so whoever
holds an entry has come past the insert that waits for it, and of any callers the furthest one is
free to go on (`CallersNeverWaitInACircle`).

**AccountProofs.** The invariant says of each transaction what its locks buy it: an account-first
operation owns the account row wherever it decides anything, nobody else then inserts a token or a
session (their foreign key would wait), so a sweep that matched all live rows leaves none behind;
rows to be ended are locked, so a link that passed its check is live at the commit; a login that
found its epoch unchanged under the lock knows the account's password. Deadlock freedom follows:
whoever of the account-first operations waits, waits for the owner of the account, and the owner
waits for none of them.

Of the portal, the provider's session changes only together with its generation, so a request
whose lease is held was sent when the provider held the session it holds now. The cookie it was
sent with is then this session, or this session is not the browser's any more (`BelievedIsTrue`);
and a refusal was given to a session that had ended (`AnswersAreTheServers`). A refusal that is
listened to is therefore never about a live session the browser sends (`LiveSessionsAreKept`), but
for a page's read sent for another session than the page's own (`Stranger`), of which nothing is
claimed but that it was joined.
A session an answer brings is new to everybody (`NewIsNew`), and a reading applied under the lease
held shows that lease's session (`TheScreenIsOneSessions`). A second invariant, on top of the
first, counts what is awaited: replacements carry distinct numbers of gestures, a refusal is put
off only while one of them is awaited, and a pending sign-out has its answer or its check still to
come under the lease held. Hence the counter's range (`ThePortalIsTyped`), and that nothing stays
pending when nothing is awaited, losses and other tabs included (`NothingStaysPending`).

That an undisturbed portal ends up telling the truth (`TheScreenTellsTheTruth`) needs to know, at
every moment, what is still to come for whatever the screen lacks. `TruthInv` has two phases. Until
the first load has settled it is all there is (`Starting`), and its answer agrees with the server.
Then (`General`) either nobody is held, nobody is shown and the cookie is dead, or a session is held
which is the cookie's, and one of three holds. A replacement or a sign-out has succeeded and its
answer waits (`Resolution`): it will move the portal on. Or the session lives (`Alive`): whatever
loads has a current read on its way, and unless a selection's answer waits, what is shown or what
the current read brings is the binding of now; a selection invalidates every load that read the
binding before, which is why none can bring it back. Or it had ended before it was adopted
(`BornDead`): everything asked under it is refused, and a load, a put off refusal or a validity read
is still to come to say so. That a request listened to was sent with the session held, joined reads
aside, is `Owned`; that only one sign-out is under it, `EndsOnce`. With no request left only `Alive`
with nothing to load remains, or nobody. Each handler is shown to keep this, by what it settles and
sends (`RestKeeps`), by a load it begins (`BeginKeeps`), or by forgetting the session
(`ForgetKeepsTruth`). TLC searched the invariant's instances first: all of them with three gestures,
and 75 million simulated states with seven.

**MembershipProofs.** What each lock buys: whoever holds the workspace alone changes memberships
and roles, so what it counted (the other owners) and looked up (its own role, the target) is so at
its commit; a listing's share of its own membership keeps that role; an acceptance, which does not
lock the workspace, adds a membership only for an invitation whose row it holds, and every other
writer of that row waits. Owners are never made by less than owners, so the owner that is left is
counted by somebody who cannot be wrong. No two transactions ever hold conflicting locks.

The trail (`TheTrailAlwaysTells`): a transaction that writes the name, the statement or the
acknowledgement read them under the workspace's lock, so what it read stays until its commit
(`ReadStays`), and its entry is appended with the change. What the trail says of a field is its
last entry about it; that a nonempty set of positions has a greatest is the one place where
well-foundedness is used.

**LifecycleProofs.** Of the registration: there is one machine row; a transaction's writes carry its name; a
published machine's rows all carry one name; rows are added only to drafts. Whatever is published
was complete for the transaction that wrote it, since nobody else could add a row under its name.
Of the transitions: every revision of an instance has exactly one history row, made from where
the row before it led (`MoveOfAPath`), and a key's claim names the move made under it. A caller's
place says what its transaction has written and what was committed when it looked. The refinement
maps the commit to the move; a conflict answered to a keyed caller is shown to be about a position
somebody else changed. The row is taken before the key, whatever the call, so calls do not
deadlock (`MovesNeverWaitInACircle`).

**AuthProofs.** A context row is read only with the backend's id and the transaction's id, both, and a
crash never leaves a pair in the relation that a new transaction would also have: the relation is
unlogged, and comes back empty. Layers of savepoints carry
their own records and all of a transaction's layers are one identity's, because binding twice is
refused while the first is visible and what a rollback undid takes its records along.

**DeliveryProofs.** An attempt that pushes described the image first, so a tagged image always has
its SBOM and comes from an attempt whose own gates succeeded; a record repeats what the registry
and the attempt say, and what promotion asks of a record was asked before it was written. Plans
and applies read main as their own job fetched it; the serial of Terraform's state ends a plan.

**SchemaProofs.** Of the roles, what a wiring has written so far (`GrantedSoFar`): at each of its
steps the entries are the plan's or were granted by somebody else after it had looked, so its
commit makes exactly the plan; the entry points are the writer's and nobody has joined it but
meanwhile (`WriterSoFar`), and nobody owns them before the revision that creates them
(`WriterSince`). That an admitted connection reaches nothing needs no history: the check itself is
shown to be enough, whatever the privileges are. Assumed of the operator: he grants privileges
that exist, and column privileges on tables only (`OperatorAssumption`).

Of a disposable database: OIDs in use were given out (`Issued`); a role this process made and left
is recorded, and a recorded role OID is its own or nobody's; the owner role outlives its database,
which depends on it; and what the cleanup has passed is gone or reported (`WhatIsReported`). The
cleanup is thereby honest, and careful: what it drops or renames is its own, whatever others do
with the names between two of its statements.

**Only model-checked.** All liveness: fairness and `ENABLED` are out of this prover's reach. That
nobody waits in a circle, which `EveryCallerIsAnswered` and `EveryCallIsAnswered` rest on, is
proved; that whoever is free goes on is the fairness TLC assumes. Every
invariant and every action property of the runs, and every refinement's safety part, is stated by
a theorem.

## 6. Findings

1. `Lease_giveup_done`: `post()` gives a results batch up after six tries, the agent posts `done`
   all the same, and `finish_shard` closes the shard; its unanswered requests are never handed out
   again. `worker/agent.py:6-8` says everything finished is already on the control plane.
2. `Fleet_verda_leak`: the agent's own registration carries no instance id and overwrites the one
   the controller recorded with NULL; `VerdaProvider.kill` then returns at once, and the instance
   stays. This happens without any fault.
3. `Membership_circle`: the bind's `UPDATE` of `last_seen_at` (0005:1559) keeps the session row
   locked for the whole transaction; a removal holds the workspace and the membership when its
   cascade updates that membership's sessions. A listing or a write of the member being removed
   holds the first and waits for the second. 0005:750-752 names lock upgrades as "the one way to
   deadlock two transactions here", and test_identity_concurrency.py:398 says "the bind takes no
   lock". An acceptance and the revocation of its invitation close a circle of the same kind.
   PostgreSQL ends one of the two; nothing is lost.
4. `Portal_first_load`: the first load claims the session it finds (session.tsx:619), which moves
   the generation; when the membership or the workspace read then fails, `failLoad` is called with
   the lease the load began with (660), which is not current, and returns. `ready` stays false and
   the portal shows "Loading…" with no retry. session.tsx:78 says `ready` is "True once the first
   `GET /v1/account` has settled, so a guard can stop flashing.", and 588-589 that "an indefinite
   spinner helps nobody".
5. `Portal_old_answer`: a page's read is shared by its key, which names no session
   (`lib/requests.ts:144`; "sessions" at `account.tsx:159`, "workspace:…" at `team.tsx:108`), while the
   page's ticket takes the lease of the moment it asks. While a change of password is on its way the
   customer opens a page whose read reaches the API after the old session has ended; the new session
   is adopted; the page is opened again and joins the read; its 401 is reconciled under the new lease
   and forgets a session that is live and in the cookie. session.tsx:499-501 says that "there is no
   old answer that could still be applied: every one of them now fails its lease", and
   `requests.ts:10-12` that such a completion must be inert.

Observations that are modelled as they are, with no check that says otherwise:

- Leases and fleet: a given-up claim reads as "nothing outstanding" (`agent.py:150`);
  `put_results` lets a later rejected verdict replace an accepted one (`db.py:241`); a completion
  decided before a cancel overwrites it (`app.py:107`); Verda's price is 0 in the start-up script
  of the first machine (`verda.py:110`); `fb chaos` makes its own provider object, which knows no
  subprocess (`fb.py:112-130`).
- Accounts: two first token requests that run at once leave two live tokens (0005:853-855 speaks
  of one), which an advance of the epoch ends both. `identity_issue_token` supersedes the old
  token, keeping its row, and then needs the account row for the new token's foreign key, which a
  recovery holds while it waits for that token; PostgreSQL ends one of them. 0006:137-140 says the
  issuer never waits on anything another writer holds while holding anything that writer wants.
  `WritersNeverWaitInACircle` is accordingly about the operations that lock the account first.
- Delivery: the approval a release record carries is the attempt's, frozen when it was gathered,
  while the docstring of the resumption (`delivery.py:1163-1167`), ADR 0012 and the runbook
  (`staging-delivery.md:103`) describe a retry that agrees with the record already there.
- Roles and databases: `except Exception` does not catch `KeyboardInterrupt`, so an interrupted
  setup leaves its objects without a report (`NothingIsLeftSilently` is about failures); the
  message of a failed setup says its objects have been removed where the cleanup may only have
  reported them; the downgrade of 0004 leaves the writer's grants if an operator changed its
  attributes.
- Portal: a mutation's 401 whose validity read finds another tab's session adopts it as a
  replacement of this account's own (`checkAmbiguous`, session.tsx:744), so the former account
  stays on screen while it is read, against the comment of `adopt` (512-515); a load refused while
  a replacement is in flight is deferred with `loading` true, and stays so when the replacement
  fails and the validity read cannot tell.
- Portal: of several replacements in flight the first to fail clears the deferred refusal and asks
  nothing, because others are still counted (session.tsx:778-780), and the last finds none to
  decide. The load that was refused meanwhile has told nobody: the screen stays loading with no
  request awaited, and offers no retry (only a problem does). session.tsx:123-124 says of such a
  refusal "the replacement's outcome settles it: adopted, the refusal is moot; failed, one bounded
  read decides". The attempt to prove `ScreenTellsTheTruth` failed at this step, since a session
  can have ended before it was adopted; TLC then found the same with one session, two changes of
  password, a page whose forbidden answer begins the load, and a sign-out in another tab.
  `ScreenTellsTheTruth` therefore excludes behaviours in which a refusal was dropped, as it does
  losses, changes elsewhere and the refusal of finding 5.

## 7. Plan

Built, in this order: leases (the core of v0), fleet, idempotent mutations, lifecycle transitions
and definitions, accounts, workspaces with preferences, authenticated context, delivery, roles,
disposable databases, the portal's session; with proofs of all of them. What would come next:

1. What the portal's screen tells after a change elsewhere that one of its answers has told it of.
2. Several workspaces in `MembershipPlane`, with the expected-workspace comparison and the portal
   pages' tickets.

## 8. Not modelled, and why

Sequential parsing and refusal (configuration, engine set-up, permission tables, hashing,
redaction); floating-point arithmetic over clocks (rates, bills); declarations (tables, Terraform)
and static checkers over them, among them `terraform/policy/check.py`, one long pure function of a
plan; rendering; repository tooling. None has steps that interleave or state that outlives a call.
Database features the functions rely on (row locks, unique indexes, snapshots, atomic commit) and
what GitHub, the registry and the bucket answer are assumed to work as documented, and modelled
as such.
