------------------------- MODULE IdempotentMutation -------------------------
(***************************************************************************)
(* execute_idempotent_mutation (control_plane/db/idempotency.py): a        *)
(* business change, the claim of its idempotency key and one linked outbox *)
(* event, committed together or not at all, by callers that race and       *)
(* retry.  Each caller is one database session; PostgreSQL is modelled by  *)
(* what the function relies on, READ COMMITTED and unique indexes: a read  *)
(* sees what is committed when it runs, an insert waits while another open *)
(* transaction holds the same unique entry, and it is refused when that    *)
(* entry is committed.                                                     *)
(***************************************************************************)
EXTENDS Naturals

CONSTANTS
  Clients,      \* callers; each keeps retrying one request until it is answered
  Keys,         \* idempotency keys (of one tenant and one operation)
  Identities,   \* what can be asked for; stands for its fingerprint
  Slugs,        \* values of a unique column of the business table
  SlugOf,       \* the unique value a request's row takes, or NoSlug
  NoSlug,       \* the row of such a request has no unique column
  MaxFaults,    \* bound on crashes and lost acknowledgements
  NoReply

ASSUME MutationAssumption == /\ SlugOf \in [Identities -> Slugs \cup {NoSlug}]
                             /\ NoSlug \notin Slugs
                             /\ MaxFaults \in Nat

Requests == [key : Keys, identity : Identities]

\* One execution of a caller's request: its number makes its row distinct
\* from the row of an earlier execution by the same caller.
Attempts == [client : Clients, try : 0..MaxFaults]

VARIABLES
  request,   \* [Clients -> Requests]
  pc,        \* [Clients -> Places]: where the caller's session is
  try,       \* [Clients -> 0..MaxFaults]: faults this caller has met
  mine,      \* [Clients -> SUBSET Tables]: its open transaction's own inserts
  rows,      \* attempts whose business row is committed
  claims,    \* attempts whose claim is committed
  events,    \* attempts whose linked outbox event is committed
  reply      \* [Clients -> the answer the caller got, or NoReply]

vars == <<request, pc, try, mine, rows, claims, events, reply>>

Tables == {"row", "claim", "event"}
Places == {"lookup", "mutate", "claim", "append", "commit", "acknowledge",
           "rescueRow", "rescueClaim", "answered"}

Result(attempt) == [kind |-> "result", of |-> attempt]
Conflict == [kind |-> "conflict"]
Refused == [kind |-> "refused"]         \* the callback's own error, raised on
Constraint == [kind |-> "constraint"]   \* an IntegrityError, raised on
Broken == [kind |-> "broken"]           \* a claim without its event, or a lost
                                        \* claim race with no winner to be seen

\* "No answer yet" is not itself an answer.
ASSUME NoReplyAssumption == NoReply \notin {Conflict, Refused, Constraint, Broken}

Attempt(c) == [client |-> c, try |-> try[c]]
KeyOf(attempt) == request[attempt.client].key
Slug(attempt) == SlugOf[request[attempt.client].identity]

SameKey(a, b) == KeyOf(a) = KeyOf(b)
SameSlug(a, b) == Slug(a) = Slug(b) /\ Slug(a) # NoSlug

\* The unique indexes that bear on each table.
Collides(table, a, b) ==
  CASE table = "row" -> SameSlug(a, b)
    [] table = "claim" -> SameKey(a, b)
    [] table = "event" -> a = b

Committed(table) ==
  CASE table = "row" -> rows [] table = "claim" -> claims [] table = "event" -> events

\* Another open transaction holds the unique entry c would insert.
Blocked(c, table) ==
  \E d \in Clients \ {c} : table \in mine[d] /\ Collides(table, Attempt(c), Attempt(d))

\* A committed row holds it: the insert raises IntegrityError.
Taken(c, table) == \E a \in Committed(table) : Collides(table, Attempt(c), a)

\* _load_record: the claim for c's key, as the statement's fresh snapshot sees it.
ClaimsOfKey(c) == {a \in claims : SameKey(a, Attempt(c))}

\* Faulty variant of Replay: the fingerprint is not compared.
ReplayUnchecked(c) == Result(CHOOSE a \in ClaimsOfKey(c) : TRUE)

\* _replay: the fingerprints must agree, and the claim must have its event.
Replay(c) ==
  LET claim == CHOOSE a \in ClaimsOfKey(c) : TRUE IN
  IF request[claim.client].identity # request[c].identity THEN Conflict
  ELSE IF claim \in events THEN Result(claim) ELSE Broken

Init ==
  /\ request \in [Clients -> Requests]
  /\ pc = [c \in Clients |-> "lookup"]
  /\ try = [c \in Clients |-> 0]
  /\ mine = [c \in Clients |-> {}]
  /\ rows = {} /\ claims = {} /\ events = {}
  /\ reply = [c \in Clients |-> NoReply]
-----------------------------------------------------------------------------
GoTo(c, place) == pc' = [pc EXCEPT ![c] = place]

Stored == <<rows, claims, events>>

\* c's transaction commits what it wrote, and holds nothing any more.
Publish(c) ==
  LET Written(table) == IF table \in mine[c] THEN {Attempt(c)} ELSE {} IN
  /\ rows' = rows \cup Written("row")
  /\ claims' = claims \cup Written("claim")
  /\ events' = events \cup Written("event")
  /\ mine' = [mine EXCEPT ![c] = {}]

Discard(c) == mine' = [mine EXCEPT ![c] = {}] /\ UNCHANGED Stored

\* The function returns and authenticated_transaction commits, or it raises
\* and the transaction is rolled back; either way the caller has its answer.
Answer(c, answer) ==
  /\ reply' = [reply EXCEPT ![c] = answer]
  /\ GoTo(c, "answered")
  /\ IF answer.kind = "result" THEN Publish(c) ELSE Discard(c)
  /\ UNCHANGED <<request, try>>

\* The claim is looked up before anything is written.
Lookup(c) ==
  /\ pc[c] = "lookup"
  /\ IF ClaimsOfKey(c) # {} THEN Answer(c, Replay(c))
     ELSE GoTo(c, "mutate") /\ UNCHANGED <<request, try, mine, Stored, reply>>

\* An insert inside the savepoint.  When it is refused, nested.rollback()
\* takes out everything the savepoint wrote.
Insert(c, table, next, rescue) ==
  /\ ~Blocked(c, table)
  /\ IF Taken(c, table)
       THEN GoTo(c, rescue) /\ Discard(c)
       ELSE /\ GoTo(c, next)
            /\ mine' = [mine EXCEPT ![c] = @ \cup {table}]
            /\ UNCHANGED Stored
  /\ UNCHANGED <<request, try, reply>>

Mutate(c) == pc[c] = "mutate" /\ Insert(c, "row", "claim", "rescueRow")
Claim(c) == pc[c] = "claim" /\ Insert(c, "claim", "append", "rescueClaim")
AppendEvent(c) == pc[c] = "append" /\ Insert(c, "event", "commit", "rescueClaim")

\* The callback raises, before or after it wrote its row, or its outcome is
\* not bounded metadata.
MutationFails(c) == pc[c] \in {"mutate", "claim"} /\ Answer(c, Refused)

\* Faulty variant of MutationCommits: nothing stops the commit.
MutationCommitsUnguarded(c) ==
  /\ pc[c] = "claim"
  /\ Publish(c)
  /\ GoTo(c, "answered")
  /\ reply' = [reply EXCEPT ![c] = Refused]
  /\ UNCHANGED <<request, try>>

\* The callback reaches the Session and calls commit(): the listener raises
\* before anything is committed.
MutationCommits(c) == pc[c] = "claim" /\ Answer(c, Refused)

\* The savepoint is released and the caller's transaction commits.
Commit(c) ==
  /\ pc[c] = "commit"
  /\ Publish(c)
  /\ GoTo(c, "acknowledge")
  /\ UNCHANGED <<request, try, reply>>

Acknowledge(c) == pc[c] = "acknowledge" /\ Answer(c, Result(Attempt(c)))

\* Faulty variant of Rescue: the key is read until its claim shows up.
RescueAwaitsAClaim(c) ==
  /\ pc[c] \in {"rescueRow", "rescueClaim"}
  /\ ClaimsOfKey(c) # {}
  /\ Answer(c, Replay(c))

\* After an IntegrityError the key is read again: whoever holds it now is
\* replayed, and if it is free the constraint was the caller's own.
Rescue(c) ==
  /\ pc[c] \in {"rescueRow", "rescueClaim"}
  /\ Answer(c, IF ClaimsOfKey(c) # {} THEN Replay(c)
               ELSE IF pc[c] = "rescueClaim" THEN Broken ELSE Constraint)

\* The caller's process or its connection dies: an open transaction is rolled
\* back, a committed one stays although nobody heard of it, and the caller
\* sends the request again under the same key.
Fails(c) ==
  /\ pc[c] # "answered"
  /\ try[c] < MaxFaults
  /\ try' = [try EXCEPT ![c] = @ + 1]
  /\ Discard(c)
  /\ GoTo(c, "lookup")
  /\ UNCHANGED <<request, reply>>

Step(c) ==
  \/ Lookup(c) \/ Mutate(c) \/ Claim(c) \/ AppendEvent(c)
  \/ MutationFails(c) \/ MutationCommits(c)
  \/ Commit(c) \/ Acknowledge(c) \/ Rescue(c)

Next == \E c \in Clients : Step(c) \/ Fails(c)

Spec == Init /\ [][Next]_vars

\* Every caller's process keeps running.
FairSpec == Spec /\ \A c \in Clients : WF_vars(Step(c))
-----------------------------------------------------------------------------
Answers == [kind : {"result"}, of : Attempts]
             \cup {Conflict, Refused, Constraint, Broken, NoReply}

\* The variables have their types, and a session's place tells exactly what
\* its open transaction has written.
TypeOK ==
  /\ request \in [Clients -> Requests]
  /\ pc \in [Clients -> Places]
  /\ try \in [Clients -> 0..MaxFaults]
  /\ mine \in [Clients -> SUBSET Tables]
  /\ rows \subseteq Attempts /\ claims \subseteq Attempts /\ events \subseteq Attempts
  /\ reply \in [Clients -> Answers]
  /\ \A c \in Clients : mine[c] = CASE pc[c] = "claim" -> {"row"}
                                    [] pc[c] = "append" -> {"row", "claim"}
                                    [] pc[c] = "commit" -> Tables
                                    [] OTHER -> {}

\* A business change is durable exactly when its claim and its event are: no
\* crash, lost race or escaping callback leaves one without the others.
AllOrNothing == rows = claims /\ claims = events

\* Under one key at most one attempt ever takes effect, whoever races and
\* however often a caller whose acknowledgement was lost sends it again.
AtMostOnce == \A a, b \in rows : SameKey(a, b) => a = b

\* An IntegrityError reaches the caller only for a row of some other key: a
\* caller that lost the race for its own key, on whichever index, is replayed.
AConstraintIsAnothers ==
  \A c \in Clients :
    reply[c] = Constraint =>
      \E a \in rows : SameSlug(a, Attempt(c)) /\ ~SameKey(a, Attempt(c))

\* What the callers see is the promise: see OnceOnly.
Promise == INSTANCE OnceOnly WITH
  effects <- rows,
  reply <- [c \in Clients |-> IF reply[c] = Constraint THEN Refused ELSE reply[c]]
ImplementsOnceOnly == Promise!Spec

\* Every caller is answered in the end: nobody waits forever for an index
\* entry held by somebody who waits or is gone.
EveryCallerIsAnswered == \A c \in Clients : <>(reply[c] # NoReply)
=============================================================================
