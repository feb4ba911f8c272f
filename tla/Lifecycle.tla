------------------------------ MODULE Lifecycle ------------------------------
(***************************************************************************)
(* create_lifecycle_instance and transition_lifecycle_instance, the two    *)
(* database functions every lifecycle change goes through (migration 0004  *)
(* and control_plane/db/lifecycle.py): a compare-and-swap on the instance  *)
(* with its history, audit, claim, outbox and provenance rows, called by   *)
(* sessions that race for an instance or for an idempotency key and retry. *)
(* A call is split where it takes a new snapshot or may wait: READ         *)
(* COMMITTED gives each statement its own, an UPDATE waits for the         *)
(* transaction that holds the row and then looks at it again, and an       *)
(* insert waits for the transaction that holds its unique entry.           *)
(* All instances run one published machine version, so that a key's name   *)
(* space, which the code derives per machine version, is the tenant's.     *)
(***************************************************************************)
EXTENDS Naturals, FiniteSets

CONSTANTS
  Callers,     \* sessions; each keeps sending one request until it is answered
  Instances, States, Keys, Tenants,
  Requests,    \* what may be asked: records of the set AnyRequest below
  Initial, Edges, Terminal,   \* the machine version
  TenantOf,    \* [Instances -> Tenants]: who owns an instance
  NoKey,       \* the key of an internal transition
  MaxFaults,   \* bound on the failures each caller meets
  MaxRevision, \* above every revision an instance reaches
  Absent,      \* no such row
  NoReply

AnyRequest == [tenant : Tenants, instance : Instances, state : States,
               revision : 0..MaxRevision, target : States, key : Keys \cup {NoKey}]
Row == [state : States, revision : 0..MaxRevision]

ASSUME LifecycleAssumption ==
  /\ Initial \in States /\ Edges \subseteq States \X States /\ Terminal \subseteq States
  /\ TenantOf \in [Instances -> Tenants]
  /\ Requests \subseteq AnyRequest
  /\ \A r \in Requests : r.revision < MaxRevision
  /\ NoKey \notin Keys
  /\ Absent \notin Row
  /\ MaxFaults \in Nat /\ MaxRevision \in Nat

Attempts == [caller : Callers, try : 0..MaxFaults]

VARIABLES
  request,   \* [Callers -> Requests]
  pc,        \* [Callers -> Places]: where the call is
  try,       \* [Callers -> 0..MaxFaults]: failures met so far
  seen,      \* [Callers -> Row \cup {Absent}]: the instance as the call read it
  mine,      \* [Callers -> SUBSET Tables]: what its open transaction has written
  instance,  \* [Instances -> Row \cup {Absent}]: committed lifecycle_instances
  table,     \* [Records -> SUBSET Attempts]: the other committed rows
  reply      \* [Callers -> the answer the caller got, or NoReply]

vars == <<request, pc, try, seen, mine, instance, table, reply>>

\* The rows a move leaves beside the instance's own.
Records == {"history", "audit", "event", "claim", "provenance"}
Tables == Records \cup {"instance"}
Places == {"resolve", "lookup", "update", "relookup", "claim", "rescue", "commit",
           "acknowledge", "answered"}

Made(attempt) == [kind |-> "result", of |-> attempt]
Conflict == [kind |-> "conflict"]
KeyReuse == [kind |-> "key reuse"]
NotAllowed == [kind |-> "not allowed"]
Broken == [kind |-> "broken"]   \* a claim without verifiable provenance, or a
                                \* lost claim race with no winner to be seen

Attempt(c) == [caller |-> c, try |-> try[c]]
Wanted(attempt) == request[attempt.caller]

Keyed(r) == r.key # NoKey
SameKey(r, s) == Keyed(r) /\ r.key = s.key /\ r.tenant = s.tenant
Allowed(from, to) == <<from, to>> \in Edges /\ from \notin Terminal

\* The caller's tenant owns the instance: row security shows it no other.
Visible(c) == TenantOf[request[c].instance] = request[c].tenant

\* The position the caller described.
Expected(c) == [state |-> request[c].state, revision |-> request[c].revision]

\* lifecycle_replay_claim.  The fingerprint covers everything in the request.
ClaimsFor(c) == {a \in table["claim"] : SameKey(Wanted(a), request[c])}
Replay(c) ==
  LET claim == CHOOSE a \in ClaimsFor(c) : TRUE IN
  IF claim \notin table["provenance"] \cap table["history"] \cap table["event"] THEN Broken
  ELSE IF Wanted(claim) # request[c] THEN KeyReuse
  ELSE Made(claim)

\* Another open transaction holds the instance's row, or the key's entry.
RowIsHeld(c) ==
  \E d \in Callers \ {c} : "instance" \in mine[d] /\ request[d].instance = request[c].instance
KeyIsHeld(c) ==
  \E d \in Callers \ {c} : "claim" \in mine[d] /\ SameKey(request[d], request[c])

Init ==
  /\ request \in [Callers -> Requests]
  /\ pc = [c \in Callers |-> "resolve"]
  /\ try = [c \in Callers |-> 0]
  /\ seen = [c \in Callers |-> Absent]
  /\ mine = [c \in Callers |-> {}]
  /\ instance = [i \in Instances |-> Absent]
  /\ table = [t \in Records |-> {}]
  /\ reply = [c \in Callers |-> NoReply]
-----------------------------------------------------------------------------
GoTo(c, place) == pc' = [pc EXCEPT ![c] = place]
Stored == <<instance, table>>

\* The instance as c's UPDATE leaves it.
Moved(c) == [state |-> request[c].target, revision |-> request[c].revision + 1]

Publish(c) ==
  /\ instance' = IF "instance" \in mine[c]
                   THEN [instance EXCEPT ![request[c].instance] = Moved(c)] ELSE instance
  /\ table' = [t \in Records |-> IF t \in mine[c] THEN table[t] \cup {Attempt(c)} ELSE table[t]]
  /\ mine' = [mine EXCEPT ![c] = {}]

Discard(c) == mine' = [mine EXCEPT ![c] = {}] /\ UNCHANGED Stored

\* The call returns and its transaction commits, or it raises and the
\* transaction is rolled back.
Answer(c, answer) ==
  /\ reply' = [reply EXCEPT ![c] = answer]
  /\ GoTo(c, "answered")
  /\ IF answer.kind = "result" THEN Publish(c) ELSE Discard(c)
  /\ UNCHANGED <<request, try, seen>>

\* create_lifecycle_instance, whole: nobody else can be in its way.
Create(i) ==
  /\ instance[i] = Absent
  /\ instance' = [instance EXCEPT ![i] = [state |-> Initial, revision |-> 0]]
  /\ UNCHANGED <<request, pc, try, seen, mine, table, reply>>

\* The instance is read, inside the caller's tenant.  One that is not there
\* is a conflict like any other, and no claim is looked for.
Resolve(c) ==
  /\ pc[c] = "resolve"
  /\ LET row == instance[request[c].instance] IN
       IF Visible(c) /\ row # Absent
         THEN /\ seen' = [seen EXCEPT ![c] = row]
              /\ GoTo(c, "lookup")
              /\ UNCHANGED <<request, try, mine, Stored, reply>>
         ELSE Answer(c, Conflict)

\* A settled key is replayed.  Otherwise the expectation is compared with the
\* row that was read, and only a caller that described it is told of the graph.
Lookup(c) ==
  /\ pc[c] = "lookup"
  /\ IF ClaimsFor(c) # {} THEN Answer(c, Replay(c))
     ELSE IF seen[c] = Expected(c) /\ ~Allowed(request[c].state, request[c].target)
       THEN Answer(c, NotAllowed)
     ELSE /\ GoTo(c, IF seen[c] = Expected(c) THEN "update" ELSE "relookup")
          /\ UNCHANGED <<request, try, seen, mine, Stored, reply>>

\* Faulty variant of Update: the row is written because it was right when read.
UpdateUnconditional(c) ==
  /\ pc[c] = "update"
  /\ ~RowIsHeld(c)
  /\ mine' = [mine EXCEPT ![c] = {"instance", "history", "audit"}]
  /\ GoTo(c, "claim")
  /\ UNCHANGED <<request, try, seen, Stored, reply>>

\* The conditional UPDATE, whose predicate is evaluated on the row as it is
\* when the statement gets it, with the history and audit rows that follow.
Update(c) ==
  /\ pc[c] = "update"
  /\ ~RowIsHeld(c)
  /\ IF instance[request[c].instance] = Expected(c)
       THEN /\ mine' = [mine EXCEPT ![c] = {"instance", "history", "audit"}]
            /\ GoTo(c, "claim")
       ELSE GoTo(c, "relookup") /\ UNCHANGED mine
  /\ UNCHANGED <<request, try, seen, Stored, reply>>

\* Faulty variant of Relookup: a call that updated nothing is a conflict.
RelookupSkipped(c) == pc[c] = "relookup" /\ Answer(c, Conflict)

\* Nothing was updated: the key is looked up once more, for the winner of an
\* identical race is committed by now.
Relookup(c) ==
  /\ pc[c] = "relookup"
  /\ Answer(c, IF ClaimsFor(c) # {} THEN Replay(c) ELSE Conflict)

Artifacts(c) == {"event"} \cup (IF Keyed(request[c]) THEN {"claim", "provenance"} ELSE {})

Append(c, records) ==
  mine' = [mine EXCEPT ![c] = @ \cup records] /\ GoTo(c, "commit") /\ UNCHANGED Stored

\* Faulty variant of Claim: a taken key is tried again.
ClaimTriedAgain(c) ==
  /\ pc[c] = "claim" /\ ~KeyIsHeld(c) /\ ClaimsFor(c) = {}
  /\ Append(c, Artifacts(c))
  /\ UNCHANGED <<request, try, seen, reply>>

\* The event and the claim's rows are written; a key taken by now rolls the
\* whole block back, the move included.
Claim(c) ==
  /\ pc[c] = "claim" /\ ~KeyIsHeld(c)
  /\ IF ClaimsFor(c) # {} THEN GoTo(c, "rescue") /\ Discard(c)
     ELSE Append(c, Artifacts(c))
  /\ UNCHANGED <<request, try, seen, reply>>

Rescue(c) ==
  /\ pc[c] = "rescue"
  /\ Answer(c, IF ClaimsFor(c) # {} THEN Replay(c) ELSE Broken)

\* The caller's transaction commits.
Commit(c) ==
  /\ pc[c] = "commit"
  /\ Publish(c)
  /\ GoTo(c, "acknowledge")
  /\ UNCHANGED <<request, try, seen, reply>>

Acknowledge(c) == pc[c] = "acknowledge" /\ Answer(c, Made(Attempt(c)))

\* The caller's process or connection dies, or its own code raises after the
\* call: an open transaction is rolled back, and the request is sent again.
Fails(c) ==
  /\ pc[c] # "answered"
  /\ try[c] < MaxFaults
  /\ try' = [try EXCEPT ![c] = @ + 1]
  /\ Discard(c)
  /\ GoTo(c, "resolve")
  /\ seen' = [seen EXCEPT ![c] = Absent]
  /\ UNCHANGED <<request, reply>>

Step(c) ==
  \/ Resolve(c) \/ Lookup(c) \/ Update(c) \/ Relookup(c) \/ Claim(c) \/ Rescue(c)
  \/ Commit(c) \/ Acknowledge(c)

Next == \/ \E i \in Instances : Create(i)
        \/ \E c \in Callers : Step(c) \/ Fails(c)

Spec == Init /\ [][Next]_vars

\* Every caller's process keeps running.
FairSpec == Spec /\ \A c \in Callers : WF_vars(Step(c))
-----------------------------------------------------------------------------
Answers == [kind : {"result"}, of : Attempts]
             \cup {Conflict, KeyReuse, NotAllowed, Broken, NoReply}

\* The variables have their types, and a call's place tells exactly what its
\* open transaction has written.
TypeOK ==
  /\ request \in [Callers -> Requests]
  /\ pc \in [Callers -> Places]
  /\ try \in [Callers -> 0..MaxFaults]
  /\ seen \in [Callers -> Row \cup {Absent}]
  /\ mine \in [Callers -> SUBSET Tables]
  /\ instance \in [Instances -> Row \cup {Absent}]
  /\ table \in [Records -> SUBSET Attempts]
  /\ reply \in [Callers -> Answers]
  /\ \A c \in Callers :
       mine[c] = CASE pc[c] = "claim" -> {"instance", "history", "audit"}
                   [] pc[c] = "commit" ->
                        Tables \ (IF Keyed(request[c]) THEN {} ELSE {"claim", "provenance"})
                   [] OTHER -> {}

HistoryOf(i) == {a \in table["history"] : Wanted(a).instance = i}

\* The history of an instance is a path: one row for each revision it passed,
\* each a declared move from where the row before it arrived, the first from
\* the initial state, and the last arriving where the instance is.
HistoryIsAPath ==
  \A i \in Instances :
    IF instance[i] = Absent THEN HistoryOf(i) = {}
    ELSE
      /\ Cardinality(HistoryOf(i)) = instance[i].revision
      /\ instance[i].revision = 0 => instance[i].state = Initial
      /\ \A a \in HistoryOf(i) :
           LET r == Wanted(a) IN
           /\ Allowed(r.state, r.target)
           /\ IF r.revision = 0 THEN r.state = Initial
              ELSE \E b \in HistoryOf(i) : /\ Wanted(b).revision + 1 = r.revision
                                           /\ Wanted(b).target = r.state
           /\ IF r.revision + 1 = instance[i].revision THEN r.target = instance[i].state
              ELSE \E b \in HistoryOf(i) : Wanted(b).revision = r.revision + 1

\* No move without its audit row and its outbox event, and none of them
\* without the move; a claim exactly for the moves that were given a key, with
\* the provenance a replay will ask for, and one for a key.
EveryMoveLeavesItsArtifacts ==
  /\ table["audit"] = table["history"] /\ table["event"] = table["history"]
  /\ table["claim"] = {a \in table["history"] : Keyed(Wanted(a))}
  /\ table["provenance"] = table["claim"]
  /\ \A a, b \in table["claim"] : SameKey(Wanted(a), Wanted(b)) => a = b

\* What the database holds of an instance is whole, whatever was interleaved and
\* wherever a process died (transition_lifecycle_instance).
RecordIsWhole == HistoryIsAPath /\ EveryMoveLeavesItsArtifacts

\* What the callers see is the promise: see ConditionalMoves.
Promise == INSTANCE ConditionalMoves WITH
  created <- {i \in Instances : instance[i] # Absent},
  moves <- table["history"]
ImplementsConditionalMoves == Promise!Spec

\* Every caller is answered in the end: nobody waits forever for a row or a
\* key held by somebody who waits or is gone.
EveryCallIsAnswered == \A c \in Callers : <>(reply[c] # NoReply)
=============================================================================
