-------------------------- MODULE ConditionalMoves --------------------------
(***************************************************************************)
(* What the lifecycle kernel promises: an instance is where the moves made *)
(* on it have taken it, one after the other along declared edges; a move   *)
(* is made only from the position its caller described; a key stands for   *)
(* one move; and no caller whose keyed move was made is told it conflicted.*)
(* There are no rows, locks, snapshots or transactions here.               *)
(***************************************************************************)
EXTENDS Naturals, FiniteSets

CONSTANTS
  Callers, Requests, Attempts,
  Initial,     \* the state an instance of the machine starts in
  Edges,       \* its declared moves, a set of pairs of states
  Terminal,    \* the states it stops in
  TenantOf,    \* the tenant of an instance
  NoKey, NoReply

VARIABLES
  request,     \* [Callers -> Requests]: what each caller asks for
  created,     \* the instances that exist
  moves,       \* the attempts whose move was made
  reply        \* [Callers -> what the caller was told in the end]

vars == <<request, created, moves, reply>>

Made(attempt) == [kind |-> "result", of |-> attempt]
Conflict == [kind |-> "conflict"]
KeyReuse == [kind |-> "key reuse"]
NotAllowed == [kind |-> "not allowed"]

Wanted(attempt) == request[attempt.caller]
Of(i) == {m \in moves : Wanted(m).instance = i}
Revision(i) == Cardinality(Of(i))

\* Where instance i stood at a revision it has reached.
StateAt(i, revision) ==
  IF revision = 0 THEN Initial
  ELSE Wanted(CHOOSE m \in Of(i) : Wanted(m).revision = revision - 1).target

Allowed(from, to) == <<from, to>> \in Edges /\ from \notin Terminal

Keyed(r) == r.key # NoKey
SameKey(r, s) == Keyed(r) /\ r.key = s.key /\ r.tenant = s.tenant
Settled(c) == {m \in moves : SameKey(Wanted(m), request[c])}

Describes(r) ==
  /\ r.instance \in created /\ TenantOf[r.instance] = r.tenant
  /\ r.revision = Revision(r.instance)
  /\ r.state = StateAt(r.instance, r.revision)

Init ==
  /\ request \in [Callers -> Requests]
  /\ created = {} /\ moves = {}
  /\ reply = [c \in Callers |-> NoReply]

Create(i) == i \notin created /\ created' = created \cup {i} /\ UNCHANGED <<request, moves, reply>>

Move(attempt) ==
  LET r == Wanted(attempt) IN
  /\ Describes(r) /\ Allowed(r.state, r.target)
  /\ Settled(attempt.caller) = {}
  /\ moves' = moves \cup {attempt}
  /\ UNCHANGED <<request, created, reply>>

Hears(c, answer) ==
  /\ reply[c] = NoReply
  /\ reply' = [reply EXCEPT ![c] = answer]
  /\ UNCHANGED <<request, created, moves>>

HearMade(c) ==
  \E m \in moves : /\ m.caller = c \/ (Keyed(request[c]) /\ Wanted(m) = request[c])
                   /\ Hears(c, Made(m))
HearKeyReuse(c) == (\E m \in Settled(c) : Wanted(m) # request[c]) /\ Hears(c, KeyReuse)
HearConflict(c) == (\A m \in Settled(c) : Wanted(m) # request[c]) /\ Hears(c, Conflict)

\* Whatever happened since, the position the caller described was the
\* instance's, and there is no such move from there.
HearNotAllowed(c) ==
  LET r == request[c] IN
  /\ r.instance \in created /\ TenantOf[r.instance] = r.tenant
  /\ r.revision <= Revision(r.instance)
  /\ r.state = StateAt(r.instance, r.revision)
  /\ ~Allowed(r.state, r.target)
  /\ Hears(c, NotAllowed)

Next ==
  \/ \E i \in DOMAIN TenantOf : Create(i)
  \/ \E attempt \in Attempts : Move(attempt)
  \/ \E c \in Callers : HearMade(c) \/ HearKeyReuse(c) \/ HearConflict(c) \/ HearNotAllowed(c)

Spec == Init /\ [][Next]_vars
=============================================================================
