--------------------------- MODULE IdempotentProofs ---------------------------
(***************************************************************************)
(* Proofs about IdempotentMutation, for any number of callers, keys and    *)
(* faults.                                                                 *)
(***************************************************************************)
EXTENDS IdempotentMutation, TLAPS

\* Callers between the lookup and the end of their transaction.
Working == {"mutate", "claim", "append", "commit", "rescueRow", "rescueClaim"}

\* A caller at work has found no claim, so nothing of its own is committed.
NothingOfOnesOwn ==
  \A c \in Clients : pc[c] \in Working => \A a \in rows : a.client # c

\* An uncommitted claim is the only one of its key.
ClaimsAreExclusive ==
  \A c \in Clients :
    "claim" \in mine[c] =>
      /\ \A d \in Clients \ {c} : "claim" \in mine[d] => ~SameKey(Attempt(c), Attempt(d))
      /\ \A a \in claims : ~SameKey(Attempt(c), a)

\* Why a session is where it is: its commit, or what refused its insert.
PlacesAreEarned ==
  \A c \in Clients :
    /\ pc[c] = "acknowledge" => Attempt(c) \in rows
    /\ pc[c] = "rescueClaim" => \E a \in claims : SameKey(a, Attempt(c))
    /\ pc[c] = "rescueRow" => \E a \in rows : SameSlug(a, Attempt(c))
    /\ pc[c] # "answered" => reply[c] = NoReply

IInv ==
  /\ TypeOK
  /\ AllOrNothing
  /\ AtMostOnce
  /\ NothingOfOnesOwn
  /\ ClaimsAreExclusive
  /\ PlacesAreEarned
  /\ AConstraintIsAnothers

-----------------------------------------------------------------------------
LEMMA AttemptType ==
  ASSUME TypeOK, NEW c \in Clients
  PROVE Attempt(c) \in Attempts
BY DEF TypeOK, Attempt, Attempts

\* Committing an empty transaction changes nothing; committing one that is
\* complete adds the attempt to all three tables.
LEMMA Published ==
  ASSUME NEW c \in Clients, TypeOK, Publish(c)
  PROVE /\ mine[c] = {} => UNCHANGED Stored
        /\ mine[c] = Tables => /\ rows' = rows \cup {Attempt(c)}
                               /\ claims' = claims \cup {Attempt(c)}
                               /\ events' = events \cup {Attempt(c)}
        /\ mine' = [mine EXCEPT ![c] = {}]
BY DEF Publish, Tables, Stored

\* A replay finds the one claim of the key, and its event.
LEMMA Replayed ==
  ASSUME IInv, NEW c \in Clients, ClaimsOfKey(c) # {}
  PROVE \E a \in rows :
          /\ SameKey(a, Attempt(c))
          /\ \/ request[a.client] = request[c] /\ Replay(c) = Result(a)
             \/ request[a.client] # request[c] /\ Replay(c) = Conflict
<1> DEFINE a == CHOOSE x \in ClaimsOfKey(c) : TRUE
<1>1. a \in ClaimsOfKey(c)
  OBVIOUS
<1>2. a \in rows /\ a \in events /\ SameKey(a, Attempt(c))
  BY <1>1 DEF ClaimsOfKey, IInv, AllOrNothing
<1>3. a.client \in Clients
  BY <1>2 DEF IInv, TypeOK, Attempts
<1>4. request[a.client] \in Requests /\ request[c] \in Requests
  BY <1>3 DEF IInv, TypeOK
<1>5. request[a.client].key = request[c].key
  BY <1>2 DEF SameKey, KeyOf, Attempt
<1>6. (request[a.client] = request[c]) <=> (request[a.client].identity = request[c].identity)
  BY <1>4, <1>5 DEF Requests
<1>7. Replay(c) = IF request[a.client].identity # request[c].identity THEN Conflict
                  ELSE IF a \in events THEN Result(a) ELSE Broken
  BY DEF Replay
<1>8. QED
  BY <1>2, <1>6, <1>7

LEMMA InitIInv == Init => IInv
<1> SUFFICES ASSUME Init PROVE IInv
  OBVIOUS
<1> USE DEF Init
<1>1. TypeOK
  BY MutationAssumption DEF TypeOK, Places, Answers
<1>2. AllOrNothing /\ AtMostOnce /\ NothingOfOnesOwn /\ ClaimsAreExclusive
  BY DEF AllOrNothing, AtMostOnce, NothingOfOnesOwn, ClaimsAreExclusive
<1>3. PlacesAreEarned /\ AConstraintIsAnothers
  BY NoReplyAssumption DEF PlacesAreEarned, AConstraintIsAnothers
<1>4. QED
  BY <1>1, <1>2, <1>3 DEF IInv

\* An answer ends a transaction that wrote nothing or is thrown away.
LEMMA AnswerKeepsIInv ==
  ASSUME IInv, NEW c \in Clients, NEW answer \in Answers, Answer(c, answer),
         answer.kind = "result" => mine[c] = {},
         answer = Constraint => \E a \in rows : SameSlug(a, Attempt(c)) /\ ~SameKey(a, Attempt(c))
  PROVE IInv'
<1>1. UNCHANGED <<request, try, Stored>> /\ mine' = [mine EXCEPT ![c] = {}]
  BY Published DEF IInv, Answer, Discard
<1>2. pc' = [pc EXCEPT ![c] = "answered"] /\ reply' = [reply EXCEPT ![c] = answer]
  BY DEF Answer, GoTo
<1>3. TypeOK'
  BY <1>1, <1>2 DEF IInv, TypeOK, Places, Stored, Answers, Attempts, Requests
<1>4. \A a, b : SameKey(a, b)' = SameKey(a, b) /\ SameSlug(a, b)' = SameSlug(a, b)
  BY <1>1 DEF SameKey, SameSlug, KeyOf, Slug
<1>5. \A d \in Clients : Attempt(d)' = Attempt(d)
  BY <1>1 DEF Attempt
<1>6. \A d \in Clients : d # c => pc'[d] = pc[d] /\ mine'[d] = mine[d] /\ reply'[d] = reply[d]
  BY <1>1, <1>2 DEF IInv, TypeOK
<1>7. pc'[c] = "answered" /\ mine'[c] = {} /\ reply'[c] = answer
  BY <1>1, <1>2 DEF IInv, TypeOK
<1>8. AllOrNothing' /\ AtMostOnce'
  BY <1>1, <1>4 DEF IInv, AllOrNothing, AtMostOnce, Stored
<1>9. NothingOfOnesOwn'
  BY <1>1, <1>6, <1>7 DEF IInv, NothingOfOnesOwn, Working, Stored
<1>10. ClaimsAreExclusive'
  BY <1>1, <1>4, <1>5, <1>6, <1>7 DEF IInv, ClaimsAreExclusive, Stored
<1>11. PlacesAreEarned'
  BY <1>1, <1>4, <1>5, <1>6, <1>7 DEF IInv, PlacesAreEarned, Stored
<1>12. AConstraintIsAnothers'
  BY <1>1, <1>4, <1>5, <1>6, <1>7 DEF IInv, AConstraintIsAnothers, Stored
<1>13. QED
  BY <1>3, <1>8, <1>9, <1>10, <1>11, <1>12 DEF IInv

LEMMA ReplayIsAnswer ==
  ASSUME IInv, NEW c \in Clients, ClaimsOfKey(c) # {}
  PROVE Replay(c) \in Answers /\ Replay(c) # Constraint
<1>1. PICK a \in rows : Replay(c) = Result(a) \/ Replay(c) = Conflict
  BY Replayed
<1>2. a \in Attempts
  BY DEF IInv, TypeOK
<1>3. QED
  BY <1>1, <1>2 DEF Answers, Result, Conflict, Constraint

\* The session moves on, and what its transaction has written changes with
\* it; nothing is committed and nobody is answered.
LEMMA MoveKeepsIInv ==
  ASSUME IInv, NEW c \in Clients, NEW place \in Places \ {"answered", "acknowledge"},
         NEW written \in SUBSET Tables,
         pc[c] # "answered",
         pc' = [pc EXCEPT ![c] = place], mine' = [mine EXCEPT ![c] = written],
         UNCHANGED <<request, Stored, reply>>,
         \/ try' = try
         \/ place = "lookup" /\ try[c] < MaxFaults /\ try' = [try EXCEPT ![c] = @ + 1],
         written = CASE place = "claim" -> {"row"}
                     [] place = "append" -> {"row", "claim"}
                     [] place = "commit" -> Tables
                     [] OTHER -> {},
         place \in Working => \A a \in rows : a.client # c,
         "claim" \in written =>
           \/ "claim" \in mine[c]
           \/ ~Blocked(c, "claim") /\ ~Taken(c, "claim"),
         place = "rescueClaim" => Taken(c, "claim"),
         place = "rescueRow" => Taken(c, "row")
  PROVE IInv'
<1>1. \A d \in Clients : d # c => pc'[d] = pc[d] /\ mine'[d] = mine[d] /\ try'[d] = try[d]
  BY DEF IInv, TypeOK
<1>2. pc'[c] = place /\ mine'[c] = written
  BY DEF IInv, TypeOK
<1>3. \A a, b : SameKey(a, b)' = SameKey(a, b) /\ SameSlug(a, b)' = SameSlug(a, b)
  BY DEF SameKey, SameSlug, KeyOf, Slug
<1>4. \A d \in Clients : d # c \/ place # "lookup" => Attempt(d)' = Attempt(d)
  BY <1>1 DEF Attempt
<1>5. \A d \in Clients : Attempt(d)'.client = d /\ Attempt(d).client = d
  BY DEF Attempt
<1>6. \A d \in Clients : \A a : SameKey(Attempt(d), a)' = SameKey(Attempt(d), a)
  BY <1>5 DEF SameKey, KeyOf
<1>7. \A d, e \in Clients : SameKey(Attempt(d), Attempt(e))' = SameKey(Attempt(d), Attempt(e))
  BY <1>5 DEF SameKey, KeyOf
<1>8. \A d \in Clients : \A a : SameSlug(a, Attempt(d))' = SameSlug(a, Attempt(d))
  BY <1>5 DEF SameSlug, Slug
<1>9. \A d \in Clients : \A a : SameKey(a, Attempt(d))' = SameKey(a, Attempt(d))
  BY <1>5 DEF SameKey, KeyOf
<1>10. TypeOK'
  <2>1. try' \in [Clients -> 0..MaxFaults]
    BY MutationAssumption DEF IInv, TypeOK
  <2>2. pc' \in [Clients -> Places] /\ mine' \in [Clients -> SUBSET Tables]
    BY DEF IInv, TypeOK
  <2>3. /\ request' \in [Clients -> Requests] /\ reply' \in [Clients -> Answers]
        /\ rows' \subseteq Attempts /\ claims' \subseteq Attempts /\ events' \subseteq Attempts
    BY DEF IInv, TypeOK, Stored
  <2>4. \A d \in Clients : mine'[d] = CASE pc'[d] = "claim" -> {"row"}
                                        [] pc'[d] = "append" -> {"row", "claim"}
                                        [] pc'[d] = "commit" -> Tables
                                        [] OTHER -> {}
    BY <1>1, <1>2 DEF IInv, TypeOK
  <2>5. QED
    BY <2>1, <2>2, <2>3, <2>4 DEF TypeOK, Answers, Attempts, Requests
<1>11. AllOrNothing' /\ AtMostOnce'
  BY <1>3 DEF IInv, AllOrNothing, AtMostOnce, Stored
<1>12. NothingOfOnesOwn'
  BY <1>1, <1>2 DEF IInv, NothingOfOnesOwn, Stored
<1>13. ClaimsAreExclusive'
  <2>1. SUFFICES ASSUME NEW d \in Clients, "claim" \in mine'[d]
                 PROVE /\ \A e \in Clients \ {d} : "claim" \in mine'[e] =>
                                                    ~SameKey(Attempt(d), Attempt(e))
                       /\ \A a \in claims : ~SameKey(Attempt(d), a)
    BY <1>6, <1>7 DEF ClaimsAreExclusive, Stored
  <2>2. \A a, b : SameKey(a, b) = SameKey(b, a)
    BY DEF SameKey
  <2>3. \A a, b : Collides("claim", a, b) = SameKey(a, b)
    BY DEF Collides
  <2>4. "claim" \in written =>
          /\ \A e \in Clients \ {c} : "claim" \in mine[e] => ~SameKey(Attempt(c), Attempt(e))
          /\ \A a \in claims : ~SameKey(Attempt(c), a)
    BY <2>3 DEF IInv, ClaimsAreExclusive, Blocked, Taken, Committed
  <2>5. CASE d = c
    BY <1>1, <1>2, <2>1, <2>4, <2>5
  <2>6. CASE d # c
    BY <1>1, <1>2, <2>1, <2>2, <2>4, <2>6 DEF IInv, ClaimsAreExclusive
  <2>7. QED
    BY <2>5, <2>6
<1>14. PlacesAreEarned'
  <2>1. place = "rescueClaim" => \E a \in claims : SameKey(a, Attempt(c))
    BY DEF Taken, Collides, Committed, SameKey
  <2>2. place = "rescueRow" => \E a \in rows : SameSlug(a, Attempt(c))
    BY DEF Taken, Collides, Committed, SameSlug
  <2>3. reply[c] = NoReply
    BY DEF IInv, PlacesAreEarned
  <2>4. QED
    BY <1>1, <1>2, <1>4, <1>8, <1>9, <2>1, <2>2, <2>3 DEF IInv, PlacesAreEarned, Stored
<1>15. AConstraintIsAnothers'
  BY <1>8, <1>9 DEF IInv, AConstraintIsAnothers, Stored
<1>16. QED
  BY <1>10, <1>11, <1>12, <1>13, <1>14, <1>15 DEF IInv

LEMMA CommitKeepsIInv ==
  ASSUME IInv, NEW c \in Clients, Commit(c)
  PROVE IInv'
<1>1. mine[c] = Tables
  BY DEF Commit, IInv, TypeOK
<1>2. /\ rows' = rows \cup {Attempt(c)}
      /\ claims' = claims \cup {Attempt(c)}
      /\ events' = events \cup {Attempt(c)}
      /\ mine' = [mine EXCEPT ![c] = {}]
  BY <1>1, Published DEF Commit, IInv
<1>3. UNCHANGED <<request, try, reply>> /\ pc' = [pc EXCEPT ![c] = "acknowledge"] /\ pc[c] = "commit"
  BY DEF Commit, GoTo
<1>4. Attempt(c) \in Attempts /\ Attempt(c).client = c
  BY AttemptType DEF IInv, Attempt
<1>5. pc'[c] = "acknowledge" /\ mine'[c] = {}
      /\ \A d \in Clients : d # c => pc'[d] = pc[d] /\ mine'[d] = mine[d]
  BY <1>2, <1>3 DEF IInv, TypeOK
<1>6. \A a, b : SameKey(a, b)' = SameKey(a, b) /\ SameSlug(a, b)' = SameSlug(a, b)
  BY <1>3 DEF SameKey, SameSlug, KeyOf, Slug
<1>7. \A d \in Clients : Attempt(d)' = Attempt(d)
  BY <1>3 DEF Attempt
<1>8. /\ \A d \in Clients \ {c} : "claim" \in mine[d] => ~SameKey(Attempt(c), Attempt(d))
      /\ \A a \in claims : ~SameKey(Attempt(c), a)
  BY <1>1 DEF IInv, ClaimsAreExclusive, Tables
<1>9. \A a, b : SameKey(a, b) = SameKey(b, a)
  BY DEF SameKey
<1>10. TypeOK'
  BY <1>2, <1>3, <1>4, <1>5 DEF IInv, TypeOK, Places, Answers, Attempts, Requests
<1>11. AllOrNothing' /\ AtMostOnce'
  BY <1>2, <1>6, <1>8, <1>9 DEF IInv, AllOrNothing, AtMostOnce
<1>12. NothingOfOnesOwn'
  BY <1>2, <1>4, <1>5 DEF IInv, NothingOfOnesOwn, Working
<1>13. ClaimsAreExclusive'
  BY <1>2, <1>5, <1>6, <1>7, <1>8, <1>9 DEF IInv, ClaimsAreExclusive
<1>14. PlacesAreEarned'
  BY <1>2, <1>3, <1>5, <1>6, <1>7 DEF IInv, PlacesAreEarned
<1>15. AConstraintIsAnothers'
  BY <1>2, <1>3, <1>6, <1>7 DEF IInv, AConstraintIsAnothers
<1>16. QED
  BY <1>10, <1>11, <1>12, <1>13, <1>14, <1>15 DEF IInv

\* An insert is a move: to the next place with the row written, or, refused,
\* to the rescue with nothing.
LEMMA InsertKeepsIInv ==
  ASSUME IInv, NEW c \in Clients, Mutate(c) \/ Claim(c) \/ AppendEvent(c)
  PROVE IInv'
<1>1. \A a \in rows : a.client # c
  BY DEF IInv, NothingOfOnesOwn, Working, Mutate, Claim, AppendEvent
<1>2. CASE Mutate(c)
  <2>1. mine[c] = {}
    BY <1>2 DEF Mutate, IInv, TypeOK
  <2>2. CASE Taken(c, "row")
    BY <1>1, <1>2, <2>2, MoveKeepsIInv DEF Mutate, Insert, GoTo, Discard, Places, Stored
  <2>3. CASE ~Taken(c, "row")
    BY <1>1, <1>2, <2>1, <2>3, MoveKeepsIInv DEF Mutate, Insert, GoTo, Stored, Places, Tables
  <2>4. QED
    BY <2>2, <2>3
<1>3. CASE Claim(c)
  <2>1. mine[c] = {"row"}
    BY <1>3 DEF Claim, IInv, TypeOK
  <2>2. CASE Taken(c, "claim")
    BY <1>1, <1>3, <2>2, MoveKeepsIInv DEF Claim, Insert, GoTo, Discard, Places, Stored
  <2>3. CASE ~Taken(c, "claim")
    BY <1>1, <1>3, <2>1, <2>3, MoveKeepsIInv DEF Claim, Insert, GoTo, Stored, Places, Tables
  <2>4. QED
    BY <2>2, <2>3
<1>4. CASE AppendEvent(c)
  <2>1. mine[c] = {"row", "claim"}
    BY <1>4 DEF AppendEvent, IInv, TypeOK
  <2>2. ~Taken(c, "event")
    BY <1>1 DEF Taken, Committed, Collides, Attempt, IInv, AllOrNothing
  <2>3. mine[c] \cup {"event"} = Tables
    BY <2>1 DEF Tables
  <2>4. QED
    BY <1>1, <1>4, <2>1, <2>2, <2>3, MoveKeepsIInv
       DEF AppendEvent, Insert, GoTo, Stored, Places, Tables
<1>5. QED
  BY <1>2, <1>3, <1>4

LEMMA LookupKeepsIInv ==
  ASSUME IInv, NEW c \in Clients, Lookup(c)
  PROVE IInv'
<1>1. mine[c] = {} /\ pc[c] = "lookup"
  BY DEF Lookup, IInv, TypeOK
<1>2. CASE ClaimsOfKey(c) # {}
  BY <1>1, <1>2, ReplayIsAnswer, AnswerKeepsIInv DEF Lookup
<1>3. CASE ClaimsOfKey(c) = {}
  <2>1. \A a \in rows : a.client # c
    BY <1>3 DEF ClaimsOfKey, SameKey, KeyOf, Attempt, IInv, AllOrNothing
  <2>2. mine' = [mine EXCEPT ![c] = {}]
    BY <1>1, <1>3 DEF Lookup, IInv, TypeOK
  <2>3. QED
    BY <1>1, <1>3, <2>1, <2>2, MoveKeepsIInv DEF Lookup, GoTo, Places, Stored
<1>4. QED
  BY <1>2, <1>3

LEMMA RescueKeepsIInv ==
  ASSUME IInv, NEW c \in Clients, Rescue(c)
  PROVE IInv' /\ (ClaimsOfKey(c) = {} => pc[c] = "rescueRow" /\ Answer(c, Constraint))
<1>1. mine[c] = {}
  BY DEF Rescue, IInv, TypeOK
<1>2. CASE ClaimsOfKey(c) # {}
  BY <1>1, <1>2, ReplayIsAnswer, AnswerKeepsIInv DEF Rescue
<1>3. CASE ClaimsOfKey(c) = {}
  <2>1. pc[c] = "rescueRow"
    BY <1>3 DEF Rescue, ClaimsOfKey, IInv, PlacesAreEarned
  <2>2. PICK a \in rows : SameSlug(a, Attempt(c))
    BY <2>1 DEF IInv, PlacesAreEarned
  <2>3. ~SameKey(a, Attempt(c))
    BY <1>3 DEF ClaimsOfKey, IInv, AllOrNothing
  <2>4. Answer(c, Constraint)
    BY <1>3, <2>1 DEF Rescue
  <2>5. Constraint \in Answers
    BY DEF Answers
  <2>6. QED
    BY <1>1, <2>1, <2>2, <2>3, <2>4, <2>5, AnswerKeepsIInv
<1>4. QED
  BY <1>2, <1>3

LEMMA StepKeepsIInv == IInv /\ [Next]_vars => IInv'
<1> SUFFICES ASSUME IInv, [Next]_vars PROVE IInv'
  OBVIOUS
<1>1. ASSUME NEW c \in Clients, Step(c) PROVE IInv'
  <2>1. CASE Lookup(c)
    BY <2>1, LookupKeepsIInv
  <2>2. CASE Mutate(c) \/ Claim(c) \/ AppendEvent(c)
    BY <2>2, InsertKeepsIInv
  <2>3. CASE MutationFails(c) \/ MutationCommits(c)
    <3>1. Answer(c, Refused)
      BY <2>3 DEF MutationFails, MutationCommits
    <3>2. Refused \in Answers /\ Refused.kind # "result" /\ Refused # Constraint
      BY DEF Answers, Refused, Constraint
    <3>3. QED
      BY <3>1, <3>2, AnswerKeepsIInv
  <2>4. CASE Commit(c)
    BY <2>4, CommitKeepsIInv
  <2>5. CASE Acknowledge(c)
    <3>1. mine[c] = {} /\ Answer(c, Result(Attempt(c)))
      BY <2>5 DEF Acknowledge, IInv, TypeOK
    <3>2. Result(Attempt(c)) \in Answers /\ Result(Attempt(c)) # Constraint
      BY AttemptType DEF IInv, Answers, Result, Constraint
    <3>3. QED
      BY <3>1, <3>2, AnswerKeepsIInv
  <2>6. CASE Rescue(c)
    BY <2>6, RescueKeepsIInv
  <2>7. QED
    BY <1>1, <2>1, <2>2, <2>3, <2>4, <2>5, <2>6 DEF Step
<1>2. ASSUME NEW c \in Clients, Fails(c) PROVE IInv'
  <2>1. /\ pc[c] # "answered" /\ try[c] < MaxFaults
        /\ pc' = [pc EXCEPT ![c] = "lookup"] /\ mine' = [mine EXCEPT ![c] = {}]
        /\ UNCHANGED <<request, Stored, reply>> /\ try' = [try EXCEPT ![c] = @ + 1]
    BY <1>2 DEF Fails, GoTo, Discard
  <2>2. /\ "lookup" \in Places \ {"answered", "acknowledge"} /\ "lookup" \notin Working
        /\ {} \in SUBSET Tables
    BY DEF Places, Working
  <2>3. QED
    BY <2>1, <2>2, MoveKeepsIInv
<1>3. CASE UNCHANGED vars
  <2> USE <1>3 DEF vars
  <2>1. TypeOK' /\ AllOrNothing' /\ AtMostOnce' /\ NothingOfOnesOwn'
    BY DEF IInv, TypeOK, AllOrNothing, AtMostOnce, NothingOfOnesOwn, SameKey, KeyOf,
           Answers, Attempts, Requests
  <2>2. ClaimsAreExclusive' /\ PlacesAreEarned' /\ AConstraintIsAnothers'
    BY DEF IInv, ClaimsAreExclusive, PlacesAreEarned, AConstraintIsAnothers,
           SameKey, SameSlug, KeyOf, Slug, Attempt
  <2>3. QED
    BY <2>1, <2>2 DEF IInv
<1>4. QED
  BY <1>1, <1>2, <1>3 DEF Next

LEMMA AlwaysIInv == Spec => []IInv
BY InitIInv, StepKeepsIInv, PTL DEF Spec

\* The sessions keep their types, and each transaction has written exactly
\* what its place in the function says.
THEOREM MutationsAreTyped == Spec => []TypeOK
BY AlwaysIInv, PTL DEF IInv

\* The row of a mutation, the claim of its key and its outbox event are
\* durable together or not at all, whatever crashes, races or escapes.
THEOREM CommitsWholeOrNothing == Spec => []AllOrNothing
BY AlwaysIInv, PTL DEF IInv

\* No key ever has two effects.
THEOREM KeysTakeEffectOnce == Spec => []AtMostOnce
BY AlwaysIInv, PTL DEF IInv

\* An IntegrityError that reaches a caller is about another key's row.
THEOREM ConstraintsAreOthers == Spec => []AConstraintIsAnothers
BY AlwaysIInv, PTL DEF IInv
-----------------------------------------------------------------------------
\* c's next insert waits for d, which holds a unique entry it would collide with.
Awaits(c, d) ==
  \/ pc[c] = "mutate" /\ "row" \in mine[d] /\ Collides("row", Attempt(c), Attempt(d))
  \/ pc[c] = "claim" /\ "claim" \in mine[d] /\ Collides("claim", Attempt(c), Attempt(d))
  \/ pc[c] = "append" /\ "event" \in mine[d] /\ Collides("event", Attempt(c), Attempt(d))

\* Among any callers there is one that waits for none of the others: the unique
\* indexes of the business row, of the key and of the event are entered in one
\* order by every execution, so their waits never close a circle.
SomeCallerIsFree ==
  \A C \in (SUBSET Clients) \ {{}} : \E c \in C : \A d \in C \ {c} : ~Awaits(c, d)

\* Callers of execute_idempotent_mutation that race for rows and for keys never
\* deadlock: of any of them, the furthest one is free to go on.
THEOREM CallersNeverWaitInACircle == Spec => []SomeCallerIsFree
<1>1. ASSUME TypeOK PROVE SomeCallerIsFree
  <2> SUFFICES ASSUME NEW C \in (SUBSET Clients) \ {{}}
               PROVE \E c \in C : \A d \in C \ {c} : ~Awaits(c, d)
    BY DEF SomeCallerIsFree
  <2> C \subseteq Clients
    OBVIOUS
  \* Who holds an entry has come past the insert that took it.
  <2>1. ASSUME NEW d \in C
        PROVE /\ "row" \in mine[d] => pc[d] \in {"claim", "append", "commit"}
              /\ "claim" \in mine[d] => pc[d] \in {"append", "commit"}
              /\ "event" \in mine[d] => pc[d] = "commit"
    BY <1>1 DEF TypeOK, Tables
  <2>2. CASE \E c \in C : pc[c] \notin {"mutate", "claim", "append"}
    BY <2>2 DEF Awaits
  <2>3. CASE /\ \A c \in C : pc[c] \in {"mutate", "claim", "append"}
             /\ \E c \in C : pc[c] = "append"
    BY <2>1, <2>3 DEF Awaits
  <2>4. CASE /\ \A c \in C : pc[c] \in {"mutate", "claim"}
             /\ \E c \in C : pc[c] = "claim"
    BY <2>1, <2>4 DEF Awaits
  <2>5. CASE \A c \in C : pc[c] = "mutate"
    BY <2>1, <2>5 DEF Awaits
  <2>6. QED
    BY <2>2, <2>3, <2>4, <2>5
<1>2. IInv => SomeCallerIsFree
  BY <1>1 DEF IInv
<1>3. QED
  BY <1>2, AlwaysIInv, PTL
-----------------------------------------------------------------------------
Heard(r) == [c \in Clients |-> IF r[c] = Constraint THEN Refused ELSE r[c]]

\* Answering is hearing, when the transaction has nothing to commit.
LEMMA AnswerIsHearing ==
  ASSUME IInv, NEW c \in Clients, NEW answer \in Answers, Answer(c, answer),
         pc[c] # "answered", answer.kind = "result" => mine[c] = {},
         NEW heard, heard = IF answer = Constraint THEN Refused ELSE answer
  PROVE /\ UNCHANGED <<request, rows>>
        /\ Heard(reply)[c] = NoReply
        /\ Heard(reply') = [Heard(reply) EXCEPT ![c] = heard]
<1>1. reply[c] = NoReply /\ NoReply # Constraint
  BY NoReplyAssumption DEF IInv, PlacesAreEarned
<1>2. UNCHANGED <<request, Stored>>
  BY Published DEF IInv, Answer, Discard
<1>3. reply' = [reply EXCEPT ![c] = answer] /\ DOMAIN reply = Clients
  BY DEF Answer, IInv, TypeOK
<1>4. Heard(reply') = [Heard(reply) EXCEPT ![c] = heard]
  BY <1>3 DEF Heard
<1>5. Heard(reply)[c] = NoReply
  BY <1>1 DEF Heard
<1>6. QED
  BY <1>2, <1>4, <1>5 DEF Stored

\* A replay is hearing of the result or of a conflict.
LEMMA ReplayIsHearing ==
  ASSUME IInv, NEW c \in Clients, ClaimsOfKey(c) # {}, Answer(c, Replay(c)),
         pc[c] # "answered", mine[c] = {}
  PROVE Promise!HearResult(c) \/ Promise!HearConflict(c)
<1>1. /\ UNCHANGED <<request, rows>>
      /\ Heard(reply)[c] = NoReply
      /\ Heard(reply') = [Heard(reply) EXCEPT ![c] = Replay(c)]
  <2> DEFINE r == Replay(c)
  <2>1. r \in Answers /\ r # Constraint /\ Answer(c, r)
    BY ReplayIsAnswer
  <2> HIDE DEF r
  <2>2. QED
    BY <2>1, AnswerIsHearing DEF r
<1>2. PICK a \in rows :
        /\ SameKey(a, Attempt(c))
        /\ \/ request[a.client] = request[c] /\ Replay(c) = Result(a)
           \/ request[a.client] # request[c] /\ Replay(c) = Conflict
  BY Replayed
<1>3. Promise!SameKey(a.client, c)
  BY <1>2 DEF Promise!SameKey, SameKey, KeyOf, Attempt
<1>4. Replay(c) = Promise!Result(a) \/ Replay(c) = Promise!Conflict
  BY <1>2 DEF Promise!Result, Promise!Conflict, Result, Conflict
<1>5. QED
  BY <1>1, <1>2, <1>3, <1>4 DEF Promise!HearResult, Promise!HearConflict, Promise!Hears, Heard,
     Promise!Result, Promise!Conflict, Result, Conflict

LEMMA RefusalIsHearing ==
  ASSUME IInv, NEW c \in Clients, pc[c] \in Working, NEW answer \in {Refused, Constraint},
         Answer(c, answer)
  PROVE Promise!HearRefused(c)
<1>1. answer \in Answers /\ answer.kind # "result"
  BY DEF Answers, Refused, Constraint
<1>2. /\ UNCHANGED <<request, rows>>
      /\ Heard(reply)[c] = NoReply
      /\ Heard(reply') = [Heard(reply) EXCEPT ![c] = Refused]
  BY <1>1, AnswerIsHearing DEF Working
<1>3. \A a \in rows : a.client # c
  BY DEF IInv, NothingOfOnesOwn
<1>4. QED
  BY <1>2, <1>3 DEF Promise!HearRefused, Promise!Hears, Heard, Promise!Refused, Refused

LEMMA CommitIsEffect ==
  ASSUME IInv, NEW c \in Clients, Commit(c)
  PROVE Promise!TakeEffect(Attempt(c))
<1>1. mine[c] = Tables /\ "claim" \in mine[c]
  BY DEF Commit, IInv, TypeOK, Tables
<1>2. rows' = rows \cup {Attempt(c)} /\ UNCHANGED <<request, reply>>
  BY <1>1, Published DEF Commit, IInv
<1>3. \A a \in rows : ~SameKey(Attempt(c), a)
  BY <1>1 DEF IInv, ClaimsAreExclusive, AllOrNothing
<1>4. \A a \in rows : ~Promise!SameKey(a.client, Attempt(c).client)
  BY <1>3 DEF Promise!SameKey, SameKey, KeyOf
<1>5. QED
  BY <1>2, <1>4 DEF Promise!TakeEffect

LEMMA StepsKeepThePromise == IInv /\ [Next]_vars => [Promise!Next]_(Promise!vars)
<1> SUFFICES ASSUME IInv, [Next]_vars PROVE Promise!Next \/ UNCHANGED Promise!vars
  OBVIOUS
<1>1. ASSUME UNCHANGED <<request, rows, reply>> PROVE UNCHANGED Promise!vars
  BY <1>1 DEF Promise!vars
<1>2. ASSUME NEW c \in Clients, Step(c) PROVE Promise!Next \/ UNCHANGED Promise!vars
  <2>1. CASE Lookup(c)
    <3>1. mine[c] = {} /\ pc[c] = "lookup"
      BY <2>1 DEF Lookup, IInv, TypeOK
    <3>2. QED
      BY <1>1, <2>1, <3>1, ReplayIsHearing DEF Lookup, Stored, Promise!Next
  <2>2. CASE Mutate(c) \/ Claim(c) \/ AppendEvent(c)
    BY <1>1, <2>2 DEF Mutate, Claim, AppendEvent, Insert, Discard, Stored
  <2>3. CASE MutationFails(c) \/ MutationCommits(c)
    BY <2>3, RefusalIsHearing DEF MutationFails, MutationCommits, Working, Promise!Next
  <2>4. CASE Commit(c)
    BY <2>4, CommitIsEffect, AttemptType DEF IInv, Promise!Next
  <2>5. CASE Acknowledge(c)
    <3>1. /\ mine[c] = {} /\ pc[c] = "acknowledge"
          /\ Answer(c, Result(Attempt(c))) /\ Attempt(c) \in rows
      BY <2>5 DEF Acknowledge, IInv, TypeOK, PlacesAreEarned
    <3>2. Result(Attempt(c)) \in Answers /\ Result(Attempt(c)) # Constraint
      BY AttemptType DEF IInv, Answers, Result, Constraint
    <3> DEFINE r == Result(Attempt(c))
    <3> HIDE DEF r
    <3>3. /\ UNCHANGED <<request, rows>>
          /\ Heard(reply)[c] = NoReply
          /\ Heard(reply') = [Heard(reply) EXCEPT ![c] = r]
      BY <3>1, <3>2, AnswerIsHearing DEF r
    <3>4. Promise!HearResult(c)
      BY <3>1, <3>3 DEF Promise!HearResult, Promise!Hears, Promise!Result, Heard, r, Result,
         Attempt
    <3>5. QED
      BY <3>4 DEF Promise!Next
  <2>6. CASE Rescue(c)
    <3>1. mine[c] = {} /\ pc[c] \in Working
      BY <2>6 DEF Rescue, IInv, TypeOK, Working
    <3>2. CASE ClaimsOfKey(c) # {}
      BY <2>6, <3>1, <3>2, ReplayIsHearing DEF Rescue, Promise!Next
    <3>3. CASE ClaimsOfKey(c) = {}
      BY <2>6, <3>1, <3>3, RescueKeepsIInv, RefusalIsHearing DEF Promise!Next
    <3>4. QED
      BY <3>2, <3>3
  <2>7. QED
    BY <1>2, <2>1, <2>2, <2>3, <2>4, <2>5, <2>6 DEF Step
<1>3. ASSUME NEW c \in Clients, Fails(c) PROVE UNCHANGED Promise!vars
  BY <1>1, <1>3 DEF Fails, Discard, Stored
<1>4. CASE UNCHANGED vars
  BY <1>1, <1>4 DEF vars
<1>5. QED
  BY <1>2, <1>3, <1>4 DEF Next

LEMMA InitKeepsThePromise == Init => Promise!Init
BY NoReplyAssumption DEF Init, Promise!Init

\* What every caller is told is what OnceOnly allows: the one effect under its
\* key, or the truth about why there is none of its own.
THEOREM MutationsKeepThePromise == Spec => ImplementsOnceOnly
<1>1. Spec => Promise!Init
  BY InitKeepsThePromise DEF Spec
<1>2. QED
  BY <1>1, AlwaysIInv, StepsKeepThePromise, PTL DEF Spec, ImplementsOnceOnly, Promise!Spec
=============================================================================
