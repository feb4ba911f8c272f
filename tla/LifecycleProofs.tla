-------------------------- MODULE LifecycleProofs ---------------------------
(***************************************************************************)
(* Proofs about Lifecycle, for any machine, any callers and requests and   *)
(* any number of failures: what is stored is whole, and the callers see    *)
(* ConditionalMoves.  Then about LifecycleRegistration, for any rows and any *)
(* number of sessions and transactions.                                    *)
(***************************************************************************)
EXTENDS Lifecycle, LifecycleRegistration, FiniteSetTheorems, TLAPS

-----------------------------------------------------------------------------
(***************************************************************************)
(* The inductive invariant                                                 *)
(***************************************************************************)
Here(c) == request[c].instance

\* Instance i stood in this state when it had this revision.
WasAt(i, state, revision) ==
  /\ instance[i] # Absent
  /\ revision \in 0..instance[i].revision
  /\ IF revision = 0 THEN state = Initial
     ELSE \E b \in HistoryOf(i) : Wanted(b).revision + 1 = revision /\ Wanted(b).target = state

\* One move of an instance's history.
MoveOfAPath(i, r) ==
  /\ Allowed(r.state, r.target)
  /\ r.tenant = TenantOf[i]
  /\ r.revision < instance[i].revision
  /\ WasAt(i, r.state, r.revision)
  /\ r.revision + 1 # instance[i].revision =>
       \E b \in HistoryOf(i) : Wanted(b).revision = r.revision + 1

\* The history of one instance.
Path(i) ==
  /\ IsFiniteSet(HistoryOf(i))
  /\ Cardinality(HistoryOf(i)) = instance[i].revision
  /\ WasAt(i, instance[i].state, instance[i].revision)
  /\ \A a \in HistoryOf(i) : MoveOfAPath(i, Wanted(a))
  /\ \A a, b \in HistoryOf(i) : Wanted(a).revision = Wanted(b).revision => a = b

Paths ==
  \A i \in Instances : IF instance[i] = Absent THEN HistoryOf(i) = {} ELSE Path(i)

\* An attempt that is recorded is over, or about to be acknowledged.
Spent ==
  \A a \in table["history"] :
    \/ a.try < try[a.caller]
    \/ a.try = try[a.caller] /\ pc[a.caller] \in {"acknowledge", "answered"}

\* What a call relies on at each place.
Knows(c) ==
  /\ pc[c] \in {"lookup", "update"} => Visible(c) /\ WasAt(Here(c), seen[c].state, seen[c].revision)
  /\ pc[c] = "update" => Allowed(request[c].state, request[c].target)
  /\ pc[c] \in {"claim", "commit"} =>
       /\ Visible(c) /\ Allowed(request[c].state, request[c].target)
       /\ instance[Here(c)] = Expected(c)
  /\ pc[c] = "commit" => ClaimsFor(c) = {}
  /\ pc[c] = "rescue" => ClaimsFor(c) # {}
  /\ pc[c] = "acknowledge" => Attempt(c) \in table["history"]
  /\ pc[c] # "answered" => reply[c] = NoReply

\* The rows and the keys that open transactions hold are theirs alone.
Apart(c, d) ==
  /\ "instance" \in mine[c] \cap mine[d] => Here(c) # Here(d)
  /\ "claim" \in mine[c] \cap mine[d] => ~SameKey(request[c], request[d])

IInv ==
  /\ TypeOK
  /\ Paths
  /\ EveryMoveLeavesItsArtifacts
  /\ Spent
  /\ \A c \in Callers : Knows(c)
  /\ \A c, d \in Callers : c # d => Apart(c, d)

LEMMA RequestType ==
  ASSUME TypeOK, NEW c \in Callers
  PROVE  /\ request[c] \in AnyRequest /\ Here(c) \in Instances /\ request[c].revision \in Nat
         /\ Expected(c) \in Row /\ Moved(c) \in Row /\ Attempt(c) \in Attempts
  <1>1. request[c] \in AnyRequest /\ request[c].revision < MaxRevision
    BY LifecycleAssumption DEF TypeOK
  <1>2. request[c].revision \in 0..MaxRevision /\ request[c].revision + 1 \in 0..MaxRevision
    BY <1>1, LifecycleAssumption DEF AnyRequest
  <1>3. QED
    BY <1>1, <1>2 DEF AnyRequest, Here, Expected, Moved, Row, Attempt, Attempts, TypeOK

LEMMA InitIInv == Init => IInv
<1> SUFFICES ASSUME Init PROVE IInv
  OBVIOUS
<1> USE DEF Init
<1>1. TypeOK
  BY LifecycleAssumption DEF TypeOK, Places, Answers, Tables, Records
<1>2. Paths /\ EveryMoveLeavesItsArtifacts /\ Spent
  BY DEF Paths, EveryMoveLeavesItsArtifacts, Spent, HistoryOf, Records
<1>3. \A c \in Callers : Knows(c)
  BY DEF Knows
<1>4. \A c, d \in Callers : c # d => Apart(c, d)
  BY DEF Apart
<1>5. QED
  BY <1>1, <1>2, <1>3, <1>4 DEF IInv

-----------------------------------------------------------------------------
(***************************************************************************)
(* Steps that store nothing                                                *)
(***************************************************************************)

LEMMA StoredStays ==
  ASSUME UNCHANGED <<request, instance, table>>, Paths
  PROVE  Paths'
<1>1. /\ \A i : HistoryOf(i)' = HistoryOf(i)
      /\ \A i, state, revision : WasAt(i, state, revision)' <=> WasAt(i, state, revision)
  BY DEF HistoryOf, Wanted, WasAt
<1>2. \A i, r : MoveOfAPath(i, r)' <=> MoveOfAPath(i, r)
  BY <1>1 DEF MoveOfAPath, Wanted
<1>3. \A i : Path(i)' <=> Path(i)
  BY <1>1, <1>2 DEF Path, Wanted
<1>4. QED
  BY <1>1, <1>3 DEF Paths

LEMMA KnowledgeStays ==
  ASSUME UNCHANGED <<request, instance, table>>, NEW d, Knows(d),
         pc'[d] = pc[d], try'[d] = try[d], seen'[d] = seen[d], reply'[d] = reply[d]
  PROVE  Knows(d)'
<1>1. /\ Visible(d)' = Visible(d) /\ Here(d)' = Here(d) /\ Expected(d)' = Expected(d)
      /\ ClaimsFor(d)' = ClaimsFor(d) /\ Attempt(d)' = Attempt(d)
  BY DEF Visible, Here, Expected, ClaimsFor, Attempt, Wanted
<1>2. \A i, state, revision : WasAt(i, state, revision)' <=> WasAt(i, state, revision)
  BY DEF HistoryOf, Wanted, WasAt
<1>3. QED
  BY <1>1, <1>2 DEF Knows

\* A step of one caller that leaves what is stored: what it must establish.
LEMMA LocalStep ==
  ASSUME IInv, NEW c \in Callers, TypeOK', UNCHANGED <<request, instance, table>>,
         \A d \in Callers \ {c} : /\ pc'[d] = pc[d] /\ try'[d] = try[d] /\ seen'[d] = seen[d]
                                  /\ mine'[d] = mine[d] /\ reply'[d] = reply[d],
         \/ try'[c] > try[c]
         \/ try'[c] = try[c] /\ (pc[c] = "acknowledge" => pc'[c] = "answered") /\ pc[c] # "answered",
         Knows(c)',
         \A d \in Callers \ {c} : Apart(c, d)'
  PROVE  IInv'
<1>1. Paths'
  BY StoredStays DEF IInv
<1>2. EveryMoveLeavesItsArtifacts'
  BY DEF IInv, EveryMoveLeavesItsArtifacts, Wanted
<1>3. Spent'
  <2> SUFFICES ASSUME NEW a \in table["history"]
               PROVE  \/ a.try < try'[a.caller]
                      \/ a.try = try'[a.caller] /\ pc'[a.caller] \in {"acknowledge", "answered"}
    BY DEF Spent
  <2>1. a.caller \in Callers /\ a.try \in Nat /\ try[a.caller] \in Nat /\ try'[a.caller] \in Nat
    BY LifecycleAssumption DEF IInv, TypeOK, Attempts, Records
  <2>2. QED
    BY <2>1 DEF IInv, Spent
<1>4. \A d \in Callers : Knows(d)'
  BY KnowledgeStays DEF IInv
<1>5. \A d, e \in Callers : d # e => Apart(d, e)'
  <2>1. \A d, e \in Callers : Apart(d, e)' => Apart(e, d)'
    BY DEF Apart, SameKey, Keyed
  <2>2. \A d \in Callers \ {c}, e \in Callers \ {c} : d # e => Apart(d, e)'
    BY DEF IInv, Apart, Here, SameKey, Keyed
  <2>3. QED
    BY <2>1, <2>2
<1>6. QED
  BY <1>1, <1>2, <1>3, <1>4, <1>5 DEF IInv

\* An answer given when nothing is open changes only where the call is.
LEMMA AnswerStep ==
  ASSUME IInv, NEW c \in Callers, mine[c] = {}, pc[c] # "answered", NEW answer \in Answers,
         Answer(c, answer)
  PROVE  /\ UNCHANGED <<request, try, seen, mine, instance, table>>
         /\ pc' = [pc EXCEPT ![c] = "answered"] /\ reply' = [reply EXCEPT ![c] = answer]
         /\ IInv'
<1>1. /\ UNCHANGED <<request, try, seen>>
      /\ pc' = [pc EXCEPT ![c] = "answered"] /\ reply' = [reply EXCEPT ![c] = answer]
  BY DEF Answer, GoTo
<1>2. mine' = mine
  BY DEF IInv, TypeOK, Answer, Publish, Discard
<1>3. UNCHANGED <<instance, table>>
  <2>1. CASE answer.kind = "result"
    <3>1. instance' = instance /\ table' = [t \in Records |-> table[t]]
      BY <2>1 DEF Answer, Publish
    <3>2. table \in [Records -> SUBSET Attempts]
      BY DEF IInv, TypeOK
    <3>3. QED
      BY <3>1, <3>2
  <2>2. CASE answer.kind # "result"
    BY <2>2 DEF Answer, Discard, Stored
  <2>3. QED
    BY <2>1, <2>2
<1>4. TypeOK'
  <2>1. pc' \in [Callers -> Places] /\ reply' \in [Callers -> Answers]
    BY <1>1 DEF IInv, TypeOK, Places
  <2>2. \A d \in Callers : pc'[d] = IF d = c THEN "answered" ELSE pc[d]
    BY <1>1 DEF IInv, TypeOK
  <2>3. QED
    BY <1>1, <1>2, <1>3, <2>1, <2>2 DEF IInv, TypeOK
<1>5. Knows(c)' /\ \A d \in Callers \ {c} : Apart(c, d)'
  BY <1>1, <1>2, <1>3 DEF IInv, TypeOK, Knows, Apart, SameKey
<1>6. IInv'
  BY <1>1, <1>2, <1>3, <1>4, <1>5, LocalStep DEF IInv, TypeOK
<1>7. QED
  BY <1>1, <1>2, <1>3, <1>6

\* A settled key has a claim whose provenance is there: the replay is the answer
\* the claim's move was given, or a refusal of another request.
LEMMA ReplayIs ==
  ASSUME IInv, NEW c \in Callers, ClaimsFor(c) # {}
  PROVE  /\ Replay(c) \in Answers
         /\ \E a \in ClaimsFor(c) :
              /\ a \in table["history"] /\ a \in Attempts /\ SameKey(Wanted(a), request[c])
              /\ Replay(c) = IF Wanted(a) # request[c] THEN KeyReuse ELSE Made(a)
<1> DEFINE a == CHOOSE x \in ClaimsFor(c) : TRUE
<1>1. a \in ClaimsFor(c)
  OBVIOUS
<1>2. a \in table["claim"] /\ SameKey(Wanted(a), request[c])
  BY <1>1 DEF ClaimsFor
<1>3. a \in table["history"] /\ a \in table["provenance"] /\ a \in table["event"]
  BY <1>2 DEF IInv, EveryMoveLeavesItsArtifacts
<1>4. a \in Attempts
  BY <1>3 DEF IInv, TypeOK, Records
<1>5. Replay(c) = IF Wanted(a) # request[c] THEN KeyReuse ELSE Made(a)
  BY <1>3 DEF Replay
<1>6. Replay(c) \in Answers
  BY <1>4, <1>5 DEF Answers, Made
<1>7. QED
  BY <1>1, <1>2, <1>3, <1>4, <1>5, <1>6

\* What a call has written, by where it is.
LEMMA Writing ==
  ASSUME TypeOK, NEW c \in Callers
  PROVE  /\ pc[c] = "claim" => mine[c] = {"instance", "history", "audit"}
         /\ pc[c] = "commit" => mine[c] = {"instance", "history", "audit"} \cup Artifacts(c)
         /\ pc[c] \notin {"claim", "commit"} => mine[c] = {}
BY DEF TypeOK, Artifacts, Tables, Records

\* Somewhere else with nothing written: a step that only moves on.
LEMMA StepOn ==
  ASSUME IInv, NEW c \in Callers, NEW place \in Places, place \notin {"claim", "commit"},
         NEW row \in Row \cup {Absent},
         pc[c] # "answered", pc[c] # "acknowledge", place # "answered",
         UNCHANGED <<request, try, instance, table, reply>>,
         pc' = [pc EXCEPT ![c] = place], mine' = [mine EXCEPT ![c] = {}],
         seen' = [seen EXCEPT ![c] = row],
         Knows(c)'
  PROVE  IInv'
<1>1. \A d \in Callers : /\ pc'[d] = IF d = c THEN place ELSE pc[d]
                         /\ mine'[d] = IF d = c THEN {} ELSE mine[d]
                         /\ seen'[d] = IF d = c THEN row ELSE seen[d]
  BY DEF IInv, TypeOK
<1>2. TypeOK'
  <2>1. /\ pc' \in [Callers -> Places] /\ seen' \in [Callers -> Row \cup {Absent}]
        /\ mine' \in [Callers -> SUBSET Tables]
    BY DEF IInv, TypeOK
  <2>2. QED
    BY <1>1, <2>1 DEF IInv, TypeOK
<1>3. \A d \in Callers \ {c} : Apart(c, d)'
  BY <1>1 DEF Apart
<1>4. \A d \in Callers \ {c} : /\ pc'[d] = pc[d] /\ try'[d] = try[d] /\ seen'[d] = seen[d]
                               /\ mine'[d] = mine[d] /\ reply'[d] = reply[d]
  BY <1>1
<1>5. try'[c] = try[c] /\ (pc[c] = "acknowledge" => pc'[c] = "answered") /\ pc[c] # "answered"
  OBVIOUS
<1>6. QED
  BY <1>2, <1>3, <1>4, <1>5, LocalStep

LEMMA ResolveKeepsIInv ==
  ASSUME IInv, NEW c \in Callers, Resolve(c)
  PROVE  IInv'
<1> DEFINE row == instance[Here(c)]
<1>1. pc[c] = "resolve" /\ mine[c] = {}
  BY Writing DEF Resolve, IInv
<1>2. CASE ~(Visible(c) /\ row # Absent)
  <2>1. Answer(c, Conflict) /\ Conflict \in Answers
    BY <1>2 DEF Resolve, Here, Answers
  <2>2. QED
    BY <1>1, <2>1, AnswerStep
<1>3. CASE Visible(c) /\ row # Absent
  <2>1. /\ seen' = [seen EXCEPT ![c] = row] /\ pc' = [pc EXCEPT ![c] = "lookup"]
        /\ UNCHANGED <<request, try, mine, instance, table, reply>>
    BY <1>3 DEF Resolve, Here, GoTo, Stored
  <2>2. Here(c) \in Instances /\ row \in Row
    BY <1>3, RequestType DEF IInv, TypeOK
  <2>3. mine' = [mine EXCEPT ![c] = {}]
    BY <1>1, <2>1 DEF IInv, TypeOK
  <2>4. WasAt(Here(c), row.state, row.revision)
    BY <1>3, <2>2 DEF IInv, Paths, Path
  <2>5. /\ Here(c)' = Here(c) /\ Visible(c)' = Visible(c)
        /\ WasAt(Here(c), row.state, row.revision)' = WasAt(Here(c), row.state, row.revision)
    BY <2>1 DEF Here, Visible, WasAt, HistoryOf, Wanted
  <2>6. pc'[c] = "lookup" /\ seen'[c] = row /\ reply'[c] = NoReply
    BY <1>1, <2>1 DEF IInv, TypeOK, Knows
  <2>7. Knows(c)'
    <3>1. WasAt(Here(c), seen[c].state, seen[c].revision)'
      BY <2>1, <2>4, <2>6 DEF Here, WasAt, HistoryOf, Wanted
    <3>2. QED
      BY <1>3, <2>5, <2>6, <3>1 DEF Knows
  <2>8. QED
    BY <1>1, <2>1, <2>2, <2>3, <2>7, StepOn DEF Places
<1>4. QED
  BY <1>2, <1>3

LEMMA LookupKeepsIInv ==
  ASSUME IInv, NEW c \in Callers, Lookup(c)
  PROVE  IInv'
<1>1. pc[c] = "lookup" /\ mine[c] = {}
  BY Writing DEF Lookup, IInv
<1>2. CASE ClaimsFor(c) # {}
  BY <1>1, <1>2, AnswerStep, ReplayIs DEF Lookup
<1>3. CASE ClaimsFor(c) = {} /\ seen[c] = Expected(c) /\ ~Allowed(request[c].state, request[c].target)
  <2>1. Answer(c, NotAllowed) /\ NotAllowed \in Answers
    BY <1>3 DEF Lookup, Answers
  <2>2. QED
    BY <1>1, <2>1, AnswerStep
<1>4. CASE ClaimsFor(c) = {} /\ ~(seen[c] = Expected(c) /\ ~Allowed(request[c].state, request[c].target))
  <2> DEFINE place == IF seen[c] = Expected(c) THEN "update" ELSE "relookup"
  <2>1. pc' = [pc EXCEPT ![c] = place] /\ UNCHANGED <<request, try, seen, mine, instance, table, reply>>
    BY <1>4 DEF Lookup, GoTo, Stored
  <2>2. mine' = [mine EXCEPT ![c] = {}] /\ seen' = [seen EXCEPT ![c] = seen[c]]
        /\ seen[c] \in Row \cup {Absent} /\ pc'[c] = place
    BY <1>1, <2>1 DEF IInv, TypeOK
  <2>3. Knows(c)'
    BY <1>1, <1>4, <2>1, <2>2 DEF IInv, Knows, Here, Visible, WasAt, HistoryOf, Wanted
  <2>4. QED
    BY <1>1, <2>1, <2>2, <2>3, StepOn DEF Places
<1>5. QED
  BY <1>2, <1>3, <1>4

LEMMA UpdateKeepsIInv ==
  ASSUME IInv, NEW c \in Callers, Update(c)
  PROVE  IInv'
<1>1. pc[c] = "update" /\ mine[c] = {} /\ ~RowIsHeld(c)
  BY Writing DEF Update, IInv
<1>2. CASE instance[Here(c)] # Expected(c)
  <2>1. /\ pc' = [pc EXCEPT ![c] = "relookup"]
        /\ UNCHANGED <<request, try, seen, mine, instance, table, reply>>
    BY <1>2 DEF Update, GoTo, Stored, Here
  <2>2. mine' = [mine EXCEPT ![c] = {}] /\ seen' = [seen EXCEPT ![c] = seen[c]]
        /\ seen[c] \in Row \cup {Absent} /\ pc'[c] = "relookup"
    BY <1>1, <2>1 DEF IInv, TypeOK
  <2>3. Knows(c)'
    BY <1>1, <2>1, <2>2 DEF IInv, Knows
  <2>4. QED
    BY <1>1, <2>1, <2>2, <2>3, StepOn DEF Places
<1>3. CASE instance[Here(c)] = Expected(c)
  <2> DEFINE written == {"instance", "history", "audit"}
  <2>1. /\ pc' = [pc EXCEPT ![c] = "claim"] /\ mine' = [mine EXCEPT ![c] = written]
        /\ UNCHANGED <<request, try, seen, instance, table, reply>>
    BY <1>3 DEF Update, GoTo, Stored, Here
  <2>2. \A d \in Callers : /\ pc'[d] = IF d = c THEN "claim" ELSE pc[d]
                           /\ mine'[d] = IF d = c THEN written ELSE mine[d]
    BY <2>1 DEF IInv, TypeOK
  <2>3. TypeOK'
    <3>1. pc' \in [Callers -> Places] /\ mine' \in [Callers -> SUBSET Tables]
      BY <2>1 DEF IInv, TypeOK, Places, Tables, Records
    <3>2. QED
      BY <2>1, <2>2, <3>1 DEF IInv, TypeOK
  <2>4. Knows(c)'
    <3>1. /\ Here(c)' = Here(c) /\ Visible(c)' = Visible(c) /\ Expected(c)' = Expected(c)
      BY <2>1 DEF Here, Visible, Expected
    <3>2. QED
      BY <1>1, <1>3, <2>1, <2>2, <3>1 DEF IInv, Knows
  <2>5. \A d \in Callers \ {c} : Apart(c, d)'
    BY <1>1, <2>1, <2>2 DEF Apart, RowIsHeld, Here
  <2>6. QED
    BY <1>1, <2>1, <2>2, <2>3, <2>4, <2>5, LocalStep
<1>4. QED
  BY <1>2, <1>3

LEMMA RelookupKeepsIInv ==
  ASSUME IInv, NEW c \in Callers, Relookup(c)
  PROVE  IInv'
<1>1. pc[c] = "relookup" /\ mine[c] = {}
  BY Writing DEF Relookup, IInv
<1>2. Conflict \in Answers
  BY DEF Answers
<1>3. QED
  BY <1>1, <1>2, AnswerStep, ReplayIs DEF Relookup

LEMMA ClaimKeepsIInv ==
  ASSUME IInv, NEW c \in Callers, Claim(c)
  PROVE  IInv'
<1>1. pc[c] = "claim" /\ mine[c] = {"instance", "history", "audit"} /\ ~KeyIsHeld(c)
  BY Writing DEF Claim, IInv
<1>2. CASE ClaimsFor(c) # {}
  <2>1. /\ pc' = [pc EXCEPT ![c] = "rescue"] /\ mine' = [mine EXCEPT ![c] = {}]
        /\ UNCHANGED <<request, try, seen, instance, table, reply>>
    BY <1>2 DEF Claim, GoTo, Stored, Discard
  <2>2. seen' = [seen EXCEPT ![c] = seen[c]] /\ seen[c] \in Row \cup {Absent} /\ pc'[c] = "rescue"
    BY <1>1, <2>1 DEF IInv, TypeOK
  <2>3. Knows(c)'
    BY <1>1, <1>2, <2>1, <2>2 DEF IInv, Knows, ClaimsFor, Wanted
  <2>4. QED
    BY <1>1, <2>1, <2>2, <2>3, StepOn DEF Places
<1>3. CASE ClaimsFor(c) = {}
  <2> DEFINE written == {"instance", "history", "audit"} \cup Artifacts(c)
  <2>1. /\ pc' = [pc EXCEPT ![c] = "commit"] /\ mine' = [mine EXCEPT ![c] = @ \cup Artifacts(c)]
        /\ UNCHANGED <<request, try, seen, instance, table, reply>>
    BY <1>3 DEF Claim, Append, GoTo, Stored
  <2>2. \A d \in Callers : /\ pc'[d] = IF d = c THEN "commit" ELSE pc[d]
                           /\ mine'[d] = IF d = c THEN written ELSE mine[d]
    BY <1>1, <2>1 DEF IInv, TypeOK
  <2>3. TypeOK'
    <3>1. pc' \in [Callers -> Places] /\ mine' \in [Callers -> SUBSET Tables]
      BY <2>1 DEF IInv, TypeOK, Places, Tables, Records, Artifacts
    <3>2. written = Tables \ (IF Keyed(request[c]) THEN {} ELSE {"claim", "provenance"})
      BY DEF Tables, Records, Artifacts
    <3>3. QED
      BY <2>1, <2>2, <3>1, <3>2 DEF IInv, TypeOK
  <2>4. Knows(c)'
    <3>1. /\ Here(c)' = Here(c) /\ Visible(c)' = Visible(c) /\ Expected(c)' = Expected(c)
          /\ ClaimsFor(c)' = ClaimsFor(c)
      BY <2>1 DEF Here, Visible, Expected, ClaimsFor, Wanted
    <3>2. QED
      BY <1>1, <1>3, <2>1, <2>2, <3>1 DEF IInv, Knows
  <2>5. \A d \in Callers \ {c} : Apart(c, d)'
    <3> SUFFICES ASSUME NEW d \in Callers \ {c} PROVE Apart(c, d)'
      OBVIOUS
    <3>1. "instance" \in mine[d] => Here(c) # Here(d)
      BY <1>1 DEF IInv, Apart
    <3>2. "claim" \in mine[d] => ~SameKey(request[c], request[d])
      BY <1>1 DEF KeyIsHeld, SameKey, Keyed
    <3>3. QED
      BY <2>1, <2>2, <3>1, <3>2 DEF Apart, Here
  <2>6. QED
    BY <1>1, <2>1, <2>2, <2>3, <2>4, <2>5, LocalStep
<1>4. QED
  BY <1>2, <1>3

LEMMA RescueKeepsIInv ==
  ASSUME IInv, NEW c \in Callers, Rescue(c)
  PROVE  IInv'
<1>1. pc[c] = "rescue" /\ mine[c] = {}
  BY Writing DEF Rescue, IInv
<1>2. ClaimsFor(c) # {}
  BY <1>1 DEF IInv, Knows
<1>3. QED
  BY <1>1, <1>2, AnswerStep, ReplayIs DEF Rescue

LEMMA AcknowledgeKeepsIInv ==
  ASSUME IInv, NEW c \in Callers, Acknowledge(c)
  PROVE  IInv'
<1>1. pc[c] = "acknowledge" /\ mine[c] = {}
  BY Writing DEF Acknowledge, IInv
<1>2. Made(Attempt(c)) \in Answers
  BY RequestType DEF IInv, Answers, Made
<1>3. QED
  BY <1>1, <1>2, AnswerStep DEF Acknowledge

LEMMA FailsKeepsIInv ==
  ASSUME IInv, NEW c \in Callers, Fails(c)
  PROVE  IInv'
<1>1. /\ pc[c] # "answered" /\ try[c] < MaxFaults
      /\ try' = [try EXCEPT ![c] = @ + 1] /\ mine' = [mine EXCEPT ![c] = {}]
      /\ pc' = [pc EXCEPT ![c] = "resolve"] /\ seen' = [seen EXCEPT ![c] = Absent]
      /\ UNCHANGED <<request, reply, instance, table>>
  BY DEF Fails, Discard, GoTo, Stored
<1>2. \A d \in Callers : /\ pc'[d] = IF d = c THEN "resolve" ELSE pc[d]
                         /\ mine'[d] = IF d = c THEN {} ELSE mine[d]
                         /\ seen'[d] = IF d = c THEN Absent ELSE seen[d]
                         /\ try'[d] = IF d = c THEN try[d] + 1 ELSE try[d]
  BY <1>1 DEF IInv, TypeOK
<1>3. try[c] \in Nat /\ try[c] + 1 \in 0..MaxFaults
  BY <1>1, LifecycleAssumption DEF IInv, TypeOK
<1>4. TypeOK'
  <2>1. /\ pc' \in [Callers -> Places] /\ mine' \in [Callers -> SUBSET Tables]
        /\ seen' \in [Callers -> Row \cup {Absent}] /\ try' \in [Callers -> 0..MaxFaults]
    BY <1>1, <1>3 DEF IInv, TypeOK, Places
  <2>2. QED
    BY <1>1, <1>2, <2>1 DEF IInv, TypeOK
<1>5. Knows(c)'
  BY <1>1, <1>2 DEF IInv, Knows
<1>6. \A d \in Callers \ {c} : Apart(c, d)'
  BY <1>2 DEF Apart
<1>7. try'[c] > try[c]
  BY <1>2, <1>3
<1>8. QED
  BY <1>1, <1>2, <1>4, <1>5, <1>6, <1>7, LocalStep

-----------------------------------------------------------------------------
(***************************************************************************)
(* Steps that store something                                              *)
(***************************************************************************)
LEMMA CreateKeepsIInv ==
  ASSUME IInv, NEW i \in Instances, Create(i)
  PROVE  IInv'
<1> DEFINE new == [state |-> Initial, revision |-> 0]
<1>1. /\ instance[i] = Absent /\ instance' = [instance EXCEPT ![i] = new]
      /\ UNCHANGED <<request, pc, try, seen, mine, table, reply>>
  BY DEF Create
<1>2. new \in Row
  BY LifecycleAssumption DEF Row
<1>3. \A j \in Instances : instance'[j] = IF j = i THEN new ELSE instance[j]
  BY <1>1 DEF IInv, TypeOK
<1>4. TypeOK'
  BY <1>1, <1>2 DEF IInv, TypeOK
<1>5. /\ \A j : HistoryOf(j)' = HistoryOf(j)
      /\ \A j \in Instances \ {i} : \A state, revision : WasAt(j, state, revision)' <=> WasAt(j, state, revision)
  BY <1>1, <1>3 DEF HistoryOf, Wanted, WasAt
<1>6. Paths'
  <2> SUFFICES ASSUME NEW j \in Instances, instance'[j] # Absent PROVE Path(j)'
    BY <1>2, <1>3, <1>5, LifecycleAssumption DEF IInv, Paths
  <2>1. CASE j = i
    <3>1. HistoryOf(i)' = {} /\ instance'[i] = new
      BY <1>1, <1>3, <1>5 DEF IInv, Paths
    <3>2. WasAt(i, Initial, 0)'
      BY <1>2, <3>1, LifecycleAssumption DEF WasAt
    <3>3. QED
      BY <2>1, <3>1, <3>2, FS_EmptySet DEF Path
  <2>2. CASE j # i
    <3>1. Path(j) /\ instance'[j] = instance[j]
      BY <1>3, <2>2 DEF IInv, Paths
    <3>2. \A r : MoveOfAPath(j, r)' <=> MoveOfAPath(j, r)
      BY <1>1, <1>5, <2>2, <3>1 DEF MoveOfAPath, Wanted
    <3>3. QED
      BY <1>1, <1>5, <2>2, <3>1, <3>2 DEF Path, Wanted
  <2>3. QED
    BY <2>1, <2>2
<1>7. EveryMoveLeavesItsArtifacts' /\ Spent'
  BY <1>1 DEF IInv, EveryMoveLeavesItsArtifacts, Spent, Wanted
<1>8. \A c \in Callers : Knows(c)'
  <2> SUFFICES ASSUME NEW c \in Callers PROVE Knows(c)'
    OBVIOUS
  <2>1. Knows(c)
    BY DEF IInv
  <2>2. Here(c) \in Instances /\ Expected(c) # Absent
    BY RequestType, LifecycleAssumption DEF IInv
  <2>3. instance[Here(c)] # Absent => Here(c) # i /\ instance'[Here(c)] = instance[Here(c)]
    BY <1>1, <1>3, <2>2
  <2>4. instance[Here(c)] = Expected(c) => instance'[Here(c)] = Expected(c)
    BY <1>1, <1>3, <2>2
  <2>5. /\ Here(c)' = Here(c) /\ Visible(c)' = Visible(c) /\ Expected(c)' = Expected(c)
        /\ ClaimsFor(c)' = ClaimsFor(c) /\ Attempt(c)' = Attempt(c)
    BY <1>1 DEF Here, Visible, Expected, ClaimsFor, Wanted, Attempt
  <2>6. WasAt(Here(c), seen[c].state, seen[c].revision) =>
          WasAt(Here(c), seen[c].state, seen[c].revision)'
    BY <1>1, <2>3, <2>5 DEF WasAt, HistoryOf, Wanted
  <2>7. QED
    BY <1>1, <2>1, <2>4, <2>5, <2>6 DEF Knows
<1>9. \A c, d \in Callers : c # d => Apart(c, d)'
  BY <1>1 DEF IInv, Apart, Here
<1>10. QED
  BY <1>4, <1>6, <1>7, <1>8, <1>9 DEF IInv

\* A recorded attempt is another one than the attempt in progress.
LEMMA AttemptIsNew ==
  ASSUME IInv, NEW c \in Callers, pc[c] = "commit"
  PROVE  Attempt(c) \notin table["history"]
<1>1. try[c] \in Nat
  BY DEF IInv, TypeOK
<1>2. QED
  BY <1>1 DEF IInv, Spent, Attempt

\* What a commit stores.
LEMMA CommitStores ==
  ASSUME IInv, NEW c \in Callers, Commit(c)
  PROVE  /\ pc[c] = "commit" /\ pc' = [pc EXCEPT ![c] = "acknowledge"]
         /\ mine' = [mine EXCEPT ![c] = {}] /\ UNCHANGED <<request, try, seen, reply>>
         /\ Here(c) \in Instances
         /\ instance' = [instance EXCEPT ![Here(c)] = Moved(c)]
         /\ Attempt(c) \in Attempts /\ Wanted(Attempt(c)) = request[c]
         /\ table' \in [Records -> SUBSET Attempts]
         /\ \A t \in {"history", "audit", "event"} : table'[t] = table[t] \cup {Attempt(c)}
         /\ \A t \in {"claim", "provenance"} :
              table'[t] = IF Keyed(request[c]) THEN table[t] \cup {Attempt(c)} ELSE table[t]
<1>1. pc[c] = "commit" /\ mine[c] = {"instance", "history", "audit"} \cup Artifacts(c)
  BY Writing DEF IInv, Commit
<1>2. /\ pc' = [pc EXCEPT ![c] = "acknowledge"] /\ mine' = [mine EXCEPT ![c] = {}]
      /\ UNCHANGED <<request, try, seen, reply>>
      /\ instance' = [instance EXCEPT ![Here(c)] = Moved(c)]
  BY <1>1 DEF Commit, Publish, GoTo, Here
<1>3. Here(c) \in Instances /\ Attempt(c) \in Attempts
  BY RequestType DEF IInv
<1>4. Wanted(Attempt(c)) = request[c]
  BY DEF Wanted, Attempt
<1>5. table' = [t \in Records |-> IF t \in mine[c] THEN table[t] \cup {Attempt(c)} ELSE table[t]]
  BY DEF Commit, Publish
<1>6. table' \in [Records -> SUBSET Attempts]
  BY <1>3, <1>5 DEF IInv, TypeOK
<1>7. \A t \in Records : t \in mine[c] <=> (t \in {"claim", "provenance"} => Keyed(request[c]))
  BY <1>1 DEF Records, Artifacts
<1>8. QED
  BY <1>1, <1>2, <1>3, <1>4, <1>5, <1>6, <1>7 DEF Records

\* A commit extends the history it stands on, and no other.
LEMMA CommitExtends ==
  ASSUME IInv, NEW c \in Callers, Commit(c)
  PROVE  /\ instance[Here(c)] = Expected(c) /\ instance'[Here(c)] = Moved(c)
         /\ Expected(c) # Absent /\ Moved(c) # Absent
         /\ HistoryOf(Here(c))' = HistoryOf(Here(c)) \cup {Attempt(c)}
         /\ Attempt(c) \notin HistoryOf(Here(c))
         /\ \A j \in Instances \ {Here(c)} : instance'[j] = instance[j] /\ HistoryOf(j)' = HistoryOf(j)
         /\ \A j \in Instances : \A state, revision : WasAt(j, state, revision) => WasAt(j, state, revision)'
<1>1. /\ instance' = [instance EXCEPT ![Here(c)] = Moved(c)] /\ Here(c) \in Instances
      /\ pc[c] = "commit" /\ request' = request
      /\ table'["history"] = table["history"] \cup {Attempt(c)} /\ Wanted(Attempt(c)) = request[c]
  BY CommitStores
<1>2. instance[Here(c)] = Expected(c) /\ instance'[Here(c)] = Moved(c)
  BY <1>1 DEF IInv, Knows, TypeOK
<1>3. Expected(c) # Absent /\ Moved(c) # Absent
  BY RequestType, LifecycleAssumption DEF IInv
<1>4. HistoryOf(Here(c))' = HistoryOf(Here(c)) \cup {Attempt(c)}
  BY <1>1 DEF HistoryOf, Wanted, Here
<1>5. Attempt(c) \notin HistoryOf(Here(c))
  BY <1>1, AttemptIsNew DEF HistoryOf
<1>6. \A j \in Instances \ {Here(c)} : instance'[j] = instance[j] /\ HistoryOf(j)' = HistoryOf(j)
  BY <1>1 DEF HistoryOf, Wanted, Here, IInv, TypeOK
<1>7. ASSUME NEW j \in Instances, NEW state, NEW revision, WasAt(j, state, revision)
      PROVE  WasAt(j, state, revision)'
  <2>1. CASE j # Here(c)
    BY <1>1, <1>6, <1>7, <2>1 DEF WasAt, Wanted
  <2>2. CASE j = Here(c)
    <3>1. revision \in 0..instance[j].revision /\ instance[j].revision = request[c].revision
      BY <1>2, <1>7, <2>2 DEF WasAt, Expected
    <3>2. revision \in 0..instance'[j].revision /\ instance'[j] # Absent
      BY <1>2, <1>3, <2>2, <3>1, RequestType DEF Moved, IInv
    <3>3. HistoryOf(j) \subseteq HistoryOf(j)'
      BY <1>1, <2>2 DEF HistoryOf, Wanted
    <3>4. QED
      BY <1>1, <1>7, <3>2, <3>3 DEF WasAt, Wanted
  <2>3. QED
    BY <2>1, <2>2
<1>8. QED
  BY <1>2, <1>3, <1>4, <1>5, <1>6, <1>7

LEMMA CommitKeepsPath ==
  ASSUME IInv, NEW c \in Callers, Commit(c), NEW i, i = Here(c), NEW r, r = request[c],
         NEW m, m = Attempt(c)
  PROVE  Path(i)'
<1> DEFINE H == HistoryOf(i)
<1>1. /\ i \in Instances /\ request' = request /\ Wanted(m) = r /\ pc[c] = "commit"
      /\ \A a : Wanted(a)' = Wanted(a)
  BY CommitStores DEF Wanted
<1>2. /\ instance[i] = Expected(c) /\ instance'[i] = Moved(c) /\ instance[i] # Absent
      /\ instance'[i] # Absent /\ m \notin H /\ HistoryOf(i)' = H \cup {m}
  <2>1. HistoryOf(i)' = H \cup {m}
    BY <1>1, CommitStores DEF HistoryOf, Here
  <2>2. QED
    BY <2>1, CommitExtends
<1>3. /\ instance[i].state = r.state /\ instance[i].revision = r.revision /\ r.revision \in Nat
      /\ instance'[i].state = r.target /\ instance'[i].revision = r.revision + 1
  <2>1. r.revision \in Nat
    BY RequestType DEF IInv
  <2>2. Expected(c).state = r.state /\ Expected(c).revision = r.revision
    BY DEF Expected
  <2>3. Moved(c).state = r.target /\ Moved(c).revision = r.revision + 1
    BY DEF Moved
  <2>4. QED
    BY <1>2, <2>1, <2>2, <2>3
<1>4. Path(i)
  BY <1>1, <1>2 DEF IInv, Paths
<1>5. Allowed(r.state, r.target) /\ r.tenant = TenantOf[i]
  BY <1>1 DEF IInv, Knows, Visible, Here
<1>6. \A a \in H : Wanted(a).revision \in Nat /\ Wanted(a).revision < r.revision
  <2>1. \A a \in H : Wanted(a).revision < r.revision /\ Wanted(a).revision \in 0..r.revision
    BY <1>3, <1>4 DEF Path, MoveOfAPath, WasAt
  <2>2. QED
    BY <1>3, <2>1
<1>7. IsFiniteSet(H \cup {m}) /\ Cardinality(H \cup {m}) = r.revision + 1
  <2>1. IsFiniteSet(H) /\ Cardinality(H) = r.revision
    BY <1>3, <1>4 DEF Path
  <2>2. m \notin H
    BY <1>2
  <2>3. QED
    BY <2>1, <2>2, FS_AddElement
<1>8. WasAt(i, r.target, r.revision + 1)'
  BY <1>1, <1>2, <1>3 DEF WasAt
<1>9. MoveOfAPath(i, r)'
  <2>1. WasAt(i, r.state, r.revision)'
    BY <1>1, <1>3, <1>4, CommitExtends DEF Path
  <2>2. QED
    BY <1>1, <1>3, <1>5, <2>1 DEF MoveOfAPath
<1>10. ASSUME NEW a \in H, NEW q, q = Wanted(a) PROVE MoveOfAPath(i, q)'
  <2>1. MoveOfAPath(i, q)
    BY <1>4, <1>10 DEF Path
  <2>2. WasAt(i, q.state, q.revision)'
    BY <1>1, <2>1, CommitExtends DEF MoveOfAPath
  <2>3. q.revision < instance'[i].revision
    BY <1>3, <1>6, <1>10
  <2>4. \E b \in H \cup {m} : Wanted(b).revision = q.revision + 1
    BY <1>1, <1>3, <1>6, <2>1 DEF MoveOfAPath
  <2>5. QED
    BY <1>1, <1>2, <2>1, <2>2, <2>3, <2>4 DEF MoveOfAPath
<1>11. \A a, b \in H \cup {m} : Wanted(a).revision = Wanted(b).revision => a = b
  BY <1>1, <1>3, <1>4, <1>6 DEF Path
<1>12. \A a \in H \cup {m} : \A q : q = Wanted(a) => MoveOfAPath(i, q)'
  BY <1>1, <1>9, <1>10
<1>13. \A a \in H \cup {m} : MoveOfAPath(i, Wanted(a))'
  BY <1>1, <1>12
<1>14. QED
  BY <1>1, <1>2, <1>3, <1>7, <1>8, <1>11, <1>13 DEF Path

LEMMA CommitKeepsPaths ==
  ASSUME IInv, NEW c \in Callers, Commit(c)
  PROVE  Paths'
<1> SUFFICES ASSUME NEW j \in Instances
             PROVE  IF instance'[j] = Absent THEN HistoryOf(j)' = {} ELSE Path(j)'
  BY DEF Paths
<1>1. CASE j = Here(c)
  <2>1. \A i, r, m : i = Here(c) /\ r = request[c] /\ m = Attempt(c) => Path(i)'
    BY CommitKeepsPath
  <2>2. QED
    BY <1>1, <2>1, CommitExtends
<1>2. CASE j # Here(c)
  <2>1. /\ instance'[j] = instance[j] /\ HistoryOf(j)' = HistoryOf(j) /\ request' = request
        /\ \A a : Wanted(a)' = Wanted(a)
    BY <1>2, CommitExtends, CommitStores DEF Wanted
  <2>2. CASE instance[j] = Absent
    BY <2>1, <2>2 DEF IInv, Paths
  <2>3. CASE instance[j] # Absent
    <3>1. Path(j)
      BY <2>3 DEF IInv, Paths
    <3>2. \A q : MoveOfAPath(j, q) => MoveOfAPath(j, q)'
      BY <2>1, CommitExtends DEF MoveOfAPath
    <3>3. WasAt(j, instance[j].state, instance[j].revision)'
      <4>1. \A state, revision : state = instance[j].state /\ revision = instance[j].revision =>
              WasAt(j, state, revision)'
        BY <3>1, CommitExtends DEF Path
      <4>2. QED
        BY <2>1, <4>1
    <3>4. QED
      BY <2>1, <2>3, <3>1, <3>2, <3>3 DEF Path
  <2>4. QED
    BY <2>2, <2>3
<1>3. QED
  BY <1>1, <1>2

LEMMA CommitKeepsIInv ==
  ASSUME IInv, NEW c \in Callers, Commit(c)
  PROVE  IInv'
<1> DEFINE m == Attempt(c)
<1>1. /\ pc[c] = "commit" /\ pc' = [pc EXCEPT ![c] = "acknowledge"]
      /\ mine' = [mine EXCEPT ![c] = {}] /\ UNCHANGED <<request, try, seen, reply>>
      /\ Here(c) \in Instances /\ instance' = [instance EXCEPT ![Here(c)] = Moved(c)]
      /\ m \in Attempts /\ Wanted(m) = request[c] /\ table' \in [Records -> SUBSET Attempts]
  BY CommitStores
<1>2. /\ \A t \in {"history", "audit", "event"} : table'[t] = table[t] \cup {m}
      /\ \A t \in {"claim", "provenance"} :
           table'[t] = IF Keyed(request[c]) THEN table[t] \cup {m} ELSE table[t]
  BY CommitStores
<1>3. \A d \in Callers : /\ pc'[d] = IF d = c THEN "acknowledge" ELSE pc[d]
                         /\ mine'[d] = IF d = c THEN {} ELSE mine[d]
  BY <1>1 DEF IInv, TypeOK
<1>4. TypeOK'
  <2>1. pc' \in [Callers -> Places] /\ mine' \in [Callers -> SUBSET Tables]
    BY <1>1 DEF IInv, TypeOK, Places
  <2>2. instance' \in [Instances -> Row \cup {Absent}]
    BY <1>1, RequestType DEF IInv, TypeOK
  <2>3. QED
    BY <1>1, <1>3, <2>1, <2>2 DEF IInv, TypeOK
<1>5. EveryMoveLeavesItsArtifacts'
  <2>1. \A a : Wanted(a)' = Wanted(a)
    BY <1>1 DEF Wanted
  <2>2. /\ table'["audit"] = table'["history"] /\ table'["event"] = table'["history"]
        /\ table'["provenance"] = table'["claim"]
        /\ table'["claim"] = {a \in table'["history"] : Keyed(Wanted(a))}
    BY <1>1, <1>2 DEF IInv, EveryMoveLeavesItsArtifacts
  <2>3. \A a, b \in table'["claim"] : SameKey(Wanted(a), Wanted(b)) => a = b
    <3>1. ClaimsFor(c) = {}
      BY <1>1 DEF IInv, Knows
    <3>2. \A a \in table["claim"] : ~SameKey(Wanted(a), request[c]) /\ ~SameKey(request[c], Wanted(a))
      BY <3>1 DEF ClaimsFor, SameKey, Keyed
    <3>3. QED
      BY <1>1, <1>2, <3>2 DEF IInv, EveryMoveLeavesItsArtifacts
  <2>4. QED
    BY <2>1, <2>2, <2>3 DEF EveryMoveLeavesItsArtifacts
<1>6. Spent'
  <2> SUFFICES ASSUME NEW a \in table'["history"]
               PROVE  \/ a.try < try[a.caller]
                      \/ a.try = try[a.caller] /\ pc'[a.caller] \in {"acknowledge", "answered"}
    BY <1>1 DEF Spent
  <2>1. CASE a \in table["history"]
    <3>1. a.caller \in Callers
      BY <2>1 DEF IInv, TypeOK, Attempts, Records
    <3>2. QED
      BY <1>3, <2>1, <3>1 DEF IInv, Spent
  <2>2. CASE a = m
    BY <1>3, <2>2 DEF Attempt
  <2>3. QED
    BY <1>2, <2>1, <2>2
<1>7. ASSUME NEW d \in Callers PROVE Knows(d)'
  <2>1. Knows(d) /\ Here(d) \in Instances
    BY RequestType DEF IInv
  <2>2. /\ Here(d)' = Here(d) /\ Visible(d)' = Visible(d) /\ Expected(d)' = Expected(d)
        /\ Attempt(d)' = Attempt(d) /\ seen'[d] = seen[d] /\ reply'[d] = reply[d]
        /\ request' = request
    BY <1>1 DEF Here, Visible, Expected, Attempt
  <2>3. ClaimsFor(d) \subseteq ClaimsFor(d)'
    BY <1>1, <1>2 DEF ClaimsFor, Wanted
  <2>4. CASE d = c
    BY <1>1, <1>2, <1>3, <2>1, <2>2, <2>4 DEF Knows
  <2>5. CASE d # c
    <3>1. WasAt(Here(d), seen[d].state, seen[d].revision) =>
            WasAt(Here(d), seen[d].state, seen[d].revision)'
      <4>1. ASSUME NEW j \in Instances, NEW row, WasAt(j, row.state, row.revision)
            PROVE  WasAt(j, row.state, row.revision)'
        BY <4>1, CommitExtends
      <4> DEFINE j == Here(d)
                 row == seen[d]
      <4>2. j' = j /\ row' = row
        BY <2>2
      <4>3. QED
        BY <2>1, <4>1, <4>2
    <3>2. pc[d] \in {"claim", "commit"} => Here(d) # Here(c)
      BY <1>1, <2>5, Writing DEF IInv, Apart
    <3>3. pc[d] \in {"claim", "commit"} => instance'[Here(d)] = Expected(d)
      BY <2>1, <3>2, CommitExtends DEF Knows
    <3>4. pc[d] = "commit" => ClaimsFor(d)' = {}
      <4>1. SUFFICES ASSUME pc[d] = "commit", NEW a \in table'["claim"]
                     PROVE  ~SameKey(Wanted(a), request[d])
        BY <1>1 DEF ClaimsFor, Wanted
      <4>2. CASE a \in table["claim"]
        BY <2>1, <4>1, <4>2 DEF Knows, ClaimsFor
      <4>3. CASE a = m /\ Keyed(request[c])
        <5>1. "claim" \in mine[c]
          BY <1>1, <4>3, Writing DEF IInv, Artifacts
        <5>2. Keyed(request[d]) => "claim" \in mine[d]
          BY <4>1, Writing DEF IInv, Artifacts
        <5>3. Keyed(request[d]) => ~SameKey(request[c], request[d])
          BY <2>5, <5>1, <5>2 DEF IInv, Apart
        <5>4. QED
          BY <1>1, <4>3, <5>3 DEF SameKey, Keyed
      <4>4. QED
        BY <1>2, <4>1, <4>2, <4>3
    <3>5. pc'[d] = pc[d] /\ table["history"] \subseteq table'["history"]
      BY <1>2, <1>3, <2>5
    <3>6. pc[d] \in {"lookup", "update"} => WasAt(Here(d), seen[d].state, seen[d].revision)'
      BY <2>1, <3>1 DEF Knows
    <3>7. QED
      BY <2>1, <2>2, <2>3, <3>3, <3>4, <3>5, <3>6 DEF Knows
  <2>6. QED
    BY <2>4, <2>5
<1>8. \A d, e \in Callers : d # e => Apart(d, e)'
  BY <1>1, <1>3 DEF IInv, Apart, Here
<1>9. QED
  BY <1>4, <1>5, <1>6, <1>7, <1>8, CommitKeepsPaths DEF IInv

LEMMA NextKeepsIInv == IInv /\ [Next]_vars => IInv'
<1> SUFFICES ASSUME IInv, [Next]_vars PROVE IInv'
  OBVIOUS
<1>1. CASE UNCHANGED vars
  <2>1. UNCHANGED <<request, pc, try, seen, mine, instance, table, reply>>
    BY <1>1 DEF vars
  <2>2. TypeOK' /\ EveryMoveLeavesItsArtifacts' /\ Spent'
    BY <2>1 DEF IInv, TypeOK, EveryMoveLeavesItsArtifacts, Spent, Wanted
  <2>3. Paths' /\ \A d \in Callers : Knows(d)'
    BY <2>1, StoredStays, KnowledgeStays DEF IInv
  <2>4. \A c, d \in Callers : c # d => Apart(c, d)'
    BY <2>1 DEF IInv, Apart, Here
  <2>5. QED
    BY <2>2, <2>3, <2>4 DEF IInv
<1>2. CASE Next
  BY <1>2, CreateKeepsIInv, ResolveKeepsIInv, LookupKeepsIInv, UpdateKeepsIInv, RelookupKeepsIInv,
     ClaimKeepsIInv, RescueKeepsIInv, CommitKeepsIInv, AcknowledgeKeepsIInv, FailsKeepsIInv
     DEF Next, Step
<1>3. QED
  BY <1>1, <1>2

LEMMA Invariant == Spec => []IInv
BY InitIInv, NextKeepsIInv, PTL DEF Spec

-----------------------------------------------------------------------------
(***************************************************************************)
(* What the callers see is the promise                                     *)
(***************************************************************************)
LEMMA WholeLemma == IInv => RecordIsWhole
<1> SUFFICES ASSUME IInv, NEW i \in Instances, instance[i] # Absent
             PROVE  /\ Cardinality(HistoryOf(i)) = instance[i].revision
                    /\ instance[i].revision = 0 => instance[i].state = Initial
                    /\ \A a \in HistoryOf(i) :
                         LET r == Wanted(a) IN
                         /\ Allowed(r.state, r.target)
                         /\ IF r.revision = 0 THEN r.state = Initial
                            ELSE \E b \in HistoryOf(i) : /\ Wanted(b).revision + 1 = r.revision
                                                         /\ Wanted(b).target = r.state
                         /\ IF r.revision + 1 = instance[i].revision
                              THEN r.target = instance[i].state
                              ELSE \E b \in HistoryOf(i) : Wanted(b).revision = r.revision + 1
  BY DEF RecordIsWhole, HistoryIsAPath, IInv, Paths
<1>1. Path(i)
  BY DEF IInv, Paths
<1>2. instance[i].revision = 0 => instance[i].state = Initial
  BY <1>1 DEF Path, WasAt
<1>3. ASSUME NEW a \in HistoryOf(i), Wanted(a).revision + 1 = instance[i].revision
      PROVE  Wanted(a).target = instance[i].state
  <2>1. /\ Wanted(a).revision \in Nat /\ instance[i].revision \in Nat
        /\ \A b \in HistoryOf(i) : Wanted(b).revision \in Nat
    <3>1. \A b \in HistoryOf(i) : b.caller \in Callers
      BY DEF IInv, TypeOK, HistoryOf, Records, Attempts
    <3>2. \A b \in HistoryOf(i) : Wanted(b).revision \in Nat
      BY <3>1, RequestType DEF IInv, Wanted
    <3>3. QED
      BY <1>3, <3>2
  <2>2. PICK b \in HistoryOf(i) : /\ Wanted(b).revision + 1 = instance[i].revision
                                  /\ Wanted(b).target = instance[i].state
    BY <1>1, <1>3, <2>1 DEF Path, WasAt
  <2>3. a = b
    BY <1>1, <1>3, <2>1, <2>2 DEF Path
  <2>4. QED
    BY <2>2, <2>3
<1>4. \A a \in HistoryOf(i) : MoveOfAPath(i, Wanted(a))
  BY <1>1 DEF Path
<1>5. QED
  BY <1>1, <1>2, <1>3, <1>4 DEF Path, MoveOfAPath, WasAt

\* Where the promise has an instance at a revision is where the history has it.
LEMMA PromisedState ==
  ASSUME IInv, NEW i \in Instances, NEW state, NEW revision, WasAt(i, state, revision)
  PROVE  /\ Promise!Of(i) = HistoryOf(i)
         /\ Promise!StateAt(i, revision) = state
         /\ Promise!Revision(i) = instance[i].revision
<1>1. Promise!Of(i) = HistoryOf(i)
  BY DEF Promise!Of, Promise!Wanted, HistoryOf, Wanted
<1>2. Path(i) /\ instance[i] # Absent
  BY DEF WasAt, IInv, Paths
<1>3. Promise!Revision(i) = instance[i].revision
  <2>1. Promise!Revision(i) = Cardinality(Promise!Of(i))
    BY DEF Promise!Revision, Promise!Cardinality, Cardinality
  <2>2. QED
    BY <1>1, <1>2, <2>1 DEF Path
<1>4. Promise!StateAt(i, revision) = state
  <2>1. CASE revision = 0
    BY <2>1 DEF WasAt, Promise!StateAt
  <2>2. CASE revision # 0
    <3>1. PICK b \in HistoryOf(i) : Wanted(b).revision + 1 = revision /\ Wanted(b).target = state
      BY <2>2 DEF WasAt
    <3>2. \A a \in HistoryOf(i) : Wanted(a).revision \in Nat
      <4>1. \A a \in HistoryOf(i) : a.caller \in Callers
        BY DEF IInv, TypeOK, HistoryOf, Records, Attempts
      <4>2. QED
        BY <4>1, RequestType DEF IInv, Wanted
    <3>3. Wanted(b).revision = revision - 1
      BY <3>1, <3>2
    <3>4. \A a \in HistoryOf(i) : Wanted(a).revision = revision - 1 => a = b
      BY <1>2, <3>3 DEF Path
    <3>5. (CHOOSE a \in HistoryOf(i) : Wanted(a).revision = revision - 1) = b
      BY <3>1, <3>3, <3>4
    <3>6. \A a : Promise!Wanted(a) = Wanted(a)
      BY DEF Promise!Wanted, Wanted
    <3>7. QED
      BY <1>1, <2>2, <3>1, <3>5, <3>6 DEF Promise!StateAt
  <2>3. QED
    BY <2>1, <2>2
<1>5. QED
  BY <1>1, <1>3, <1>4

\* A key is settled in the promise by the move its claim stands for.
LEMMA Settling ==
  ASSUME IInv, NEW c \in Callers
  PROVE  /\ Promise!Settled(c) = ClaimsFor(c)
         /\ \A a \in table["history"] : ~Keyed(request[c]) => ~SameKey(Wanted(a), request[c])
<1>1. \A a \in table["history"] : SameKey(Wanted(a), request[c]) => Keyed(Wanted(a))
  BY DEF SameKey
<1>2. \A a \in table["history"] : ~Keyed(request[c]) => ~SameKey(Wanted(a), request[c])
  BY DEF SameKey, Keyed
<1>3. table["claim"] = {a \in table["history"] : Keyed(Wanted(a))}
  BY DEF IInv, EveryMoveLeavesItsArtifacts
<1>4. \A a : Promise!SameKey(Promise!Wanted(a), request[c]) <=> SameKey(Wanted(a), request[c])
  BY DEF Promise!SameKey, Promise!Keyed, Promise!Wanted, SameKey, Keyed, Wanted
<1>5. QED
  BY <1>1, <1>2, <1>3, <1>4 DEF Promise!Settled, ClaimsFor

\* An answer is heard in the promise as what it is.
LEMMA Heard ==
  ASSUME IInv, NEW c \in Callers, NEW answer, mine[c] = {}, pc[c] # "answered", answer \in Answers,
         Answer(c, answer),
         \/ /\ answer = Conflict
            /\ \A m \in ClaimsFor(c) : Wanted(m) # request[c]
         \/ /\ answer = NotAllowed
            /\ Visible(c) /\ ~Allowed(request[c].state, request[c].target)
            /\ WasAt(Here(c), request[c].state, request[c].revision)
         \/ \E m \in ClaimsFor(c) : Wanted(m) # request[c] /\ answer = KeyReuse
         \/ \E m \in table["history"] :
              /\ m.caller = c \/ (Keyed(request[c]) /\ Wanted(m) = request[c])
              /\ answer = Made(m)
  PROVE  Promise!Next
<1>1. UNCHANGED <<request, instance, table>> /\ reply' = [reply EXCEPT ![c] = answer]
  BY AnswerStep
<1>2. reply[c] = NoReply
  BY DEF IInv, Knows
<1>3. Promise!Hears(c, answer)
  BY <1>1, <1>2 DEF Promise!Hears
<1>4. CASE answer = Conflict /\ \A m \in ClaimsFor(c) : Wanted(m) # request[c]
  <2>1. Promise!HearConflict(c)
    BY <1>3, <1>4, Settling DEF Promise!HearConflict, Promise!Wanted, Wanted, Promise!Conflict, Conflict
  <2>2. QED
    BY <2>1 DEF Promise!Next
<1>5. CASE /\ answer = NotAllowed
           /\ Visible(c) /\ ~Allowed(request[c].state, request[c].target)
           /\ WasAt(Here(c), request[c].state, request[c].revision)
  <2>1. Here(c) \in Instances
    BY RequestType DEF IInv
  <2>2. /\ Promise!StateAt(Here(c), request[c].revision) = request[c].state
        /\ Promise!Revision(Here(c)) = instance[Here(c)].revision
    BY <1>5, <2>1, PromisedState
  <2>3. instance[Here(c)] # Absent /\ request[c].revision <= instance[Here(c)].revision
    BY <1>5 DEF WasAt
  <2>4. ~Promise!Allowed(request[c].state, request[c].target)
    BY <1>5 DEF Promise!Allowed, Allowed
  <2>5. TenantOf[Here(c)] = request[c].tenant
    BY <1>5 DEF Visible, Here
  <2>6. Promise!HearNotAllowed(c)
    BY <1>3, <1>5, <2>1, <2>2, <2>3, <2>4, <2>5
       DEF Promise!HearNotAllowed, Here, Promise!NotAllowed, NotAllowed
  <2>7. QED
    BY <2>6 DEF Promise!Next
<1>6. CASE \E m \in ClaimsFor(c) : Wanted(m) # request[c] /\ answer = KeyReuse
  <2>1. Promise!HearKeyReuse(c)
    BY <1>3, <1>6, Settling DEF Promise!HearKeyReuse, Promise!Wanted, Wanted, Promise!KeyReuse, KeyReuse
  <2>2. QED
    BY <2>1 DEF Promise!Next
<1>7. CASE \E m \in table["history"] :
             /\ m.caller = c \/ (Keyed(request[c]) /\ Wanted(m) = request[c])
             /\ answer = Made(m)
  <2>1. Promise!HearMade(c)
    BY <1>3, <1>7 DEF Promise!HearMade, Promise!Wanted, Wanted, Promise!Keyed, Keyed, Promise!Made, Made
  <2>2. QED
    BY <2>1 DEF Promise!Next
<1>8. QED
  BY <1>4, <1>5, <1>6, <1>7

\* A replay is heard as the move or as the reuse of its key.
LEMMA ReplayHeard ==
  ASSUME IInv, NEW c \in Callers, mine[c] = {}, pc[c] # "answered", ClaimsFor(c) # {},
         Answer(c, Replay(c))
  PROVE  Promise!Next
<1>1. PICK a \in ClaimsFor(c) :
        /\ a \in table["history"] /\ SameKey(Wanted(a), request[c])
        /\ Replay(c) = IF Wanted(a) # request[c] THEN KeyReuse ELSE Made(a)
  BY ReplayIs
<1>2. Replay(c) \in Answers
  BY ReplayIs
<1>3. Keyed(request[c])
  BY <1>1 DEF SameKey, Keyed
<1>4. QED
  BY <1>1, <1>2, <1>3, Heard

LEMMA PromiseInit == Init => Promise!Init
BY DEF Init, Promise!Init, Records

\* Whoever's move is in a history described a visible instance.
LEMMA NoMoveWithout ==
  ASSUME IInv, NEW c \in Callers, ~(Visible(c) /\ instance[Here(c)] # Absent)
  PROVE  \A m \in ClaimsFor(c) : Wanted(m) # request[c]
<1> SUFFICES ASSUME NEW m \in ClaimsFor(c), Wanted(m) = request[c] PROVE FALSE
  OBVIOUS
<1>1. m \in HistoryOf(Here(c))
  BY DEF ClaimsFor, HistoryOf, Here, IInv, EveryMoveLeavesItsArtifacts
<1>2. Here(c) \in Instances
  BY RequestType DEF IInv
<1>3. instance[Here(c)] # Absent /\ Path(Here(c))
  BY <1>1, <1>2 DEF IInv, Paths
<1>4. request[c].tenant = TenantOf[Here(c)]
  BY <1>1, <1>3 DEF Path, MoveOfAPath
<1>5. QED
  BY <1>3, <1>4 DEF Visible, Here

\* A commit is the move its caller described.
LEMMA CommitIsAMove ==
  ASSUME IInv, NEW c \in Callers, Commit(c)
  PROVE  Promise!Next
<1> DEFINE m == Attempt(c)
<1>1. /\ pc[c] = "commit" /\ m \in Attempts /\ Wanted(m) = request[c] /\ m.caller = c
      /\ table'["history"] = table["history"] \cup {m} /\ UNCHANGED <<request, reply>>
  BY CommitStores DEF Attempt
<1>2. /\ instance[Here(c)] = Expected(c) /\ Expected(c) # Absent /\ Moved(c) # Absent
      /\ Here(c) \in Instances /\ instance' = [instance EXCEPT ![Here(c)] = Moved(c)]
  BY CommitExtends, CommitStores
<1>3. Visible(c) /\ Allowed(request[c].state, request[c].target) /\ ClaimsFor(c) = {}
  BY <1>1 DEF IInv, Knows
<1>4. {i \in Instances : instance'[i] # Absent} = {i \in Instances : instance[i] # Absent}
  BY <1>2 DEF IInv, TypeOK
<1>5. WasAt(Here(c), request[c].state, request[c].revision)
  <2>1. Path(Here(c))
    BY <1>2 DEF IInv, Paths
  <2>2. QED
    BY <1>2, <2>1 DEF Path, Expected
<1>6. /\ Promise!StateAt(Here(c), request[c].revision) = request[c].state
      /\ Promise!Revision(Here(c)) = request[c].revision
  BY <1>2, <1>5, PromisedState DEF Expected
<1>7. Promise!Wanted(m) = request[c]
  BY <1>1 DEF Promise!Wanted
<1>8. Promise!Describes(request[c])
  BY <1>2, <1>3, <1>6 DEF Promise!Describes, Here, Visible
<1>9. Promise!Allowed(request[c].state, request[c].target) /\ Promise!Settled(c) = {}
  BY <1>3, Settling DEF Promise!Allowed, Allowed
<1>10. Promise!Move(m)
  BY <1>1, <1>4, <1>7, <1>8, <1>9 DEF Promise!Move
<1>11. QED
  BY <1>1, <1>10 DEF Promise!Next

LEMMA StepIsPromised ==
  ASSUME IInv, NEW c \in Callers, Step(c) \/ Fails(c)
  PROVE  Promise!Next \/ UNCHANGED Promise!vars
<1>1. CASE UNCHANGED <<request, instance, table, reply>>
  BY <1>1 DEF Promise!vars
<1>2. CASE Resolve(c)
  <2>1. pc[c] = "resolve" /\ mine[c] = {} /\ Conflict \in Answers
    BY <1>2, Writing DEF Resolve, IInv, Answers
  <2>2. CASE Visible(c) /\ instance[Here(c)] # Absent
    BY <1>1, <1>2, <2>2 DEF Resolve, Here, Stored
  <2>3. CASE ~(Visible(c) /\ instance[Here(c)] # Absent)
    <3>1. Answer(c, Conflict)
      BY <1>2, <2>3 DEF Resolve, Here
    <3>2. QED
      BY <2>1, <2>3, <3>1, Heard, NoMoveWithout
  <2>4. QED
    BY <2>2, <2>3
<1>3. CASE Lookup(c)
  <2>1. pc[c] = "lookup" /\ mine[c] = {} /\ NotAllowed \in Answers
    BY <1>3, Writing DEF Lookup, IInv, Answers
  <2>2. CASE ClaimsFor(c) # {}
    BY <1>3, <2>1, <2>2, ReplayHeard DEF Lookup
  <2>3. CASE ClaimsFor(c) = {} /\ seen[c] = Expected(c) /\ ~Allowed(request[c].state, request[c].target)
    <3>1. Answer(c, NotAllowed)
      BY <1>3, <2>3 DEF Lookup
    <3>2. Visible(c) /\ WasAt(Here(c), request[c].state, request[c].revision)
      BY <2>1, <2>3 DEF IInv, Knows, Expected
    <3>3. QED
      BY <2>1, <2>3, <3>1, <3>2, Heard
  <2>4. CASE ClaimsFor(c) = {} /\ ~(seen[c] = Expected(c) /\ ~Allowed(request[c].state, request[c].target))
    BY <1>1, <1>3, <2>4 DEF Lookup, Stored
  <2>5. QED
    BY <2>2, <2>3, <2>4
<1>4. CASE Update(c)
  BY <1>1, <1>4 DEF Update, Stored
<1>5. CASE Relookup(c)
  <2>1. pc[c] = "relookup" /\ mine[c] = {} /\ Conflict \in Answers
    BY <1>5, Writing DEF Relookup, IInv, Answers
  <2>2. CASE ClaimsFor(c) # {}
    BY <1>5, <2>1, <2>2, ReplayHeard DEF Relookup
  <2>3. CASE ClaimsFor(c) = {}
    BY <1>5, <2>1, <2>3, Heard DEF Relookup
  <2>4. QED
    BY <2>2, <2>3
<1>6. CASE Claim(c)
  BY <1>1, <1>6 DEF Claim, Append, Discard, Stored
<1>7. CASE Rescue(c)
  <2>1. pc[c] = "rescue" /\ mine[c] = {} /\ ClaimsFor(c) # {}
    BY <1>7, Writing DEF Rescue, IInv, Knows
  <2>2. QED
    BY <1>7, <2>1, ReplayHeard DEF Rescue
<1>8. CASE Commit(c)
  BY <1>8, CommitIsAMove
<1>9. CASE Acknowledge(c)
  <2>1. /\ pc[c] = "acknowledge" /\ mine[c] = {} /\ Attempt(c) \in table["history"]
        /\ Attempt(c).caller = c /\ Made(Attempt(c)) \in Answers
    BY <1>9, Writing, RequestType DEF Acknowledge, IInv, Knows, Attempt, Answers, Made
  <2>2. QED
    BY <1>9, <2>1, Heard DEF Acknowledge
<1>10. CASE Fails(c)
  BY <1>1, <1>10 DEF Fails, Discard, Stored
<1>11. QED
  BY <1>2, <1>3, <1>4, <1>5, <1>6, <1>7, <1>8, <1>9, <1>10 DEF Step

LEMMA NextIsPromised == IInv /\ [Next]_vars => [Promise!Next]_(Promise!vars)
<1> SUFFICES ASSUME IInv, [Next]_vars PROVE Promise!Next \/ UNCHANGED Promise!vars
  OBVIOUS
<1>1. CASE UNCHANGED vars
  BY <1>1 DEF vars, Promise!vars
<1>2. ASSUME NEW i \in Instances, Create(i) PROVE Promise!Next
  <2> DEFINE made == {j \in Instances : instance[j] # Absent}
             new == [state |-> Initial, revision |-> 0]
  <2>1. /\ instance[i] = Absent /\ instance' = [instance EXCEPT ![i] = new]
        /\ UNCHANGED <<request, table, reply>> /\ new # Absent
    BY <1>2, LifecycleAssumption DEF Create, Row
  <2>2. {j \in Instances : instance'[j] # Absent} = made \cup {i}
    BY <2>1 DEF IInv, TypeOK
  <2>3. i \notin made /\ i \in DOMAIN TenantOf
    BY <2>1, LifecycleAssumption
  <2>4. Promise!Create(i)
    BY <2>1, <2>2, <2>3 DEF Promise!Create
  <2>5. QED
    BY <2>3, <2>4 DEF Promise!Next
<1>3. ASSUME NEW c \in Callers, Step(c) \/ Fails(c) PROVE Promise!Next \/ UNCHANGED Promise!vars
  BY <1>3, StepIsPromised
<1>4. QED
  BY <1>1, <1>2, <1>3 DEF Next

-----------------------------------------------------------------------------
(***************************************************************************)
(* Theorems                                                                *)
(***************************************************************************)

\* Every state is well typed, and a call's place tells what its open transaction wrote.
THEOREM TypeCorrect == Spec => []TypeOK
<1>1. IInv => TypeOK
  BY DEF IInv
<1>2. QED
  BY <1>1, Invariant, PTL

\* Whatever is interleaved and wherever calls die, the history of an instance is a path
\* from its initial state to where it is, and each move has all its rows and no other.
THEOREM RecordsStayWhole == Spec => []RecordIsWhole
BY WholeLemma, Invariant, PTL

\* Every behaviour of the sessions is one of the promise: moves one after another from
\* the position described, a key one move, and no false conflict.
THEOREM MovesAreConditional == Spec => ImplementsConditionalMoves
BY PromiseInit, NextIsPromised, Invariant, PTL DEF Spec, ImplementsConditionalMoves, Promise!Spec

\* c's statement waits for d: its UPDATE for the instance's row (RowIsHeld), or its
\* insert of the claim for the key's entry (KeyIsHeld).
Awaits(c, d) ==
  \/ /\ pc[c] = "update" /\ "instance" \in mine[d]
     /\ request[d].instance = request[c].instance
  \/ pc[c] = "claim" /\ "claim" \in mine[d] /\ SameKey(request[d], request[c])

\* Among any callers there is one that waits for none of the others, although a row and
\* a key are taken one after the other by calls that want both in common.
SomeCallerIsFree ==
  \A C \in (SUBSET Callers) \ {{}} : \E c \in C : \A d \in C \ {c} : ~Awaits(c, d)

\* Calls of transition_lifecycle_instance never deadlock: of any that are under way, the
\* one that has come furthest is free to go on.
THEOREM MovesNeverWaitInACircle == Spec => []SomeCallerIsFree
<1>1. ASSUME TypeOK PROVE SomeCallerIsFree
  <2> SUFFICES ASSUME NEW C \in (SUBSET Callers) \ {{}}
               PROVE \E c \in C : \A d \in C \ {c} : ~Awaits(c, d)
    BY DEF SomeCallerIsFree
  <2> C \subseteq Callers
    OBVIOUS
  \* Who holds a row or a key has come past the statement that took it.
  <2>1. ASSUME NEW d \in C
        PROVE /\ "instance" \in mine[d] => pc[d] \in {"claim", "commit"}
              /\ "claim" \in mine[d] => pc[d] = "commit"
    BY <1>1 DEF TypeOK, Tables, Records
  <2>2. CASE \E c \in C : pc[c] \notin {"update", "claim"}
    BY <2>2 DEF Awaits
  <2>3. CASE /\ \A c \in C : pc[c] \in {"update", "claim"}
             /\ \E c \in C : pc[c] = "claim"
    BY <2>1, <2>3 DEF Awaits
  <2>4. CASE \A c \in C : pc[c] = "update"
    BY <2>1, <2>4 DEF Awaits
  <2>5. QED
    BY <2>2, <2>3, <2>4
<1>2. IInv => SomeCallerIsFree
  BY <1>1 DEF IInv
<1>3. QED
  BY <1>2, Invariant, PTL

-----------------------------------------------------------------------------
(***************************************************************************)
(* Registration: the inductive invariant                                   *)
(***************************************************************************)
HasMachine(x) == x.machine # NoMachine
HasRows(x) == x.states \cup x.edges # {}

\* There is one machine row, committed or not.
OneMachine ==
  \A s \in Sessions : HasMachine(tx[s]) =>
    machine = NoMachine /\ \A t \in Sessions : HasMachine(tx[t]) => s = t

\* What a transaction has written carries its name; what is committed, the name of
\* one that is over.
Signed ==
  /\ \A s \in Sessions : HasMachine(tx[s]) => tx[s].machine.by = Xid(s)
  /\ \A s \in Sessions : \A w \in tx[s].states \cup tx[s].edges : w.by = Xid(s)
  /\ machine # NoMachine =>
       \A s \in Sessions : alive[s] /\ machine.by.session = s => machine.by.number < tx[s].number

\* A row belongs to a machine that is there, and a draft.
RowsOfADraft ==
  /\ machine = NoMachine => states \cup edges = {}
  /\ \A s \in Sessions : HasRows(tx[s]) =>
       /\ Machine(s) # NoMachine
       /\ ~HasMachine(tx[s]) => ~machine.published

\* A transaction that has published the machine has the whole of it.
PublishesAWhole ==
  \A s \in Sessions : HasMachine(tx[s]) /\ tx[s].machine.published =>
    OneInitial(tx[s].states) /\ WellFormed(tx[s].states, tx[s].edges)

RegistrationInv ==
  /\ RegistrationTypeOK
  /\ OneMachine
  /\ Signed
  /\ RowsOfADraft
  /\ PublishesAWhole
  /\ PublishedIsWhole

-----------------------------------------------------------------------------
LEMMA FreshType == \A n \in 0..MaxTransactions : Fresh(n) \in Transaction
BY DEF Fresh, Transaction

LEMMA RegistrationInitInv == RegistrationInit => RegistrationInv
<1> SUFFICES ASSUME RegistrationInit PROVE RegistrationInv
  OBVIOUS
<1>1. /\ machine = NoMachine /\ states = {} /\ edges = {} /\ tx = [s \in Sessions |-> Fresh(0)]
      /\ alive = [s \in Sessions |-> TRUE]
  BY DEF RegistrationInit
<1>2. /\ Fresh(0).machine = NoMachine /\ Fresh(0).states = {} /\ Fresh(0).edges = {} /\ ~Fresh(0).locked
  BY DEF Fresh
<1>3. Fresh(0) \in Transaction
  BY FreshType, RegistrationAssumption
<1>4. RegistrationTypeOK
  BY <1>1, <1>2, <1>3 DEF RegistrationTypeOK
<1>5. QED
  BY <1>1, <1>2, <1>4 DEF RegistrationInv, OneMachine, Signed, RowsOfADraft, PublishesAWhole, PublishedIsWhole,
     Published, HasMachine, HasRows

-----------------------------------------------------------------------------
\* A step of s that commits nothing has only to keep what is true of s.
LEMMA WritingStep ==
  ASSUME RegistrationInv, NEW s \in Sessions, NEW x \in Transaction, tx' = [tx EXCEPT ![s] = x],
         UNCHANGED <<machine, states, edges, alive>>, x.number = tx[s].number,
         x.locked => x.machine # NoMachine \/ machine # NoMachine,
         x.locked => \A t \in Sessions \ {s} : ~tx[t].locked,
         HasMachine(x) => /\ machine = NoMachine /\ x.machine.by = Xid(s)
                          /\ \A t \in Sessions \ {s} : ~HasMachine(tx[t]),
         \A w \in x.states \cup x.edges : w.by = Xid(s),
         HasRows(x) => HasMachine(x) \/ (machine # NoMachine /\ ~machine.published),
         HasMachine(x) /\ x.machine.published =>
           OneInitial(x.states) /\ WellFormed(x.states, x.edges)
  PROVE RegistrationInv'
<1>1. /\ tx \in [Sessions -> Transaction] /\ tx' \in [Sessions -> Transaction] /\ tx'[s] = x
      /\ \A t \in Sessions \ {s} : tx'[t] = tx[t]
  BY DEF RegistrationInv, RegistrationTypeOK
<1>2. /\ Machine(s)' = IF HasMachine(x) THEN x.machine ELSE machine
      /\ \A t \in Sessions \ {s} : Machine(t)' = Machine(t)
      /\ \A t \in Sessions : Xid(t)' = Xid(t)
  BY <1>1 DEF Machine, HasMachine, Xid
<1>3. RegistrationTypeOK'
  BY <1>1, <1>2 DEF RegistrationInv, RegistrationTypeOK, HasMachine
<1>4. OneMachine'
  BY <1>1 DEF RegistrationInv, OneMachine
<1>5. Signed'
  BY <1>1, <1>2 DEF RegistrationInv, Signed
<1>6. RowsOfADraft'
  BY <1>1, <1>2 DEF RegistrationInv, RowsOfADraft, HasMachine
<1>7. PublishesAWhole'
  BY <1>1 DEF RegistrationInv, PublishesAWhole
<1>8. PublishedIsWhole'
  BY DEF RegistrationInv, PublishedIsWhole, Published
<1>9. QED
  BY <1>3, <1>4, <1>5, <1>6, <1>7, <1>8 DEF RegistrationInv

\* What s knows of the machine whose row it locks.
LEMMA Sees ==
  ASSUME RegistrationInv, NEW s \in Sessions, Locks(s)
  PROVE /\ tx[s] \in Transaction /\ alive[s]
        /\ \A t \in Sessions \ {s} : ~tx[t].locked
        /\ HasMachine(tx[s]) => /\ machine = NoMachine /\ Machine(s) = tx[s].machine
                                /\ \A t \in Sessions \ {s} : ~HasMachine(tx[t])
                                /\ states = {} /\ edges = {}
        /\ ~HasMachine(tx[s]) => machine # NoMachine /\ Machine(s) = machine
<1>1. tx[s] \in Transaction
  BY DEF RegistrationInv, RegistrationTypeOK
<1>2. ASSUME NEW t \in Sessions \ {s}, machine = NoMachine PROVE ~tx[t].locked
  <2>1. HasMachine(tx[s])
    BY <1>2 DEF Locks, Machine, HasMachine
  <2>2. ~HasMachine(tx[t])
    BY <2>1 DEF RegistrationInv, OneMachine
  <2>3. QED
    BY <1>2, <2>2 DEF RegistrationInv, RegistrationTypeOK, Machine, HasMachine
<1>3. QED
  BY <1>1, <1>2 DEF Locks, Machine, HasMachine, RegistrationInv, OneMachine, RowsOfADraft

LEMMA InsertMachineKeepsRegistration ==
  ASSUME RegistrationInv, NEW s \in Sessions, InsertMachine(s)
  PROVE RegistrationInv'
<1> DEFINE row == [by |-> Xid(s), published |-> FALSE]
           x == [tx[s] EXCEPT !.machine = row]
<1>1. /\ tx[s] \in Transaction /\ Machine(s) = NoMachine /\ machine = NoMachine
      /\ \A t \in Sessions : ~HasMachine(tx[t])
  BY DEF InsertMachine, RegistrationInv, RegistrationTypeOK, Machine, HasMachine
<1>2. row \in MachineRow
  BY <1>1 DEF MachineRow, Xid, Xids, Transaction
<1>3. ~tx[s].locked /\ ~HasRows(tx[s])
  BY <1>1 DEF RegistrationInv, RegistrationTypeOK, RowsOfADraft
<1>4. /\ x \in Transaction /\ x.number = tx[s].number /\ x.machine = row /\ x.states = tx[s].states
      /\ x.edges = tx[s].edges /\ x.locked = tx[s].locked
  BY <1>1, <1>2 DEF Transaction
<1>5. tx' = [tx EXCEPT ![s] = x] /\ UNCHANGED <<machine, states, edges, alive>>
  BY DEF InsertMachine
<1> HIDE DEF x
<1>6. ~x.locked /\ ~HasRows(x) /\ x.states \cup x.edges = {}
  BY <1>3, <1>4 DEF HasRows
<1>7. x.machine.by = Xid(s) /\ ~x.machine.published
  BY <1>4
<1>8. QED
  BY <1>1, <1>4, <1>5, <1>6, <1>7, WritingStep

LEMMA InsertStateKeepsRegistration ==
  ASSUME RegistrationInv, NEW s \in Sessions, NEW row \in StateRows, InsertState(s, row)
  PROVE RegistrationInv'
<1> DEFINE w == [row |-> row, by |-> Xid(s)]
           x == [tx[s] EXCEPT !.states = @ \cup {w}, !.locked = TRUE]
<1>1. Locks(s) /\ ~Machine(s).published /\ UNCHANGED <<machine, states, edges, alive>>
      /\ tx \in [Sessions -> Transaction]
  BY DEF InsertState, RegistrationInv, RegistrationTypeOK
<1>2. w \in Written /\ w.by = Xid(s)
  BY <1>1 DEF Written, Xid, Xids, Transaction
<1>3. tx' = [tx EXCEPT ![s] = x]
  BY <1>1 DEF InsertState, Transaction
<1> HIDE DEF w
<1>4. /\ x \in Transaction /\ x.number = tx[s].number /\ x.machine = tx[s].machine
      /\ x.states = tx[s].states \cup {w} /\ x.edges = tx[s].edges /\ x.locked
  BY <1>1, <1>2, Sees DEF Transaction
<1> HIDE DEF x
<1>5. HasMachine(tx[s]) => tx[s].machine.by = Xid(s)
  BY DEF RegistrationInv, Signed
<1>6. \A v \in x.states \cup x.edges : v.by = Xid(s)
  BY <1>2, <1>4 DEF RegistrationInv, Signed
<1>7. QED
  BY <1>1, <1>3, <1>4, <1>5, <1>6, Sees, WritingStep DEF HasMachine

LEMMA InsertEdgeKeepsRegistration ==
  ASSUME RegistrationInv, NEW s \in Sessions, NEW edge \in EdgeRows, InsertEdge(s, edge)
  PROVE RegistrationInv'
<1> DEFINE w == [row |-> edge, by |-> Xid(s)]
           x == [tx[s] EXCEPT !.edges = @ \cup {w}, !.locked = TRUE]
<1>1. Locks(s) /\ ~Machine(s).published /\ UNCHANGED <<machine, states, edges, alive>>
      /\ tx \in [Sessions -> Transaction]
  BY DEF InsertEdge, RegistrationInv, RegistrationTypeOK
<1>2. w \in WrittenEdge /\ w.by = Xid(s)
  BY <1>1 DEF WrittenEdge, Xid, Xids, Transaction
<1>3. tx' = [tx EXCEPT ![s] = x]
  BY <1>1 DEF InsertEdge, Transaction
<1> HIDE DEF w
<1>4. /\ x \in Transaction /\ x.number = tx[s].number /\ x.machine = tx[s].machine
      /\ x.states = tx[s].states /\ x.edges = tx[s].edges \cup {w} /\ x.locked
  BY <1>1, <1>2, Sees DEF Transaction
<1> HIDE DEF x
<1>5. HasMachine(tx[s]) => tx[s].machine.by = Xid(s)
  BY DEF RegistrationInv, Signed
<1>6. \A v \in x.states \cup x.edges : v.by = Xid(s)
  BY <1>2, <1>4 DEF RegistrationInv, Signed
<1>7. QED
  BY <1>1, <1>3, <1>4, <1>5, <1>6, Sees, WritingStep DEF HasMachine

\* The machine is published by the transaction that inserted it.
LEMMA PublishKeepsRegistration ==
  ASSUME RegistrationInv, NEW s \in Sessions, PublishMachine(s)
  PROVE RegistrationInv'
<1> DEFINE row == [Machine(s) EXCEPT !.published = TRUE]
           x == [tx[s] EXCEPT !.machine = row, !.locked = TRUE]
<1>1. /\ Locks(s) /\ Machine(s).by = Xid(s) /\ UNCHANGED <<machine, states, edges, alive>>
      /\ OneInitial(StatesSeen(s)) /\ WellFormed(StatesSeen(s), EdgesSeen(s))
      /\ tx \in [Sessions -> Transaction]
  BY DEF PublishMachine, RegistrationInv, RegistrationTypeOK
<1>2. HasMachine(tx[s])
  <2>1. SUFFICES ASSUME ~HasMachine(tx[s]) PROVE FALSE
    OBVIOUS
  <2>2. machine # NoMachine /\ machine.by = Xid(s) /\ alive[s]
    BY <1>1, <2>1, Sees
  <2>3. machine.by.session = s /\ machine.by.number = tx[s].number /\ tx[s].number \in Nat
    BY <1>1, <2>2, RegistrationAssumption DEF Xid, Transaction
  <2>4. QED
    BY <2>2, <2>3 DEF RegistrationInv, Signed
<1>3. /\ Machine(s) = tx[s].machine /\ machine = NoMachine /\ states = {} /\ edges = {}
      /\ \A t \in Sessions \ {s} : ~HasMachine(tx[t])
  BY <1>1, <1>2, Sees
<1>4. row \in MachineRow /\ row.by = Xid(s)
  BY <1>1, <1>2, <1>3 DEF Transaction, MachineRow, HasMachine
<1>5. tx' = [tx EXCEPT ![s] = x]
  BY <1>1 DEF PublishMachine, Transaction
<1> HIDE DEF row
<1>6. /\ x \in Transaction /\ x.number = tx[s].number /\ x.machine = row
      /\ x.states = tx[s].states /\ x.edges = tx[s].edges /\ x.locked
  BY <1>1, <1>4 DEF Transaction
<1> HIDE DEF x
<1>7. OneInitial(x.states) /\ WellFormed(x.states, x.edges)
  BY <1>1, <1>3, <1>6 DEF StatesSeen, EdgesSeen
<1>8. HasMachine(x)
  BY <1>4, <1>6, RegistrationAssumption DEF HasMachine
<1>9. \A v \in x.states \cup x.edges : v.by = Xid(s)
  BY <1>6 DEF RegistrationInv, Signed
<1>10. x.machine # NoMachine /\ x.machine.by = Xid(s) /\ \A t \in Sessions \ {s} : ~tx[t].locked
  BY <1>1, <1>4, <1>6, <1>8, Sees DEF HasMachine
<1>11. QED
  BY <1>1, <1>3, <1>5, <1>6, <1>7, <1>8, <1>9, <1>10, WritingStep

-----------------------------------------------------------------------------
\* The end of a transaction of s.
LEMMA EndingStep ==
  ASSUME RegistrationInv, NEW s \in Sessions, Ends(s)
  PROVE /\ tx' \in [Sessions -> Transaction] /\ alive' \in [Sessions -> BOOLEAN]
        /\ \A t \in Sessions \ {s} : tx'[t] = tx[t] /\ alive'[t] = alive[t]
        /\ tx'[s].machine = NoMachine /\ tx'[s].states = {} /\ tx'[s].edges = {} /\ ~tx'[s].locked
        /\ tx'[s].number \in Nat /\ tx[s].number \in Nat
        /\ alive'[s] => alive[s] /\ tx'[s].number = tx[s].number + 1
<1> DEFINE n == tx[s].number
<1>1. /\ tx \in [Sessions -> Transaction] /\ alive \in [Sessions -> BOOLEAN] /\ n \in 0..MaxTransactions
  BY DEF RegistrationInv, RegistrationTypeOK, Transaction
<1>2. CASE n < MaxTransactions /\ tx' = [tx EXCEPT ![s] = Fresh(n + 1)] /\ UNCHANGED alive
  <2>1. Fresh(n + 1) \in Transaction /\ n + 1 \in Nat
    BY <1>1, <1>2, FreshType, RegistrationAssumption
  <2>2. tx'[s] = Fresh(n + 1)
    BY <1>1, <1>2
  <2>3. QED
    BY <1>1, <1>2, <2>1, <2>2, RegistrationAssumption DEF Fresh
<1>3. CASE tx' = [tx EXCEPT ![s] = Fresh(n)] /\ alive' = [alive EXCEPT ![s] = FALSE]
  <2>1. Fresh(n) \in Transaction /\ tx'[s] = Fresh(n)
    BY <1>1, <1>3, FreshType
  <2>2. QED
    BY <1>1, <1>3, <2>1, RegistrationAssumption DEF Fresh
<1>4. QED
  BY <1>2, <1>3 DEF Ends

LEMMA AbortKeepsRegistration ==
  ASSUME RegistrationInv, NEW s \in Sessions, AbortDefinition(s)
  PROVE RegistrationInv'
<1>1. UNCHANGED <<machine, states, edges>> /\ alive[s] /\ Ends(s)
  BY DEF AbortDefinition
<1>2. \A t \in Sessions \ {s} : Machine(t)' = Machine(t) /\ Xid(t)' = Xid(t)
  BY <1>1, EndingStep DEF Machine, Xid
<1>3. RegistrationTypeOK'
  BY <1>1, <1>2, EndingStep DEF RegistrationInv, RegistrationTypeOK
<1>4. OneMachine'
  BY <1>1, EndingStep DEF RegistrationInv, OneMachine, HasMachine
<1>5. Signed'
  <2>1. \A t \in Sessions : HasMachine(tx'[t]) => tx'[t].machine.by = Xid(t)'
    BY <1>1, <1>2, EndingStep DEF RegistrationInv, Signed, HasMachine
  <2>2. \A t \in Sessions : \A w \in tx'[t].states \cup tx'[t].edges : w.by = Xid(t)'
    BY <1>1, <1>2, EndingStep DEF RegistrationInv, Signed
  <2>3. ASSUME machine # NoMachine, NEW t \in Sessions, alive'[t], machine.by.session = t
        PROVE  machine.by.number < tx'[t].number
    <3>1. machine.by.number \in Nat
      BY <2>3 DEF RegistrationInv, RegistrationTypeOK, MachineRow, Xids
    <3>2. alive[t] => machine.by.number < tx[t].number
      BY <2>3 DEF RegistrationInv, Signed
    <3>3. QED
      BY <1>1, <2>3, <3>1, <3>2, EndingStep
  <2>4. QED
    BY <1>1, <2>1, <2>2, <2>3 DEF Signed
<1>6. RowsOfADraft'
  BY <1>1, <1>2, EndingStep DEF RegistrationInv, RowsOfADraft, HasMachine, HasRows
<1>7. PublishesAWhole'
  BY <1>1, EndingStep DEF RegistrationInv, PublishesAWhole, HasMachine
<1>8. PublishedIsWhole'
  BY <1>1 DEF RegistrationInv, PublishedIsWhole, Published
<1>9. QED
  BY <1>3, <1>4, <1>5, <1>6, <1>7, <1>8 DEF RegistrationInv

\* A commit publishes a whole, or extends a draft.
LEMMA CommitKeepsRegistration ==
  ASSUME RegistrationInv, NEW s \in Sessions, CommitDefinition(s)
  PROVE RegistrationInv'
<1>1. /\ alive[s] /\ Ends(s) /\ machine' = Machine(s)
      /\ states' = StatesSeen(s) /\ edges' = EdgesSeen(s)
  BY DEF CommitDefinition
<1>2. tx[s] \in Transaction /\ machine \in MachineRow \cup {NoMachine}
  BY DEF RegistrationInv, RegistrationTypeOK
<1>3. machine' = IF HasMachine(tx[s]) THEN tx[s].machine ELSE machine
  BY <1>1 DEF Machine, HasMachine
<1>4. machine # NoMachine => machine' = machine /\ ~HasMachine(tx[s])
  BY <1>3 DEF RegistrationInv, OneMachine
<1>6. \A t \in Sessions \ {s} : /\ Xid(t)' = Xid(t) /\ tx'[t] = tx[t] /\ alive'[t] = alive[t]
                                /\ Machine(t) # NoMachine => Machine(t)' = Machine(t)
  <2>1. \A t \in Sessions \ {s} : Xid(t)' = Xid(t) /\ tx'[t] = tx[t] /\ alive'[t] = alive[t]
    BY <1>1, EndingStep DEF Xid
  <2>2. QED
    BY <1>4, <2>1 DEF Machine
<1>7. RegistrationTypeOK'
  <2>1. machine' \in MachineRow \cup {NoMachine}
    BY <1>2, <1>3 DEF Transaction
  <2>2. states' \subseteq Written /\ edges' \subseteq WrittenEdge
    BY <1>1, <1>2 DEF StatesSeen, EdgesSeen, RegistrationInv, RegistrationTypeOK, Transaction
  <2>3. \A t, u \in Sessions : tx'[t].locked => Machine(t)' # NoMachine /\ (tx'[u].locked => t = u)
    BY <1>1, <1>6, EndingStep DEF RegistrationInv, RegistrationTypeOK
  <2>4. QED
    BY <1>1, <2>1, <2>2, <2>3, EndingStep DEF RegistrationTypeOK
<1>8. OneMachine'
  BY <1>1, <1>3, <1>6, EndingStep DEF RegistrationInv, OneMachine, HasMachine
<1>9. Signed'
  <2>1. \A t \in Sessions : HasMachine(tx'[t]) => tx'[t].machine.by = Xid(t)'
    BY <1>1, <1>6, EndingStep DEF RegistrationInv, Signed, HasMachine
  <2>2. \A t \in Sessions : \A w \in tx'[t].states \cup tx'[t].edges : w.by = Xid(t)'
    BY <1>1, <1>6, EndingStep DEF RegistrationInv, Signed
  <2>3. ASSUME machine' # NoMachine, NEW t \in Sessions, alive'[t], machine'.by.session = t
        PROVE  machine'.by.number < tx'[t].number
    <3>1. CASE HasMachine(tx[s])
      <4>1. machine'.by = Xid(s)
        BY <1>3, <3>1 DEF RegistrationInv, Signed
      <4>2. t = s /\ machine'.by.number = tx[s].number
        BY <2>3, <4>1 DEF Xid
      <4>3. QED
        BY <1>1, <2>3, <4>2, EndingStep
    <3>2. CASE ~HasMachine(tx[s])
      <4>1. machine' = machine /\ machine.by.number \in Nat
        BY <1>2, <1>3, <2>3, <3>2 DEF MachineRow, Xids
      <4>2. alive[t] => machine.by.number < tx[t].number
        BY <2>3, <4>1 DEF RegistrationInv, Signed
      <4>3. QED
        BY <1>1, <2>3, <4>1, <4>2, EndingStep
    <3>3. QED
      BY <3>1, <3>2
  <2>4. QED
    BY <2>1, <2>2, <2>3 DEF Signed
<1>10. RowsOfADraft'
  <2>1. machine' = NoMachine => states' \cup edges' = {}
    BY <1>1, <1>3 DEF RegistrationInv, RowsOfADraft, HasRows, HasMachine, Machine, StatesSeen, EdgesSeen
  <2>2. ASSUME NEW t \in Sessions, HasRows(tx'[t])
        PROVE  Machine(t)' # NoMachine /\ (~HasMachine(tx'[t]) => ~machine'.published)
    <3>1. t # s /\ HasRows(tx[t]) /\ tx'[t] = tx[t] /\ Machine(t) # NoMachine
      BY <1>1, <1>6, <2>2, EndingStep DEF HasRows, RegistrationInv, RowsOfADraft
    <3>2. ~HasMachine(tx[t]) => machine # NoMachine /\ ~machine.published
      BY <3>1 DEF RegistrationInv, RowsOfADraft, Machine, HasMachine
    <3>3. QED
      BY <1>4, <1>6, <3>1, <3>2
  <2>3. QED
    BY <2>1, <2>2 DEF RowsOfADraft
<1>11. PublishesAWhole'
  BY <1>1, <1>6, EndingStep DEF RegistrationInv, PublishesAWhole, HasMachine
<1>12. PublishedIsWhole'
  <2>1. SUFFICES ASSUME Published'
                 PROVE  /\ \A w \in states' \cup edges' : w.by = machine'.by
                        /\ OneInitial(states') /\ WellFormed(states', edges')
    BY DEF PublishedIsWhole
  <2>2. CASE HasMachine(tx[s])
    <3>1. machine = NoMachine /\ machine' = tx[s].machine /\ states = {} /\ edges = {}
      BY <1>3, <2>2 DEF RegistrationInv, OneMachine, RowsOfADraft
    <3>2. states' = tx[s].states /\ edges' = tx[s].edges
      BY <1>1, <3>1 DEF StatesSeen, EdgesSeen
    <3>3. QED
      BY <2>1, <2>2, <3>1, <3>2 DEF RegistrationInv, Signed, PublishesAWhole, Published
  <2>3. CASE ~HasMachine(tx[s])
    <3>1. machine' = machine /\ Published
      BY <1>3, <2>1, <2>3 DEF Published
    <3>2. tx[s].states = {} /\ tx[s].edges = {}
      BY <2>3, <3>1 DEF RegistrationInv, RowsOfADraft, HasRows, Published
    <3>3. states' = states /\ edges' = edges
      BY <1>1, <3>2 DEF StatesSeen, EdgesSeen
    <3>4. QED
      BY <3>1, <3>3 DEF RegistrationInv, PublishedIsWhole
  <2>4. QED
    BY <2>2, <2>3
<1>13. QED
  BY <1>7, <1>8, <1>9, <1>10, <1>11, <1>12 DEF RegistrationInv

LEMMA NextKeepsRegistration == RegistrationInv /\ [RegistrationNext]_registrationVars => RegistrationInv'
<1> SUFFICES ASSUME RegistrationInv, [RegistrationNext]_registrationVars PROVE RegistrationInv'
  OBVIOUS
<1>1. CASE UNCHANGED registrationVars
  BY <1>1 DEF registrationVars, RegistrationInv, RegistrationTypeOK, OneMachine, Signed, RowsOfADraft, PublishesAWhole,
     PublishedIsWhole, Published, Machine, Xid
<1>2. CASE RegistrationNext
  BY <1>2, InsertMachineKeepsRegistration, InsertStateKeepsRegistration, InsertEdgeKeepsRegistration, PublishKeepsRegistration,
     CommitKeepsRegistration, AbortKeepsRegistration DEF RegistrationNext
<1>3. QED
  BY <1>1, <1>2

LEMMA RegistrationInvariant == RegistrationSpec => []RegistrationInv
BY RegistrationInitInv, NextKeepsRegistration, PTL DEF RegistrationSpec

-----------------------------------------------------------------------------
(***************************************************************************)
(* Theorems                                                                *)
(***************************************************************************)

\* Every state is well typed, and nobody works on a machine that is not there or that
\* another session is working on.
THEOREM RegistrationTypeCorrect == RegistrationSpec => []RegistrationTypeOK
<1>1. RegistrationInv => RegistrationTypeOK
  BY DEF RegistrationInv
<1>2. QED
  BY <1>1, RegistrationInvariant, PTL

\* However the statements of any number of sessions are ordered and split over
\* transactions, a published machine is one transaction's work and a whole graph.
THEOREM AlwaysAWhole == RegistrationSpec => []PublishedIsWhole
<1>1. RegistrationInv => PublishedIsWhole
  BY DEF RegistrationInv
<1>2. QED
  BY <1>1, RegistrationInvariant, PTL

\* A committed machine's row never changes, and a published one's graph neither.
THEOREM AlwaysSealed == RegistrationSpec => CommittedIsSealed
<1>1. RegistrationInv /\ [RegistrationNext]_registrationVars =>
        [machine # NoMachine =>
           machine' = machine /\ (Published => UNCHANGED <<states, edges>>)]_registrationVars
  <2> SUFFICES ASSUME RegistrationInv, RegistrationNext, machine # NoMachine
               PROVE  machine' = machine /\ (Published => UNCHANGED <<states, edges>>)
    OBVIOUS
  <2>1. PICK s \in Sessions :
          \/ UNCHANGED <<machine, states, edges>>
          \/ CommitDefinition(s)
    BY DEF RegistrationNext, InsertMachine, InsertState, InsertEdge, PublishMachine, AbortDefinition
  <2>2. ~HasMachine(tx[s])
    BY DEF RegistrationInv, OneMachine
  <2>3. Published => tx[s].states = {} /\ tx[s].edges = {}
    BY <2>2 DEF RegistrationInv, RowsOfADraft, HasRows, Published
  <2>4. QED
    BY <2>1, <2>2, <2>3 DEF CommitDefinition, Machine, HasMachine, StatesSeen, EdgesSeen
<1>2. QED
  BY <1>1, RegistrationInvariant, PTL DEF RegistrationSpec, CommittedIsSealed

==============================================================================
