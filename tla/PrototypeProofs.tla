-------------------------- MODULE PrototypeProofs ---------------------------
(***************************************************************************)
(* What holds of the lease protocol for every number of requests, shard    *)
(* size, chunk, set of workers and number of faults; and of the machines it *)
(* rents, for every limit on them and every choice of a provider.          *)
(***************************************************************************)
EXTENDS LeaseProtocol, Fleet, FiniteSetTheorems, TLAPS

-----------------------------------------------------------------------------
(* The data the protocol is made of.                                       *)

LEMMA NoRowsIsRows == NoRows \in RowSets /\ DOMAIN NoRows = {}
<1>1. NoRows \in [{} -> Verdict] /\ DOMAIN NoRows = {}
  BY DEF NoRows, Verdict
<1>2. {} \in SUBSET Requests
  OBVIOUS
<1> QED
  BY <1>1, <1>2 DEF RowSets

LEMMA RowsAreRows ==
  ASSUME NEW batch \in SUBSET Requests, NEW rows \in [batch -> Verdicts]
  PROVE  rows \in RowSets /\ DOMAIN rows = batch
<1>1. rows \in [batch -> Verdict]
  BY VerdictAssumption
<1> QED
  BY <1>1 DEF RowSets

LEMMA RowSetsFields ==
  ASSUME NEW rows \in RowSets
  PROVE  DOMAIN rows \subseteq Requests /\ \A r \in DOMAIN rows : rows[r] \in Verdict
BY DEF RowSets

LEMMA MessageFields ==
  ASSUME NEW m \in Message
  PROVE  /\ m.worker \in Workers
         /\ m.shard \in Shards \cup {NoShard}
         /\ m.rows \in RowSets
         /\ m.kind \in {"claim", "results", "done"}
BY DEF Message

LEMMA MessagesAreMessages ==
  ASSUME NEW w \in Workers, NEW s \in Shards \cup {NoShard}
  PROVE  /\ ClaimMsg(w) \in Message
         /\ DoneMsg(w, s) \in Message
         /\ \A rows \in RowSets : ResultsMsg(w, s, rows) \in Message
BY NoRowsIsRows DEF Message, ClaimMsg, DoneMsg, ResultsMsg

LEMMA MessagesHaveAKind == NoMsg \notin Message
BY DEF NoMsg, Message

LEMMA OffIsAgent == Off \in Agent
BY DEF Off, Agent, AgentRecord, PC, Awaiting

LEMMA AgentFields ==
  ASSUME NEW a \in Agent
  PROVE  /\ a \in AgentRecord
         /\ a.pc \in PC
         /\ a.shard \in Shards \cup {NoShard}
         /\ a.todo \subseteq Requests
         /\ a.sent \in Message \cup {NoMsg}
         /\ a.stop \in BOOLEAN
         /\ a.pc \in Awaiting => a.sent \in Message
         /\ a.pc \notin Awaiting => a.sent = NoMsg
BY DEF Agent, AgentRecord

LEMMA AnswersAreAgents ==
  ASSUME NEW a \in Agent
  PROVE  /\ AtTop(a) \in Agent
         /\ AfterPost(a) \in Agent
         /\ \A s \in Shards : GotShard(a, s) \in Agent
         /\ \A b \in BOOLEAN : GotNothing(a, b) \in Agent
         /\ \A pc \in PC \ Awaiting : a.pc \notin Awaiting => [a EXCEPT !.pc = pc] \in Agent
<1> USE DEF Agent, AgentRecord, PC, Awaiting
<1>1. AtTop(a) \in Agent /\ AtTop(a).sent = NoMsg
  BY DEF AtTop
<1>2. AfterPost(a) \in Agent
  BY <1>1 DEF AfterPost
<1>3. ASSUME NEW s \in Shards PROVE GotShard(a, s) \in Agent
  BY DEF GotShard, Unanswered, RequestsOf
<1>4. ASSUME NEW b \in BOOLEAN PROVE GotNothing(a, b) \in Agent
  BY <1>1 DEF GotNothing
<1>5. ASSUME NEW pc \in PC \ Awaiting, a.pc \notin Awaiting
      PROVE  [a EXCEPT !.pc = pc] \in Agent
  BY <1>5
<1> QED
  BY <1>1, <1>2, <1>3, <1>4, <1>5

LEMMA RowsOfShards ==
  /\ Pending \in ShardRow /\ Finished \in ShardRow
  /\ \A w \in Workers : LeasedTo(w) \in ShardRow
  /\ \A old \in ShardRow : \A b \in BOOLEAN : [old EXCEPT !.lapsed = b] \in ShardRow
BY DEF Pending, Finished, LeasedTo, ShardRow, ShardState

LEMMA StoreUpdates ==
  ASSUME StoreTypeOK
  PROVE  /\ \A s \in Shards \cup {NoShard}, w \in Workers : Extended(s, w) \in [Shards -> ShardRow]
         /\ \A rows \in RowSets : Upserted(rows) \in [Requests -> Verdict \cup {"none"}]
<1>1. ASSUME NEW s \in Shards \cup {NoShard}, NEW w \in Workers
      PROVE  Extended(s, w) \in [Shards -> ShardRow]
  <2>1. s \in Shards => [shard[s] EXCEPT !.lapsed = FALSE] \in ShardRow
    BY RowsOfShards DEF StoreTypeOK
  <2> QED
    BY <2>1 DEF StoreTypeOK, Extended
<1>2. ASSUME NEW rows \in RowSets
      PROVE  Upserted(rows) \in [Requests -> Verdict \cup {"none"}]
  BY RowSetsFields DEF StoreTypeOK, Upserted
<1> QED
  BY <1>1, <1>2

\* The transactions keep the store well typed.
LEMMA TransactionTypes ==
  ASSUME StoreTypeOK,
         \/ Reap
         \/ \E w \in Workers, s \in Shards : ClaimShard(w, s)
         \/ \E s \in Shards \cup {NoShard} : FinishShard(s)
         \/ \E w \in Workers : ReleaseLeases(w)
         \/ \E status \in JobStatus : SetJobStatus(status)
         \/ \E s \in Shards : LeaseLapses(s)
  PROVE  StoreTypeOK'
<1> USE DEF StoreTypeOK
<1>1. CASE Reap
  BY <1>1, RowsOfShards DEF Reap
<1>2. ASSUME NEW w \in Workers, NEW s \in Shards, ClaimShard(w, s) PROVE StoreTypeOK'
  BY <1>2, RowsOfShards DEF ClaimShard
<1>3. ASSUME NEW s \in Shards \cup {NoShard}, FinishShard(s) PROVE StoreTypeOK'
  BY <1>3, RowsOfShards DEF FinishShard
<1>4. ASSUME NEW w \in Workers, ReleaseLeases(w) PROVE StoreTypeOK'
  BY <1>4, RowsOfShards DEF ReleaseLeases
<1>5. ASSUME NEW status \in JobStatus, SetJobStatus(status) PROVE StoreTypeOK'
  BY <1>5 DEF SetJobStatus
<1>6. ASSUME NEW s \in Shards, LeaseLapses(s) PROVE StoreTypeOK'
  <2>1. [shard[s] EXCEPT !.lapsed = TRUE] \in ShardRow
    BY RowsOfShards
  <2> QED
    BY <1>6, <2>1 DEF LeaseLapses
<1> QED
  BY <1>1, <1>2, <1>3, <1>4, <1>5, <1>6

LEMMA ReplyType ==
  ASSUME TypeOK, NEW m \in Message, NEW a \in Agent, Reply(m, a)
  PROVE  agent' \in [Workers -> Agent] /\ faults' \in 0 .. MaxFaults /\ gaveUp' \in BOOLEAN
BY MessageFields, FaultAssumption DEF TypeOK, Reply, Fault, trouble

LEMMA HandlersType ==
  ASSUME TypeOK
  PROVE  /\ \A m \in net, step \in {"lease", "status"} :
               Take(m, step) => net' \subseteq Message /\ handlers' \subseteq Handler
         /\ \A h \in handlers, step \in {"lease", "close", "count", "set"},
               s \in Shards \cup {NoShard} :
               Continue(h, step, s) => handlers' \subseteq Handler
         /\ \A h \in handlers : Finish(h) => handlers' \subseteq Handler
BY DEF TypeOK, Take, Continue, Finish, Handler

-----------------------------------------------------------------------------
(* Type correctness, action by action.                                     *)

LEMMA AgentStepType ==
  ASSUME TypeOK, NEW w \in Workers, AgentStep(w)
  PROVE  TypeOK'
<1> USE DEF TypeOK, trouble
<1> DEFINE a == agent[w]
<1>0. a \in Agent /\ a.shard \in Shards \cup {NoShard} /\ a.todo \subseteq Requests
      /\ a.sent \in Message \cup {NoMsg} /\ (a.pc \in Awaiting => a.sent \in Message)
  BY AgentFields
<1>a. ASSUME UNCHANGED storeVars PROVE StoreTypeOK'
  BY <1>a DEF storeVars, StoreTypeOK
<1>f. Fault => faults' \in 0 .. MaxFaults /\ gaveUp' \in BOOLEAN
  BY FaultAssumption DEF Fault
<1>1. CASE Boot(w)
  BY <1>1, <1>a, OffIsAgent, AnswersAreAgents DEF Boot
<1>2. CASE PostClaim(w)
  <2>1. [[a EXCEPT !.pc = "claiming"] EXCEPT !.sent = ClaimMsg(w)] \in Agent
    BY <1>0, MessagesAreMessages, MessagesHaveAKind DEF Agent, AgentRecord, PC, Awaiting
  <2> QED
    BY <1>2, <1>a, <2>1, MessagesAreMessages DEF PostClaim, Post
<1>3. CASE EngineReady(w)
  BY <1>3, <1>a, AnswersAreAgents DEF EngineReady, PC, Awaiting
<1>4. CASE PostBatch(w)
  <2>0. PICK batch \in SUBSET a.todo :
          \E rows \in [batch -> Verdicts] :
            LET m == ResultsMsg(w, a.shard, rows) IN
            /\ agent' = [agent EXCEPT ![w].pc = "posting", ![w].sent = m,
                                      ![w].todo = a.todo \ batch]
            /\ net' = net \cup {m}
    BY <1>4 DEF PostBatch
  <2>1. PICK rows \in [batch -> Verdicts] :
          /\ agent' = [agent EXCEPT ![w].pc = "posting",
                                    ![w].sent = ResultsMsg(w, a.shard, rows),
                                    ![w].todo = a.todo \ batch]
          /\ net' = net \cup {ResultsMsg(w, a.shard, rows)}
    BY <2>0
  <2> DEFINE m == ResultsMsg(w, a.shard, rows)
  <2>2. m \in Message
    <3>1. rows \in RowSets
      BY <1>0, RowsAreRows
    <3> QED
      BY <1>0, <3>1, MessagesAreMessages
  <2>3. [[[a EXCEPT !.pc = "posting"] EXCEPT !.sent = m] EXCEPT !.todo = a.todo \ batch] \in Agent
    BY <1>0, <2>2, MessagesHaveAKind DEF Agent, AgentRecord, PC, Awaiting
  <2> QED
    BY <1>4, <1>a, <2>1, <2>2, <2>3 DEF PostBatch
<1>5. CASE PostDone(w)
  <2>1. [[a EXCEPT !.pc = "finishing"] EXCEPT !.sent = DoneMsg(w, a.shard)] \in Agent
    BY <1>0, MessagesAreMessages, MessagesHaveAKind DEF Agent, AgentRecord, PC, Awaiting
  <2> QED
    BY <1>0, <1>5, <1>a, <2>1, MessagesAreMessages DEF PostDone, Post
<1>6. CASE ObeyStop(w)
  BY <1>6, <1>a, OffIsAgent DEF ObeyStop
<1>7. CASE WaitOver(w)
  BY <1>7, <1>a, AnswersAreAgents DEF WaitOver, PC, Awaiting
<1>8. CASE IdleTooLong(w)
  BY <1>8, <1>a, OffIsAgent DEF IdleTooLong
<1>9. CASE Retry(w)
  BY <1>0, <1>9, <1>a DEF Retry, InFlight
<1>10. CASE RetryEarly(w)
  BY <1>0, <1>10, <1>a, <1>f DEF RetryEarly, Handler
<1>11. CASE GiveUp(w)
  <2>1. gaveUp' \in BOOLEAN
    BY <1>11, Zenon DEF GiveUp
  <2>2. faults' \in 0 .. MaxFaults
    BY <1>11, FaultAssumption DEF GiveUp
  <2>3. \A c \in Agent : GotNothing(c, FALSE) \in Agent /\ AfterPost(c) \in Agent
    BY AnswersAreAgents
  <2>4. agent' \in [Workers -> Agent]
    BY <1>0, <1>11, <2>3 DEF GiveUp
  <2> QED
    BY <1>11, <1>a, <2>1, <2>2, <2>4 DEF GiveUp
<1>12. CASE Crash(w)
  BY <1>12, <1>a, <1>f, OffIsAgent DEF Crash
<1>13. CASE Heartbeat(w)
  <2>1. CurrentShard(w) \in Shards \cup {NoShard}
    BY <1>0 DEF CurrentShard
  <2>2. StoreTypeOK'
    BY <1>13, <2>1, StoreUpdates DEF Heartbeat, StoreTypeOK
  <2>3. \A b \in BOOLEAN : [a EXCEPT !.stop = b] \in Agent
    BY <1>0 DEF Agent, AgentRecord
  <2>5. agent' \in [Workers -> Agent]
    BY <1>13, <2>3 DEF Heartbeat
  <2> QED
    BY <1>13, <2>2, <2>5 DEF Heartbeat
<1> QED
  BY <1>1, <1>2, <1>3, <1>4, <1>5, <1>6, <1>7, <1>8, <1>9, <1>10, <1>11, <1>12, <1>13
     DEF AgentStep

LEMMA ReceiveType ==
  ASSUME TypeOK, NEW m \in net, Receive(m) \/ LoseRequest(m)
  PROVE  TypeOK'
<1> USE DEF trouble
<1>0. m \in Message
  BY DEF TypeOK
<1>a. ASSUME UNCHANGED storeVars PROVE StoreTypeOK'
  BY <1>a DEF TypeOK, storeVars, StoreTypeOK
<1>1. CASE ReceiveClaim(m)
  <2>0. StoreTypeOK'
    BY <1>1, <1>a DEF ReceiveClaim
  <2>1. CASE Take(m, "lease") /\ UNCHANGED <<agent, trouble>>
    BY <2>0, <2>1, HandlersType DEF TypeOK
  <2>2. CASE net' = net \ {m} /\ Reply(m, Off) /\ UNCHANGED handlers
    BY <1>0, <2>0, <2>2, ReplyType, OffIsAgent DEF TypeOK
  <2> QED
    BY <1>1, <2>1, <2>2 DEF ReceiveClaim
<1>2. CASE ReceiveResults(m)
  <2>1. StoreTypeOK'
    BY <1>0, <1>2, MessageFields, StoreUpdates DEF TypeOK, ReceiveResults, StoreTypeOK
  <2> QED
    BY <1>2, <2>1, HandlersType DEF TypeOK, ReceiveResults
<1>3. CASE ReceiveDone(m)
  <2>1. StoreTypeOK'
    BY <1>0, <1>3, MessageFields, TransactionTypes DEF TypeOK, ReceiveDone
  <2> QED
    BY <1>3, <2>1, HandlersType DEF TypeOK, ReceiveDone
<1>4. CASE LoseRequest(m)
  BY <1>4, <1>a, FaultAssumption DEF TypeOK, LoseRequest, Fault
<1> QED
  BY <1>1, <1>2, <1>3, <1>4 DEF Receive

LEMMA ServeType ==
  ASSUME TypeOK, NEW h \in handlers, Serve(h)
  PROVE  TypeOK'
<1> USE DEF trouble
<1> DEFINE w == h.msg.worker
<1>0. h.msg \in Message /\ h.shard \in Shards \cup {NoShard} /\ w \in Workers
      /\ agent[w] \in Agent
  BY MessageFields DEF TypeOK, Handler
<1>a. ASSUME UNCHANGED storeVars PROVE StoreTypeOK'
  BY <1>a DEF TypeOK, storeVars, StoreTypeOK
<1>1. CASE LeaseShard(h)
  <2>1. ASSUME NEW s \in Shards, ClaimShard(w, s), Continue(h, "close", s),
               UNCHANGED <<agent, trouble>>, UNCHANGED net
        PROVE  TypeOK'
    BY <1>0, <2>1, TransactionTypes, HandlersType DEF TypeOK
  <2>2. ASSUME NEW s \in Shards, ClaimShard(w, s), Finish(h),
               Reply(h.msg, GotShard(agent[w], s)), UNCHANGED net
        PROVE  TypeOK'
    BY <1>0, <2>2, TransactionTypes, HandlersType, ReplyType, AnswersAreAgents DEF TypeOK
  <2>3. ASSUME Continue(h, "count", NoShard), UNCHANGED <<storeVars, agent, trouble>>, UNCHANGED net
        PROVE  TypeOK'
    BY <1>0, <1>a, <2>3, HandlersType DEF TypeOK
  <2> QED
    BY <1>1, <2>1, <2>2, <2>3 DEF LeaseShard
<1>5. CASE CountOutstanding(h)
  <2>1. Outstanding \in BOOLEAN
    BY DEF Outstanding
  <2> QED
    BY <1>0, <1>a, <1>5, <2>1, HandlersType, ReplyType, AnswersAreAgents DEF TypeOK, CountOutstanding
<1>2. CASE CloseAnswered(h)
  BY <1>0, <1>2, TransactionTypes, HandlersType DEF TypeOK, CloseAnswered
<1>3. CASE ReadStatus(h)
  <2>1. CASE Continue(h, "set", NoShard) /\ UNCHANGED <<agent, trouble>>
    BY <1>3, <1>a, <2>1, HandlersType DEF TypeOK, ReadStatus
  <2>2. CASE Finish(h) /\ Reply(h.msg, AfterPost(agent[h.msg.worker]))
    BY <1>0, <1>3, <1>a, <2>2, HandlersType, ReplyType, AnswersAreAgents DEF TypeOK, ReadStatus
  <2> QED
    BY <1>3, <2>1, <2>2 DEF ReadStatus
<1>4. CASE MarkDone(h)
  <2>1. StoreTypeOK'
    BY <1>4, TransactionTypes DEF TypeOK, MarkDone, JobStatus
  <2> QED
    BY <1>0, <1>4, <2>1, HandlersType, ReplyType, AnswersAreAgents DEF TypeOK, MarkDone
<1> QED
  BY <1>1, <1>2, <1>3, <1>4, <1>5 DEF Serve

LEMMA EnvironmentType ==
  ASSUME TypeOK,
         \/ \E w \in Workers : KillWorker(w)
         \/ \E s \in Shards : Lapse(s)
         \/ ReapExpired \/ CancelJob \/ ControlPlaneCrash
  PROVE  TypeOK'
<1> USE DEF trouble
<1>1. CASE \E w \in Workers : KillWorker(w)
  BY <1>1, TransactionTypes DEF TypeOK, KillWorker
<1>2. CASE \E s \in Shards : Lapse(s)
  BY <1>2, TransactionTypes DEF TypeOK, Lapse
<1>3. CASE ReapExpired
  BY <1>3, TransactionTypes DEF TypeOK, ReapExpired
<1>4. CASE CancelJob
  BY <1>4, TransactionTypes DEF TypeOK, CancelJob, JobStatus
<1>5. CASE ControlPlaneCrash
  BY <1>5, FaultAssumption DEF TypeOK, StoreTypeOK, storeVars, ControlPlaneCrash, Fault
<1> QED
  BY <1>1, <1>2, <1>3, <1>4, <1>5

LEMMA InitType == Init => TypeOK
<1> SUFFICES ASSUME Init PROVE TypeOK
  OBVIOUS
<1>1. StoreTypeOK
  BY RowsOfShards DEF Init, StoreInit, StoreTypeOK, JobStatus
<1>2. gaveUp \in BOOLEAN
  BY Zenon DEF Init
<1> QED
  BY <1>1, <1>2, OffIsAgent, FaultAssumption DEF Init, TypeOK

LEMMA NextType == TypeOK /\ [Next]_vars => TypeOK'
<1> SUFFICES ASSUME TypeOK, [Next]_vars PROVE TypeOK'
  OBVIOUS
<1>1. CASE \E w \in Workers : AgentStep(w)
  BY <1>1, AgentStepType
<1>2. CASE \E m \in net : Receive(m) \/ LoseRequest(m)
  BY <1>2, ReceiveType
<1>3. CASE \E h \in handlers : Serve(h)
  BY <1>3, ServeType
<1>4. CASE \/ \E w \in Workers : KillWorker(w)
           \/ \E s \in Shards : Lapse(s)
           \/ ReapExpired \/ CancelJob \/ ControlPlaneCrash
  BY <1>4, EnvironmentType
<1>5. CASE UNCHANGED vars
  BY <1>5 DEF vars, TypeOK, StoreTypeOK
<1> QED
  BY <1>1, <1>2, <1>3, <1>4, <1>5 DEF Next

\* Every variable keeps its type, whatever is lost, repeated or killed.
THEOREM TypeCorrect == Spec => []TypeOK
<1>1. Init => TypeOK
  BY InitType
<1>2. TypeOK /\ [Next]_vars => TypeOK'
  BY NextType
<1> QED
  BY <1>1, <1>2, PTL DEF Spec

-----------------------------------------------------------------------------
(* No shard is closed too early, as long as no outage outlasts a post.     *)
(* The invariant is ClaimsAreCovered: who says that a shard is finished    *)
(* has seen an answer to every post about its requests, and the answered   *)
(* requests only grow.                                                     *)

\* Results are upserted and never deleted.
LEMMA AnsweredGrows == TypeOK /\ [Next]_vars => Answered \subseteq Answered'
<1> SUFFICES ASSUME TypeOK, [Next]_vars PROVE Answered \subseteq Answered'
  OBVIOUS
<1>1. CASE \E m \in net : ReceiveResults(m)
  <2>1. PICK m \in net : result' = Upserted(m.rows)
    BY <1>1 DEF ReceiveResults
  <2>2. \A r \in DOMAIN m.rows : m.rows[r] # "none"
    BY RowSetsFields, MessageFields DEF TypeOK, Verdict
  <2> QED
    BY <2>1, <2>2 DEF Answered, Upserted
<1>2. CASE UNCHANGED result
  BY <1>2 DEF Answered
<1>3. ASSUME NEW w \in Workers, AgentStep(w) PROVE UNCHANGED result
  BY <1>3 DEF AgentStep, Boot, PostClaim, EngineReady, PostBatch, PostDone, ObeyStop,
              WaitOver, IdleTooLong, Retry, RetryEarly, GiveUp, Crash, Heartbeat, storeVars
<1>4. ASSUME NEW h \in handlers, Serve(h) PROVE UNCHANGED result
  BY <1>4 DEF Serve, LeaseShard, CountOutstanding, CloseAnswered, ReadStatus, MarkDone, ClaimShard,
              FinishShard, SetJobStatus, storeVars
<1>5. ASSUME NEW m \in net, ReceiveClaim(m) \/ ReceiveDone(m) \/ LoseRequest(m)
      PROVE  UNCHANGED result
  BY <1>5 DEF ReceiveClaim, ReceiveDone, LoseRequest, FinishShard, storeVars
<1>6. ASSUME \/ \E w \in Workers : KillWorker(w)
             \/ \E s \in Shards : Lapse(s)
             \/ ReapExpired \/ CancelJob \/ ControlPlaneCrash \/ UNCHANGED vars
      PROVE  UNCHANGED result
  BY <1>6 DEF KillWorker, Lapse, ReapExpired, CancelJob, ControlPlaneCrash, ReleaseLeases,
              LeaseLapses, Reap, SetJobStatus, vars, storeVars
<1> QED
  BY <1>1, <1>2, <1>3, <1>4, <1>5, <1>6 DEF Next, Receive

\* What covers a shard goes on covering it while results come in.
LEMMA CoverageGrows ==
  ASSUME NEW answered, NEW more, answered \subseteq more
  PROVE  /\ \A a : AgentCovers(a, answered) => AgentCovers(a, more)
         /\ \A m : MessageCovers(m, answered) => MessageCovers(m, more)
         /\ \A h : HandlerCovers(h, answered) => HandlerCovers(h, more)
<1>1. \A a : AgentCovers(a, answered) => AgentCovers(a, more)
  BY DEF AgentCovers
<1>2. \A m : MessageCovers(m, answered) => MessageCovers(m, more)
  BY DEF MessageCovers
<1>3. \A h : HandlerCovers(h, answered) => HandlerCovers(h, more)
  BY <1>2 DEF HandlerCovers
<1> QED
  BY <1>1, <1>2, <1>3

LEMMA UnansweredMeans ==
  ASSUME NEW s
  PROVE  Unanswered(s) = {} <=> RequestsOf(s) \subseteq Answered
BY DEF Unanswered

\* What an agent makes of an answer leaves it covering its shard.
LEMMA AnswersCover ==
  ASSUME NEW a \in Agent, NEW answered
  PROVE  /\ AgentCovers(Off, answered)
         /\ AgentCovers(AtTop(a), answered)
         /\ \A b \in BOOLEAN : AgentCovers(GotNothing(a, b), answered)
         /\ (a.pc = "posting" =>
               AgentCovers(a, answered) /\ DOMAIN a.sent.rows \subseteq answered)
            => AgentCovers(AfterPost(a), answered)
<1> USE DEF Agent, AgentRecord
<1>1. AgentCovers(Off, answered)
  BY DEF AgentCovers, Off
<1>2. AgentCovers(AtTop(a), answered)
  BY DEF AgentCovers, AtTop
<1>3. \A b \in BOOLEAN : AgentCovers(GotNothing(a, b), answered)
  BY DEF AgentCovers, AtTop, GotNothing
<1>4. ASSUME a.pc = "posting" => AgentCovers(a, answered) /\ DOMAIN a.sent.rows \subseteq answered
      PROVE  AgentCovers(AfterPost(a), answered)
  <2>1. CASE a.pc = "posting"
    BY <1>4, <2>1 DEF AgentCovers, AfterPost
  <2>2. CASE a.pc # "posting"
    BY <1>2, <2>2 DEF AfterPost
  <2> QED
    BY <2>1, <2>2
<1> QED
  BY <1>1, <1>2, <1>3, <1>4

LEMMA ReplyCovers ==
  ASSUME TypeOK, NEW m \in Message, NEW a \in Agent, Reply(m, a), NEW answered,
         \A w \in Workers : AgentCovers(agent[w], answered),
         agent[m.worker].sent = m => AgentCovers(a, answered)
  PROVE  \A w \in Workers : AgentCovers(agent'[w], answered)
BY MessageFields DEF TypeOK, Reply

LEMMA InitCovers == Init => ClaimsAreCovered /\ ClosedMeansAnswered
<1> SUFFICES ASSUME Init PROVE ClaimsAreCovered /\ ClosedMeansAnswered
  OBVIOUS
<1>1. AgentCovers(Off, Answered)
  BY DEF AgentCovers, Off
<1> QED
  BY <1>1 DEF Init, StoreInit, ClaimsAreCovered, ClosedMeansAnswered, Pending

\* The agent's own steps.  PostBatch moves requests from todo to sent, PostDone
\* is taken when both are empty; without GiveUp an awaited post is answered.
LEMMA AgentStepCovers ==
  ASSUME TypeOK, ClaimsAreCovered, ClosedMeansAnswered, gaveUp' = FALSE,
         NEW w \in Workers, AgentStep(w)
  PROVE  ClaimsAreCovered' /\ ClosedMeansAnswered'
<1> DEFINE a == agent[w]
<1>0. /\ a \in Agent /\ AgentCovers(a, Answered)
      /\ (a.pc \in Awaiting => a.sent \in Message)
  BY AgentFields DEF TypeOK, ClaimsAreCovered
<1>u. ASSUME UNCHANGED result, NEW b, agent' = [agent EXCEPT ![w] = b], AgentCovers(b, Answered),
             UNCHANGED handlers, \A m \in net' \ net : MessageCovers(m, Answered)
      PROVE  ClaimsAreCovered'
  BY <1>u DEF TypeOK, ClaimsAreCovered, Answered
<1>d. ASSUME UNCHANGED <<result, shard>> PROVE ClosedMeansAnswered'
  BY <1>d DEF ClosedMeansAnswered, Unanswered, Answered
<1>1. CASE Boot(w)
  BY <1>1, <1>0, <1>u, <1>d, OffIsAgent, AnswersCover DEF Boot, storeVars
<1>2. CASE PostClaim(w)
  <2> DEFINE b == [[a EXCEPT !.pc = "claiming"] EXCEPT !.sent = ClaimMsg(w)]
  <2>1. AgentCovers(b, Answered)
    BY <1>0 DEF AgentCovers, ClaimMsg, Agent, AgentRecord
  <2>2. agent' = [agent EXCEPT ![w] = b] /\ net' = net \cup {ClaimMsg(w)}
    BY <1>2 DEF PostClaim, Post, TypeOK
  <2>3. MessageCovers(ClaimMsg(w), Answered)
    BY DEF MessageCovers, ClaimMsg
  <2> QED
    BY <1>2, <1>u, <1>d, <2>1, <2>2, <2>3 DEF PostClaim, storeVars
<1>3. CASE EngineReady(w)
  <2> DEFINE b == [a EXCEPT !.pc = "work"]
  <2>1. AgentCovers(b, Answered)
    BY <1>0, <1>3 DEF EngineReady, AgentCovers, Agent, AgentRecord
  <2> QED
    BY <1>3, <1>u, <1>d, <2>1 DEF EngineReady, storeVars, TypeOK
<1>4. CASE PostBatch(w)
  <2>0. PICK batch \in SUBSET a.todo :
          \E rows \in [batch -> Verdicts] :
            LET m == ResultsMsg(w, a.shard, rows) IN
            /\ agent' = [agent EXCEPT ![w].pc = "posting", ![w].sent = m,
                                      ![w].todo = a.todo \ batch]
            /\ net' = net \cup {m}
    BY <1>4 DEF PostBatch
  <2>1. PICK rows \in [batch -> Verdicts] :
          /\ agent' = [agent EXCEPT ![w].pc = "posting",
                                    ![w].sent = ResultsMsg(w, a.shard, rows),
                                    ![w].todo = a.todo \ batch]
          /\ net' = net \cup {ResultsMsg(w, a.shard, rows)}
    BY <2>0
  <2> DEFINE m == ResultsMsg(w, a.shard, rows)
             b == [[[a EXCEPT !.pc = "posting"] EXCEPT !.sent = m] EXCEPT !.todo = a.todo \ batch]
  <2>2. m.kind = "results" /\ DOMAIN m.rows = batch /\ MessageCovers(m, Answered)
    BY DEF ResultsMsg, MessageCovers
  <2>3. a.shard \in Shards /\ RequestsOf(a.shard) \subseteq Answered \cup a.todo
    BY <1>0, <1>4 DEF PostBatch, AgentCovers
  <2>4. /\ b.pc = "posting" /\ b.shard = a.shard /\ b.sent = m
        /\ b.todo = a.todo \ batch
    BY <1>0 DEF Agent, AgentRecord
  <2>5. AgentCovers(b, Answered)
    BY <2>2, <2>3, <2>4 DEF AgentCovers
  <2>6. agent' = [agent EXCEPT ![w] = b]
    BY <2>1 DEF TypeOK
  <2> QED
    BY <1>4, <1>u, <1>d, <2>1, <2>2, <2>5, <2>6 DEF PostBatch, storeVars
<1>5. CASE PostDone(w)
  <2> DEFINE m == DoneMsg(w, a.shard)
             b == [[a EXCEPT !.pc = "finishing"] EXCEPT !.sent = m]
  <2>1. m.kind = "done" /\ m.shard = a.shard
    BY DEF DoneMsg
  <2>2. RequestsOf(a.shard) \subseteq Answered
    BY <1>0, <1>5 DEF PostDone, AgentCovers
  <2>3. b.pc = "finishing" /\ b.sent = m
    BY <1>0 DEF Agent, AgentRecord
  <2>4. AgentCovers(b, Answered) /\ MessageCovers(m, Answered)
    BY <2>1, <2>2, <2>3 DEF AgentCovers, MessageCovers
  <2>5. agent' = [agent EXCEPT ![w] = b] /\ net' = net \cup {m}
    BY <1>5 DEF PostDone, Post, TypeOK
  <2> QED
    BY <1>5, <1>u, <1>d, <2>4, <2>5 DEF PostDone, storeVars
<1>6. CASE ObeyStop(w)
  BY <1>6, <1>0, <1>u, <1>d, AnswersCover DEF ObeyStop, storeVars
<1>7. CASE WaitOver(w)
  <2> DEFINE b == [a EXCEPT !.pc = "claim"]
  <2>1. AgentCovers(b, Answered)
    BY <1>0 DEF AgentCovers, Agent, AgentRecord
  <2> QED
    BY <1>7, <1>u, <1>d, <2>1 DEF WaitOver, storeVars, TypeOK
<1>8. CASE IdleTooLong(w)
  BY <1>8, <1>0, <1>u, <1>d, AnswersCover DEF IdleTooLong, storeVars
<1>9. CASE Retry(w) \/ RetryEarly(w)
  <2>1. MessageCovers(a.sent, Answered)
    <3>1. a.pc \in Awaiting
      BY <1>9 DEF Retry, RetryEarly
    <3> QED
      BY <1>0, <3>1 DEF AgentCovers, MessageCovers, Awaiting
  <2>2. agent' = [agent EXCEPT ![w] = a] /\ net' = net \cup {a.sent}
    BY <1>9 DEF Retry, RetryEarly, TypeOK
  <2> QED
    BY <1>0, <1>9, <1>u, <1>d, <2>1, <2>2 DEF Retry, RetryEarly, storeVars
<1>10. CASE GiveUp(w)
  BY <1>10 DEF GiveUp
<1>11. CASE Crash(w)
  BY <1>11, <1>0, <1>u, <1>d, AnswersCover DEF Crash, storeVars
<1>12. CASE Heartbeat(w)
  <2> DEFINE b == [a EXCEPT !.stop = @ \/ jobStatus # "running"]
  <2>1. AgentCovers(b, Answered)
    BY <1>0 DEF AgentCovers, Agent, AgentRecord
  <2>2. \A s \in Shards : shard'[s].state = shard[s].state
    BY <1>12 DEF Heartbeat, Extended, TypeOK, StoreTypeOK, ShardRow
  <2>3. ClosedMeansAnswered'
    BY <1>12, <2>2 DEF Heartbeat, ClosedMeansAnswered, Unanswered, Answered
  <2>4. agent' = [agent EXCEPT ![w] = b]
    BY <1>12 DEF Heartbeat, TypeOK
  <2> QED
    BY <1>12, <1>u, <2>1, <2>3, <2>4 DEF Heartbeat
<1> QED
  BY <1>1, <1>2, <1>3, <1>4, <1>5, <1>6, <1>7, <1>8, <1>9, <1>10, <1>11, <1>12
     DEF AgentStep

\* Serving a post.  The rows of a results post are answered when its handler
\* reports back; a done post closes a shard that misses nothing.
LEMMA ReceiveCovers ==
  ASSUME TypeOK, TypeOK', ClaimsAreCovered, ClosedMeansAnswered, Answered \subseteq Answered',
         NEW m \in net, Receive(m) \/ LoseRequest(m)
  PROVE  ClaimsAreCovered' /\ ClosedMeansAnswered'
<1>0. m \in Message /\ m.worker \in Workers
  BY MessageFields DEF TypeOK
<1>c. /\ \A w \in Workers : AgentCovers(agent[w], Answered')
      /\ \A n \in net : MessageCovers(n, Answered')
      /\ \A h \in handlers : HandlerCovers(h, Answered')
  BY CoverageGrows DEF ClaimsAreCovered
<1>d. ASSUME \A s \in Shards : shard'[s].state = shard[s].state \/ Unanswered(s) = {}
      PROVE  ClosedMeansAnswered'
  BY <1>d DEF ClosedMeansAnswered, Unanswered
<1>t. ASSUME NEW step \in {"lease", "status"}, Take(m, step), UNCHANGED agent,
             HandlerCovers([msg |-> m, step |-> step, shard |-> NoShard], Answered')
      PROVE  ClaimsAreCovered'
  BY <1>c, <1>t DEF ClaimsAreCovered, Take
<1>1. CASE ReceiveClaim(m)
  <2>1. ClosedMeansAnswered'
    BY <1>1, <1>d DEF ReceiveClaim, storeVars
  <2>2. CASE Take(m, "lease") /\ UNCHANGED <<agent, trouble>>
    <3>1. HandlerCovers([msg |-> m, step |-> "lease", shard |-> NoShard], Answered')
      BY <1>1 DEF ReceiveClaim, HandlerCovers, MessageCovers
    <3> QED
      BY <1>t, <2>1, <2>2, <3>1
  <2>3. CASE net' = net \ {m} /\ Reply(m, Off) /\ UNCHANGED handlers
    <3>1. \A w \in Workers : AgentCovers(agent'[w], Answered')
      <4>1. AgentCovers(Off, Answered')
        BY DEF AgentCovers, Off
      <4> QED
        BY <1>0, <1>c, <2>3, <4>1, ReplyCovers, OffIsAgent
    <3> QED
      BY <1>c, <2>1, <2>3, <3>1 DEF ClaimsAreCovered
  <2> QED
    BY <1>1, <2>2, <2>3 DEF ReceiveClaim
<1>2. CASE ReceiveResults(m)
  <2>1. DOMAIN m.rows \subseteq Answered'
    <3>1. \A r \in DOMAIN m.rows : r \in Requests /\ m.rows[r] # "none"
      BY <1>0, RowSetsFields, MessageFields DEF Verdict
    <3> QED
      BY <1>2, <3>1 DEF ReceiveResults, Upserted, Answered
  <2>2. HandlerCovers([msg |-> m, step |-> "status", shard |-> NoShard], Answered')
    BY <1>2, <2>1 DEF ReceiveResults, HandlerCovers, MessageCovers
  <2>3. ClosedMeansAnswered'
    <3>1. \A s \in Shards : shard'[s].state = shard[s].state
      BY <1>2 DEF ReceiveResults, Extended, TypeOK, StoreTypeOK, ShardRow
    <3> QED
      BY <1>d, <3>1
  <2> QED
    BY <1>2, <1>t, <2>2, <2>3 DEF ReceiveResults
<1>3. CASE ReceiveDone(m)
  <2>1. RequestsOf(m.shard) \subseteq Answered
    BY <1>3 DEF ReceiveDone, ClaimsAreCovered, MessageCovers
  <2>2. HandlerCovers([msg |-> m, step |-> "status", shard |-> NoShard], Answered')
    BY <1>3, <2>1 DEF ReceiveDone, HandlerCovers, MessageCovers
  <2>3. ClosedMeansAnswered'
    BY <1>3, <1>d, <2>1 DEF ReceiveDone, FinishShard, Unanswered, TypeOK, StoreTypeOK
  <2> QED
    BY <1>3, <1>t, <2>2, <2>3 DEF ReceiveDone
<1>4. CASE LoseRequest(m)
  BY <1>4, <1>c, <1>d DEF LoseRequest, ClaimsAreCovered, storeVars
<1> QED
  BY <1>1, <1>2, <1>3, <1>4 DEF Receive

LEMMA ServeCovers ==
  ASSUME TypeOK, TypeOK', ClaimsAreCovered, ClosedMeansAnswered, NEW h \in handlers, Serve(h)
  PROVE  ClaimsAreCovered' /\ ClosedMeansAnswered'
<1> DEFINE w == h.msg.worker
           a == agent[w]
<1>0. /\ h.msg \in Message /\ w \in Workers /\ a \in Agent
      /\ HandlerCovers(h, Answered)
      /\ \A v \in Workers : AgentCovers(agent[v], Answered)
  BY MessageFields DEF TypeOK, Handler, ClaimsAreCovered
<1>r. result' = result /\ net' = net /\ Answered' = Answered
  BY DEF Serve, LeaseShard, CountOutstanding, CloseAnswered, ReadStatus, MarkDone, ClaimShard, FinishShard,
         SetJobStatus, storeVars, Answered
<1>d. ASSUME \A s \in Shards : shard'[s].state = "done" =>
                                shard[s].state = "done" \/ Unanswered(s) = {}
      PROVE  ClosedMeansAnswered'
  BY <1>d, <1>r DEF ClosedMeansAnswered, Unanswered
<1>c. ASSUME NEW step, NEW s, Continue(h, step, s), UNCHANGED agent,
             HandlerCovers([msg |-> h.msg, step |-> step, shard |-> s], Answered)
      PROVE  ClaimsAreCovered'
  BY <1>c, <1>r DEF ClaimsAreCovered, Continue
<1>f. ASSUME NEW b \in Agent, Finish(h), Reply(h.msg, b),
             a.sent = h.msg => AgentCovers(b, Answered)
      PROVE  ClaimsAreCovered'
  <2>1. \A v \in Workers : AgentCovers(agent'[v], Answered)
    BY <1>0, <1>f, ReplyCovers
  <2> QED
    BY <1>f, <1>r, <2>1 DEF ClaimsAreCovered, Finish
<1>1. CASE LeaseShard(h)
  <2>1. ASSUME NEW s \in Shards, ClaimShard(w, s)
        PROVE  ClosedMeansAnswered'
    BY <1>d, <2>1 DEF ClaimShard, LeasedTo, TypeOK, StoreTypeOK
  <2>2. ASSUME NEW s \in Shards, ClaimShard(w, s), Unanswered(s) = {},
               Continue(h, "close", s), UNCHANGED <<agent, trouble>>
        PROVE  ClaimsAreCovered'
    <3>1. HandlerCovers([msg |-> h.msg, step |-> "close", shard |-> s], Answered)
      BY <1>0, <1>1, <2>2, UnansweredMeans DEF LeaseShard, HandlerCovers
    <3> QED
      BY <1>c, <2>2, <3>1
  <2>3. ASSUME NEW s \in Shards, ClaimShard(w, s), Finish(h), Reply(h.msg, GotShard(a, s))
        PROVE  ClaimsAreCovered'
    <3>1. AgentCovers(GotShard(a, s), Answered)
      BY <1>0 DEF GotShard, AgentCovers, Unanswered, Agent, AgentRecord
    <3> QED
      BY <1>0, <1>f, <2>3, <3>1, AnswersAreAgents
  <2>4. ASSUME Continue(h, "count", NoShard), UNCHANGED <<storeVars, agent, trouble>>
        PROVE  ClaimsAreCovered' /\ ClosedMeansAnswered'
    <3>1. HandlerCovers([msg |-> h.msg, step |-> "count", shard |-> NoShard], Answered)
      BY <1>0, <1>1 DEF LeaseShard, HandlerCovers
    <3> QED
      BY <1>c, <1>d, <2>4, <3>1 DEF storeVars
  <2> QED
    BY <1>1, <2>1, <2>2, <2>3, <2>4 DEF LeaseShard
<1>5. CASE CountOutstanding(h)
  <2>1. Outstanding \in BOOLEAN
    BY DEF Outstanding
  <2>2. AgentCovers(GotNothing(a, Outstanding), Answered)
    BY <1>0, <2>1, AnswersCover
  <2> QED
    BY <1>0, <1>5, <1>d, <1>f, <2>1, <2>2, AnswersAreAgents DEF CountOutstanding, storeVars
<1>2. CASE CloseAnswered(h)
  <2>1. RequestsOf(h.shard) \subseteq Answered
    BY <1>0, <1>2 DEF CloseAnswered, HandlerCovers
  <2>2. HandlerCovers([msg |-> h.msg, step |-> "lease", shard |-> NoShard], Answered)
    BY <1>0, <1>2 DEF CloseAnswered, HandlerCovers
  <2>3. ClaimsAreCovered'
    BY <1>2, <1>c, <2>2 DEF CloseAnswered
  <2>4. ClosedMeansAnswered'
    BY <1>2, <1>d, <2>1 DEF CloseAnswered, FinishShard, Unanswered, TypeOK, StoreTypeOK
  <2> QED
    BY <2>3, <2>4
<1>p. ASSUME Finish(h), Reply(h.msg, AfterPost(a)), h.step \in {"status", "set"}
      PROVE  ClaimsAreCovered'
  <2>1. ASSUME a.sent = h.msg PROVE AgentCovers(AfterPost(a), Answered)
    <3>1. a.pc = "posting" => DOMAIN a.sent.rows \subseteq Answered
      BY <1>0, <2>1 DEF HandlerCovers, AgentCovers
    <3> QED
      BY <1>0, <3>1, AnswersCover
  <2> QED
    BY <1>0, <1>f, <1>p, <2>1, AnswersAreAgents
<1>3. CASE ReadStatus(h)
  <2>1. ClosedMeansAnswered'
    BY <1>3, <1>d DEF ReadStatus, storeVars
  <2>2. CASE Continue(h, "set", NoShard) /\ UNCHANGED <<agent, trouble>>
    <3>1. HandlerCovers([msg |-> h.msg, step |-> "set", shard |-> NoShard], Answered)
      BY <1>0, <1>3 DEF ReadStatus, HandlerCovers
    <3> QED
      BY <1>c, <2>1, <2>2, <3>1
  <2>3. CASE Finish(h) /\ Reply(h.msg, AfterPost(a))
    BY <1>3, <1>p, <2>1, <2>3 DEF ReadStatus
  <2> QED
    BY <1>3, <2>2, <2>3 DEF ReadStatus
<1>4. CASE MarkDone(h)
  BY <1>4, <1>d, <1>p DEF MarkDone, SetJobStatus
<1> QED
  BY <1>1, <1>2, <1>3, <1>4, <1>5 DEF Serve

LEMMA EnvironmentCovers ==
  ASSUME TypeOK, ClaimsAreCovered, ClosedMeansAnswered,
         \/ \E w \in Workers : KillWorker(w)
         \/ \E s \in Shards : Lapse(s)
         \/ ReapExpired \/ CancelJob \/ ControlPlaneCrash
  PROVE  ClaimsAreCovered' /\ ClosedMeansAnswered'
<1>r. UNCHANGED <<result, agent, net>> /\ handlers' \subseteq handlers
  BY DEF KillWorker, Lapse, ReapExpired, CancelJob, ControlPlaneCrash, ReleaseLeases,
         LeaseLapses, Reap, SetJobStatus, storeVars
<1>1. ClaimsAreCovered'
  BY <1>r DEF ClaimsAreCovered, Answered
<1>2. \A s \in Shards : shard'[s].state = "done" => shard[s].state = "done"
  BY DEF KillWorker, Lapse, ReapExpired, CancelJob, ControlPlaneCrash, ReleaseLeases,
         LeaseLapses, Reap, SetJobStatus, storeVars, Pending, TypeOK, StoreTypeOK, ShardRow
<1> QED
  BY <1>r, <1>1, <1>2 DEF ClosedMeansAnswered, Unanswered, Answered

LEMMA NextCovers ==
  ASSUME TypeOK, TypeOK', ClaimsAreCovered, ClosedMeansAnswered, [Next]_vars, gaveUp' = FALSE
  PROVE  ClaimsAreCovered' /\ ClosedMeansAnswered'
<1>1. CASE \E w \in Workers : AgentStep(w)
  BY <1>1, AgentStepCovers
<1>2. CASE \E m \in net : Receive(m) \/ LoseRequest(m)
  BY <1>2, ReceiveCovers, AnsweredGrows
<1>3. CASE \E h \in handlers : Serve(h)
  BY <1>3, ServeCovers
<1>4. CASE \/ \E w \in Workers : KillWorker(w)
           \/ \E s \in Shards : Lapse(s)
           \/ ReapExpired \/ CancelJob \/ ControlPlaneCrash
  BY <1>4, EnvironmentCovers
<1>5. CASE UNCHANGED vars
  BY <1>5 DEF vars, ClaimsAreCovered, ClosedMeansAnswered, Unanswered, Answered
<1> QED
  BY <1>1, <1>2, <1>3, <1>4, <1>5 DEF Next

\* A post once given up stays so.
LEMMA GivingUpIsForGood == [Next]_vars /\ gaveUp => gaveUp'
<1> SUFFICES ASSUME [Next]_vars, gaveUp PROVE gaveUp'
  OBVIOUS
<1> USE DEF trouble, Fault, Reply
<1>1. ASSUME NEW w \in Workers, AgentStep(w) PROVE gaveUp'
  BY <1>1 DEF AgentStep, Boot, PostClaim, EngineReady, PostBatch, PostDone, ObeyStop,
              WaitOver, IdleTooLong, Retry, RetryEarly, GiveUp, Crash, Heartbeat
<1>2. ASSUME NEW m \in net, Receive(m) \/ LoseRequest(m) PROVE gaveUp'
  BY <1>2 DEF Receive, ReceiveClaim, ReceiveResults, ReceiveDone, LoseRequest
<1>3. ASSUME NEW h \in handlers, Serve(h) PROVE gaveUp'
  BY <1>3 DEF Serve, LeaseShard, CountOutstanding, CloseAnswered, ReadStatus, MarkDone
<1>4. ASSUME \/ \E w \in Workers : KillWorker(w)
             \/ \E s \in Shards : Lapse(s)
             \/ ReapExpired \/ CancelJob \/ ControlPlaneCrash \/ UNCHANGED vars
      PROVE  gaveUp'
  BY <1>4 DEF KillWorker, Lapse, ReapExpired, CancelJob, ControlPlaneCrash, vars
<1> QED
  BY <1>1, <1>2, <1>3, <1>4 DEF Next

\* As long as no post was given up, no shard is closed with a request unanswered,
\* although finish_shard checks neither the holder nor the state.
THEOREM ShardsAreClosedInTime == Spec => [](NothingClaimedTooEarly /\ DoneShardsAreAnswered)
<1> DEFINE Inv == gaveUp \/ (ClaimsAreCovered /\ ClosedMeansAnswered)
<1>1. Init => Inv
  BY InitCovers
<1>2. TypeOK /\ TypeOK' /\ Inv /\ [Next]_vars => Inv'
  <2> SUFFICES ASSUME TypeOK, TypeOK', Inv, [Next]_vars, ~ gaveUp'
               PROVE  ClaimsAreCovered' /\ ClosedMeansAnswered'
    OBVIOUS
  <2>1. ClaimsAreCovered /\ ClosedMeansAnswered
    BY GivingUpIsForGood
  <2>2. gaveUp' = FALSE
    BY DEF TypeOK
  <2> QED
    BY <2>1, <2>2, NextCovers
<1>3. Spec => []TypeOK
  BY TypeCorrect
<1>4. Inv => NothingClaimedTooEarly /\ DoneShardsAreAnswered
  BY DEF NothingClaimedTooEarly, DoneShardsAreAnswered
<1> HIDE DEF Inv
<1> QED
  BY <1>1, <1>2, <1>3, <1>4, PTL DEF Spec

-----------------------------------------------------------------------------
(* Nobody goes home early.                                                 *)

\* With every shard closed, and none closed too early, all is answered.
LEMMA AllShardsClosed ==
  ASSUME ClosedMeansAnswered, ~ Outstanding
  PROVE  Answered = Requests
<1>1. \A r \in Requests : ShardOf(r) \in Shards /\ r \in RequestsOf(ShardOf(r))
  BY DEF Shards, RequestsOf
<1>2. \A s \in Shards : RequestsOf(s) \subseteq Answered
  BY DEF ClosedMeansAnswered, Outstanding, Unanswered
<1> QED
  BY <1>1, <1>2 DEF Answered

\* An agent drains only on the answer to a claim that found nothing outstanding.
LEMMA DrainingStep ==
  ASSUME TypeOK, [Next]_vars, gaveUp' = FALSE,
         NEW w \in Workers, agent'[w].pc = "drained"
  PROVE  agent[w].pc = "drained" \/ ~ Outstanding
<1> USE DEF TypeOK
<1>r. ASSUME NEW m \in Message, NEW b \in Agent, Reply(m, b), b.pc # "drained"
      PROVE  agent[w].pc = "drained"
  BY <1>r, MessageFields DEF Reply
<1>a. ASSUME NEW a \in Agent
      PROVE  /\ Off.pc # "drained" /\ AtTop(a).pc # "drained"
             /\ AfterPost(a).pc # "drained"
             /\ \A s \in Shards : GotShard(a, s).pc # "drained"
             /\ GotNothing(a, TRUE).pc # "drained"
  BY DEF Agent, AgentRecord, Off, AtTop, AfterPost, GotShard, GotNothing
<1>1. CASE \E v \in Workers : AgentStep(v)
  <2>1. PICK v \in Workers : AgentStep(v)
    BY <1>1
  <2>2. agent[v] \in Agent
    OBVIOUS
  <2>3. Off.pc # "drained" /\ AtTop(Off).pc # "drained"
    BY <1>a, OffIsAgent
  <2>4. CASE Boot(v) \/ ObeyStop(v) \/ IdleTooLong(v) \/ Crash(v)
    BY <2>3, <2>4 DEF Boot, ObeyStop, IdleTooLong, Crash
  <2>5. CASE PostClaim(v) \/ PostDone(v)
    BY <2>2, <2>5 DEF PostClaim, PostDone, Post, Agent, AgentRecord
  <2>6. CASE EngineReady(v) \/ WaitOver(v)
    BY <2>2, <2>6 DEF EngineReady, WaitOver, Agent, AgentRecord
  <2>7. CASE PostBatch(v)
    BY <2>2, <2>7 DEF PostBatch, Agent, AgentRecord
  <2>8. CASE Retry(v) \/ RetryEarly(v)
    BY <2>8 DEF Retry, RetryEarly
  <2>9. CASE Heartbeat(v)
    BY <2>2, <2>9 DEF Heartbeat, Agent, AgentRecord
  <2> QED
    BY <2>1, <2>4, <2>5, <2>6, <2>7, <2>8, <2>9 DEF AgentStep, GiveUp
<1>2. ASSUME NEW m \in net, Receive(m) \/ LoseRequest(m) PROVE agent[w].pc = "drained"
  <2>1. m \in Message
    OBVIOUS
  <2> QED
    BY <1>2, <1>r, <1>a, <2>1, OffIsAgent
       DEF Receive, ReceiveClaim, ReceiveResults, ReceiveDone, LoseRequest
<1>3. ASSUME NEW h \in handlers, Serve(h) PROVE agent[w].pc = "drained" \/ ~ Outstanding
  <2> DEFINE a == agent[h.msg.worker]
  <2>0. h.msg \in Message /\ a \in Agent
    BY MessageFields DEF Handler
  <2>1. CASE LeaseShard(h)
    <3>1. CASE UNCHANGED agent
      BY <3>1
    <3>2. ASSUME NEW s \in Shards, Reply(h.msg, GotShard(a, s)) PROVE agent[w].pc = "drained"
      <4>1. GotShard(a, s) \in Agent /\ GotShard(a, s).pc # "drained"
        BY <1>a, <2>0, AnswersAreAgents
      <4> QED
        BY <1>r, <2>0, <3>2, <4>1
    <3> QED
      BY <2>1, <3>1, <3>2 DEF LeaseShard
  <2>3. CASE CountOutstanding(h) /\ Outstanding
    <3>1. GotNothing(a, Outstanding) = GotNothing(a, TRUE)
      BY <2>3 DEF GotNothing
    <3> QED
      BY <1>a, <1>r, <2>0, <2>3, <3>1, AnswersAreAgents DEF CountOutstanding
  <2>2. CASE CloseAnswered(h) \/ ReadStatus(h) \/ MarkDone(h)
    BY <1>a, <1>r, <2>0, <2>2, AnswersAreAgents DEF CloseAnswered, ReadStatus, MarkDone
  <2> QED
    BY <1>3, <2>1, <2>2, <2>3 DEF Serve
<1>4. ASSUME \/ \E v \in Workers : KillWorker(v)
             \/ \E s \in Shards : Lapse(s)
             \/ ReapExpired \/ CancelJob \/ ControlPlaneCrash \/ UNCHANGED vars
      PROVE  UNCHANGED agent
  BY <1>4 DEF KillWorker, Lapse, ReapExpired, CancelJob, ControlPlaneCrash, vars
<1> QED
  BY <1>1, <1>2, <1>3, <1>4 DEF Next

\* As long as no post was given up, an agent that finds nothing outstanding leaves a
\* job with no request unanswered.
THEOREM NobodyGoesHomeEarly == Spec => []DrainedMeansAnswered
<1>1. Init => DrainedMeansAnswered
  BY DEF Init, DrainedMeansAnswered, HomeMeansAnswered, Off
<1>2. TypeOK /\ TypeOK' /\ DoneShardsAreAnswered /\ DrainedMeansAnswered /\ [Next]_vars
        => DrainedMeansAnswered'
  <2> SUFFICES ASSUME TypeOK, TypeOK', DoneShardsAreAnswered, DrainedMeansAnswered, [Next]_vars,
                      ~ gaveUp', NEW w \in Workers, agent'[w].pc = "drained"
               PROVE  Answered' = Requests
    BY DEF DrainedMeansAnswered, HomeMeansAnswered
  <2>0. ~ gaveUp /\ gaveUp' = FALSE
    BY GivingUpIsForGood DEF TypeOK
  <2>1. Answered = Requests
    BY <2>0, DrainingStep, AllShardsClosed
       DEF DrainedMeansAnswered, HomeMeansAnswered, DoneShardsAreAnswered
  <2>2. Answered \subseteq Answered' /\ Answered' \subseteq Requests
    BY AnsweredGrows DEF Answered
  <2> QED
    BY <2>1, <2>2
<1>3. Spec => []TypeOK
  BY TypeCorrect
<1>4. Spec => [](NothingClaimedTooEarly /\ DoneShardsAreAnswered)
  BY ShardsAreClosedInTime
<1> QED
  BY <1>1, <1>2, <1>3, <1>4, PTL DEF Spec

-----------------------------------------------------------------------------
(* Whatever the machines and the network do, the job is a BatchJob.        *)

LEMMA NextDecides ==
  TypeOK /\ DecidedMeansAnswered /\ [Next]_vars => DecidedMeansAnswered'
<1> SUFFICES ASSUME TypeOK, DecidedMeansAnswered, [Next]_vars,
                    NEW h \in handlers', h.step = "set"
             PROVE  Answered' = Requests
  BY DEF DecidedMeansAnswered
<1>g. Answered \subseteq Answered' /\ Answered' \subseteq Requests
  BY AnsweredGrows DEF Answered
<1>1. h \in handlers \/ Answered = Requests
  <2>1. ASSUME NEW w \in Workers, AgentStep(w) PROVE UNCHANGED handlers
    BY <2>1 DEF AgentStep, Boot, PostClaim, EngineReady, PostBatch, PostDone, ObeyStop,
                WaitOver, IdleTooLong, Retry, RetryEarly, GiveUp, Crash, Heartbeat
  <2>2. ASSUME NEW m \in net, Receive(m) \/ LoseRequest(m) PROVE h \in handlers
    BY <2>2 DEF Receive, ReceiveClaim, ReceiveResults, ReceiveDone, LoseRequest, Take
  <2>3. ASSUME NEW k \in handlers, Serve(k) PROVE h \in handlers \/ Answered = Requests
    BY <2>3 DEF Serve, LeaseShard, CountOutstanding, CloseAnswered, ReadStatus, MarkDone, Continue, Finish
  <2>4. ASSUME \/ \E w \in Workers : KillWorker(w)
               \/ \E s \in Shards : Lapse(s)
               \/ ReapExpired \/ CancelJob \/ ControlPlaneCrash \/ UNCHANGED vars
        PROVE  handlers' \subseteq handlers
    BY <2>4 DEF KillWorker, Lapse, ReapExpired, CancelJob, ControlPlaneCrash, vars
  <2> QED
    BY <2>1, <2>2, <2>3, <2>4 DEF Next
<1> QED
  BY <1>g, <1>1 DEF DecidedMeansAnswered

\* A decision to complete the job is never taken back by the results.
THEOREM CompletionIsDecidedInTime == Spec => []DecidedMeansAnswered
<1>1. Init => DecidedMeansAnswered
  BY DEF Init, DecidedMeansAnswered
<1>2. TypeOK /\ DecidedMeansAnswered /\ [Next]_vars => DecidedMeansAnswered'
  BY NextDecides
<1>3. Spec => []TypeOK
  BY TypeCorrect
<1> QED
  BY <1>1, <1>2, <1>3, PTL DEF Spec

\* Each step maps to a step of BatchJob or to a stutter.
LEMMA NextIsJobStep ==
  TypeOK /\ DecidedMeansAnswered /\ [Next]_vars => [Job!Next]_(Job!jobVars)
<1> SUFFICES ASSUME TypeOK, DecidedMeansAnswered, [Next]_vars
             PROVE  [Job!Next]_(Job!jobVars)
  OBVIOUS
<1>s. ASSUME UNCHANGED <<jobStatus, result>> PROVE UNCHANGED Job!jobVars
  BY <1>s DEF Job!jobVars, Answered
<1>1. ASSUME NEW m \in net, ReceiveResults(m) PROVE Job!Answer
  <2>1. Answered' = Answered \cup Answered' /\ Answered' \in SUBSET Requests
    BY AnsweredGrows DEF Answered
  <2> QED
    BY <1>1, <2>1 DEF Job!Answer, ReceiveResults
<1>2. ASSUME NEW h \in handlers, MarkDone(h) PROVE Job!Complete
  BY <1>2 DEF MarkDone, SetJobStatus, Job!Complete, DecidedMeansAnswered, Answered
<1>3. CASE CancelJob
  BY <1>3 DEF CancelJob, SetJobStatus, Job!Next, Job!Cancel, Answered
<1>4. ASSUME NEW w \in Workers, AgentStep(w) PROVE UNCHANGED <<jobStatus, result>>
  BY <1>4 DEF AgentStep, Boot, PostClaim, EngineReady, PostBatch, PostDone, ObeyStop,
              WaitOver, IdleTooLong, Retry, RetryEarly, GiveUp, Crash, Heartbeat, storeVars
<1>5. ASSUME NEW h \in handlers, LeaseShard(h) \/ CountOutstanding(h) \/ CloseAnswered(h) \/ ReadStatus(h)
      PROVE  UNCHANGED <<jobStatus, result>>
  BY <1>5 DEF LeaseShard, CountOutstanding, CloseAnswered, ReadStatus, ClaimShard, FinishShard, storeVars
<1>6. ASSUME NEW m \in net, ReceiveClaim(m) \/ ReceiveDone(m) \/ LoseRequest(m)
      PROVE  UNCHANGED <<jobStatus, result>>
  BY <1>6 DEF ReceiveClaim, ReceiveDone, LoseRequest, FinishShard, storeVars
<1>7. ASSUME \/ \E w \in Workers : KillWorker(w)
             \/ \E s \in Shards : Lapse(s)
             \/ ReapExpired \/ ControlPlaneCrash \/ UNCHANGED vars
      PROVE  UNCHANGED <<jobStatus, result>>
  BY <1>7 DEF KillWorker, Lapse, ReapExpired, ControlPlaneCrash, ReleaseLeases,
              LeaseLapses, Reap, vars, storeVars
<1> QED
  BY <1>s, <1>1, <1>2, <1>3, <1>4, <1>5, <1>6, <1>7 DEF Next, Receive, Serve, Job!Next

\* The job's answers only grow and it is declared done only when complete, for
\* any machines, losses, repeats, crashes and outages.
THEOREM LeasesImplementBatchJob == Spec => ImplementsBatchJob
<1>1. Init => Job!Init
  BY DEF Init, StoreInit, Job!Init, Answered
<1>2. TypeOK /\ DecidedMeansAnswered /\ [Next]_vars => [Job!Next]_(Job!jobVars)
  BY NextIsJobStep
<1>3. Spec => []TypeOK
  BY TypeCorrect
<1>4. Spec => []DecidedMeansAnswered
  BY CompletionIsDecidedInTime
<1> QED
  BY <1>1, <1>2, <1>3, <1>4, PTL DEF Spec, ImplementsBatchJob, Job!Spec

(***************************************************************************)
(* The machines a controller keeps.                                        *)
(***************************************************************************)

\* What each part of the fleet presupposes: a process its machine, a row that a
\* machine was launched, and what the controller holds on to likewise.
LaunchedBeforeListed ==
  /\ \A w \in Ids : agents[w] # "off" => machine[w] = "up"
  /\ \A w \in Ids : machine[w] = "none" => row[w].state = "absent"
  /\ \A item \in ctl.todo : machine[item.id] # "none"
  /\ ctl.stopping # NoItem => machine[ctl.stopping.id] # "none"

\* The machines there have been.
Ever == {w \in Ids : machine[w] # "none"}

\* Where the controller is says what it has in hand.
InHand ==
  /\ ctl.new # NoId <=> ctl.pc = "register"
  /\ ctl.stopping # NoItem => ctl.pc \in {"retire", "scale", "sweep"}
  /\ ctl.pc = "register" =>
       ctl.left > 0 /\ machine[ctl.new] # "none" /\ row[ctl.new].state # "dead"

\* The sweep has still to stop every recorded worker that lives, and leaves none.
SweepsTheRecorded ==
  /\ \A w \in recorded : row[w].state # "absent"
  /\ ctl.pc = "sweep" => \A w \in recorded \cap Live : \E item \in ctl.todo : item.id = w
  /\ ctl.pc = "ended" => recorded \cap Live = {}

FleetInv ==
  FleetTypeOK /\ IsFiniteSet(Ever) /\ LaunchedBeforeListed /\ InHand /\ SweepsTheRecorded


-----------------------------------------------------------------------------
(* What the controller reads. *)

LEMMA LiveIds == Live \subseteq Ids
BY DEF Live

LEMMA LiveIsFinite ==
  ASSUME FleetTypeOK, LaunchedBeforeListed, IsFiniteSet(Ever)
  PROVE  IsFiniteSet(Live) /\ Cardinality(Live) \in Nat
<1>1. Live \subseteq Ever
  BY DEF Live, Ever, LaunchedBeforeListed
<1> QED  BY <1>1, FS_Subset, FS_CardinalityType

LEMMA UnusedIds == FleetTypeOK => Unused \subseteq Ids
BY SetupsAssumption DEF FleetTypeOK, Unused, SetupsAssumption, Setup

LEMMA ReadType ==
  ASSUME FleetTypeOK, NEW ids \in SUBSET Ids
  PROVE  /\ Read(ids) \subseteq Item
         /\ \A w \in ids : \E item \in Read(ids) : item.id = w
         /\ \A item \in Read(ids) : item.id \in ids
<1>1. Read(ids) \subseteq Item
  <2> SUFFICES ASSUME NEW w \in ids
               PROVE  [id |-> w, instance |-> row[w].instance] \in Item
    BY DEF Read
  <2> QED  BY DEF FleetTypeOK, Row, Item
<1>2. ASSUME NEW w \in ids
      PROVE  \E item \in Read(ids) : item.id = w
  <2>1. [id |-> w, instance |-> row[w].instance] \in Read(ids)
    BY DEF Read
  <2> QED  BY <2>1
<1>3. \A item \in Read(ids) : item.id \in ids
  BY DEF Read
<1> QED  BY <1>1, <1>2, <1>3

LEMMA NoItemIsNone == NoItem \notin Item
BY IdAssumption DEF NoItem, Item

LEMMA RegisteredType ==
  ASSUME FleetTypeOK, NEW w \in Ids, NEW i \in BOOLEAN, NEW p \in {"zero", "charged"}
  PROVE  Registered(w, i, p) \in [Ids -> Row]
BY ZenonT(40) DEF Registered, FleetTypeOK, Row

\* Neither registration changes the state of a row that is there.
LEMMA RegisteredState ==
  ASSUME FleetTypeOK, NEW w \in Ids, NEW i \in BOOLEAN, NEW p \in {"zero", "charged"},
         NEW x \in Ids
  PROVE  Registered(w, i, p)[x].state =
           IF x = w /\ row[w].state = "absent" THEN "starting" ELSE row[x].state
BY DEF Registered, FleetTypeOK, Row

-----------------------------------------------------------------------------
(* Type correctness. *)

LEMMA AtTickType ==
  /\ AtTick \in Controller
  /\ \A todo \in SUBSET Item : [AtTick EXCEPT !.pc = "sweep", !.todo = todo] \in Controller
  /\ [AtTick EXCEPT !.pc = "plan"] \in Controller
  /\ [AtTick EXCEPT !.pc = "escaped"] \in Controller
BY DEF AtTick, Controller, ControllerStep

LEMMA FleetInitType == FleetInit => FleetTypeOK
<1> SUFFICES ASSUME FleetInit PROVE FleetTypeOK
  OBVIOUS
<1>1. row \in [Ids -> Row]
  BY DEF FleetInit, Absent, Row
<1>2. machine \in [Ids -> Machine] /\ agents \in [Ids -> Process]
  BY DEF FleetInit, Machine, Process
<1>3. ctl \in Controller
  BY AtTickType DEF FleetInit
<1> QED  BY <1>1, <1>2, <1>3 DEF FleetInit, FleetTypeOK

LEMMA KillType ==
  ASSUME FleetTypeOK, NEW item, item.id \in Ids, NEW known, ProviderKill(item, known)
  PROVE  machine' \in [Ids -> Machine] /\ agents' \in [Ids -> Process]
BY DEF ProviderKill, Stopped, FleetTypeOK, Machine, Process

LEMMA ControlType ==
  ASSUME FleetInv, Control, UNCHANGED setup
  PROVE  FleetTypeOK'
<1>0. FleetTypeOK /\ InHand /\ Cardinality(Live) \in Nat
  BY LiveIsFinite DEF FleetInv
<1> USE <1>0 DEF FleetTypeOK, Controller, ControllerStep, Item
<1>1. ASSUME Tick PROVE FleetTypeOK'
  <2>1. Read({w \in Live : row[w].silent}) \subseteq Item
    BY ReadType, LiveIds
  <2> QED  BY <1>1, <2>1 DEF Tick
<1>2. ASSUME StopRow PROVE FleetTypeOK'
  <2>1. PICK item \in ctl.todo : row' = KilledRow(item.id)
                              /\ ctl' = [ctl EXCEPT !.todo = @ \ {item}, !.stopping = item]
    BY <1>2 DEF StopRow
  <2>2. row' \in [Ids -> Row]
    BY <2>1 DEF KilledRow, Row
  <2> QED  BY <1>2, <2>1, <2>2 DEF StopRow
<1>3. ASSUME StopMachine PROVE FleetTypeOK'
  <2>1. ctl.stopping.id \in Ids
    BY <1>3 DEF StopMachine
  <2>2. machine' \in [Ids -> Machine] /\ agents' \in [Ids -> Process]
    BY <1>3, <2>1, KillType DEF StopMachine
  <2> QED  BY <1>3, <2>2 DEF StopMachine
<1>4. ASSUME Retired PROVE FleetTypeOK'
  <2>1. Read(Live) \subseteq Item
    BY ReadType, LiveIds
  <2>2. ctl' \in Controller
    BY ZenonT(40), <1>4, <2>1, AtTickType DEF Retired
  <2> QED  BY <1>4, <2>2 DEF Retired
<1>5. ASSUME Plan PROVE FleetTypeOK'
  <2>1. \A idle \in SUBSET Live : Read(idle) \subseteq Item
    BY ReadType, LiveIds
  <2>2. PICK want \in MinWorkers .. MaxWorkers :
          \/ want > Cardinality(Live)
             /\ \/ ctl' = [ctl EXCEPT !.pc = "launch",
                             !.left = IF want - Cardinality(Live) < LaunchPerTick
                                      THEN want - Cardinality(Live) ELSE LaunchPerTick]
                \/ ctl' = AtTick
          \/ \E idle \in SUBSET Live : ctl' = [ctl EXCEPT !.pc = "scale", !.todo = Read(idle)]
          \/ ctl' = AtTick
    BY <1>5 DEF Plan
  <2>3. CASE /\ want > Cardinality(Live)
             /\ ctl' = [ctl EXCEPT !.pc = "launch",
                          !.left = IF want - Cardinality(Live) < LaunchPerTick
                                   THEN want - Cardinality(Live) ELSE LaunchPerTick]
    <3>1. LaunchPerTick \in Nat /\ want \in Int
      BY WorkersAssumption DEF WorkersAssumption
    <3>2. ctl'.left \in Nat
      BY <2>3, <3>1
    <3> QED  BY <1>5, <2>3, <3>2 DEF Plan
  <2>4. CASE \E idle \in SUBSET Live : ctl' = [ctl EXCEPT !.pc = "scale", !.todo = Read(idle)]
    BY ZenonT(40), <1>5, <2>1, <2>4 DEF Plan
  <2>5. CASE ctl' = AtTick
    BY <1>5, <2>5, AtTickType DEF Plan
  <2> QED  BY <2>2, <2>3, <2>4, <2>5
<1>6. ASSUME Launch PROVE FleetTypeOK'
  <2>1. PICK w \in Ids : Launched(w) /\ ctl' = [ctl EXCEPT !.pc = "register", !.new = w]
    BY <1>6, UnusedIds DEF Launch
  <2>2. machine' \in [Ids -> Machine] /\ agents' \in [Ids -> Process]
    BY <2>1 DEF Launched, Machine, Process
  <2>3. procs' \subseteq Ids /\ UNCHANGED <<jobOver, row, recorded>>
    BY <1>6, <2>1 DEF Launch, Launched
  <2>4. ctl' \in Controller
    BY <2>1
  <2> QED  BY <1>6, <2>2, <2>3, <2>4 DEF Launch
<1>7. ASSUME LaunchFails PROVE FleetTypeOK'
  <2>1. CASE UNCHANGED <<machine, agents, procs>>
    BY <1>7, <2>1, AtTickType DEF LaunchFails
  <2>2. ASSUME NEW w \in Unused, Launched(w) PROVE FleetTypeOK'
    BY <1>7, <2>2, AtTickType, UnusedIds DEF LaunchFails, Launched, Machine, Process
  <2> QED  BY <1>7, <2>1, <2>2 DEF LaunchFails
<1>8. ASSUME Register PROVE FleetTypeOK'
  <2>1. ctl.new \in Ids
    BY <1>8 DEF Register, InHand
  <2>2. row' \in [Ids -> Row]
    BY <1>8, <2>1, RegisteredType DEF Register
  <2>3. ctl.left - 1 \in Nat
    BY <1>8 DEF Register, InHand
  <2>4. ctl' \in Controller
    BY <1>8, <2>3 DEF Register
  <2> QED  BY <1>8, <2>1, <2>2, <2>4 DEF Register
<1>9. ASSUME RegisterFails \/ TickOver PROVE FleetTypeOK'
  BY <1>9, AtTickType DEF RegisterFails, TickOver
<1>10. ASSUME Swept PROVE FleetTypeOK'
  BY <1>10 DEF Swept, LoopOver
<1> QED  BY <1>1, <1>2, <1>3, <1>4, <1>5, <1>6, <1>7, <1>8, <1>9, <1>10 DEF Control

LEMMA OtherType ==
  ASSUME FleetTypeOK, Interrupt \/ DbFails \/ JobEnds \/ \E w \in Ids : MachineStep(w), UNCHANGED setup
  PROVE  FleetTypeOK'
<1> USE DEF FleetTypeOK, Controller, ControllerStep
<1>1. ASSUME Interrupt \/ DbFails PROVE FleetTypeOK'
  <2>0. Escapes
    BY <1>1 DEF Interrupt, DbFails
  <2>1. Read(Live) \subseteq Item
    BY ReadType, LiveIds
  <2>2. ctl' \in Controller
    BY ZenonT(40), <2>0, <2>1, AtTickType DEF Escapes
  <2> QED  BY <2>0, <2>2 DEF Escapes
<1>2. ASSUME JobEnds PROVE FleetTypeOK'
  BY <1>2 DEF JobEnds
<1>3. ASSUME NEW w \in Ids, AgentRegisters(w) PROVE FleetTypeOK'
  <2>1. row' \in [Ids -> Row]
    BY <1>3, RegisteredType DEF AgentRegisters, AgentPrice
  <2> QED  BY <1>3, <2>1 DEF AgentRegisters, Process
<1>4. ASSUME NEW w \in Ids, AgentHeartbeats(w) PROVE FleetTypeOK'
  BY ZenonT(40), <1>4 DEF AgentHeartbeats, Row
<1>5. ASSUME NEW w \in Ids, AgentExits(w) PROVE FleetTypeOK'
  BY <1>5 DEF AgentExits, Stopped, Machine, Process
<1>6. ASSUME NEW w \in Ids, Preempted(w) PROVE FleetTypeOK'
  BY <1>6 DEF Preempted, Stopped, Machine, Process
<1>7. ASSUME NEW w \in Ids, Chaos(w) PROVE FleetTypeOK'
  BY <1>7, KillType DEF Chaos
<1>8. ASSUME NEW w \in Ids, FallsSilent(w) PROVE FleetTypeOK'
  BY ZenonT(40), <1>8 DEF FallsSilent, Row
<1> QED  BY <1>1, <1>2, <1>3, <1>4, <1>5, <1>6, <1>7, <1>8 DEF MachineStep

-----------------------------------------------------------------------------
(* The inductive invariant, conjunct by conjunct. *)

FleetStep == (Control \/ Interrupt \/ DbFails \/ JobEnds \/ \E w \in Ids : MachineStep(w)) /\ UNCHANGED setup

LEMMA TypeKept == FleetInv /\ FleetStep => FleetTypeOK'
BY ControlType, OtherType DEF FleetStep, FleetInv

\* The effect of a kill: nothing, or one machine and its process are gone.
LEMMA KillEffect ==
  ASSUME FleetTypeOK, NEW item, item.id \in Ids, NEW known, ProviderKill(item, known)
  PROVE  \/ UNCHANGED <<machine, agents>>
         \/ /\ machine[item.id] = "up"
            /\ machine' = [machine EXCEPT ![item.id] = "gone"]
            /\ agents' = [agents EXCEPT ![item.id] = "off"]
BY DEF ProviderKill, Stopped

LEMMA StoppingId == FleetTypeOK /\ ctl.stopping # NoItem => ctl.stopping.id \in Ids
BY DEF FleetTypeOK, Controller, Item

\* A machine that is there, or was, stays one that was: only a launch makes one.
LEMMA EverGrows ==
  ASSUME FleetInv, FleetStep
  PROVE  \/ Ever' = Ever
         \/ /\ ctl.pc = "launch"
            /\ \E w \in Unused : Launched(w) /\ Ever' = Ever \cup {w}
<1> USE DEF FleetInv, FleetTypeOK
<1>1. ASSUME UNCHANGED machine PROVE Ever' = Ever
  BY <1>1 DEF Ever
<1>2. ASSUME NEW w \in Ids, machine[w] # "none", machine' = [machine EXCEPT ![w] = "gone"]
      PROVE  Ever' = Ever
  BY <1>2 DEF Ever
<1>3. ASSUME NEW w \in Unused, Launched(w) PROVE Ever' = Ever \cup {w}
  BY <1>3, UnusedIds DEF Ever, Launched
<1>4. CASE StopMachine
  <2>1. ctl.stopping.id \in Ids /\ machine[ctl.stopping.id] # "none"
    BY <1>4, StoppingId DEF StopMachine, LaunchedBeforeListed
  <2> QED  BY <1>1, <1>2, <1>4, <2>1, KillEffect DEF StopMachine
<1>5. CASE Tick \/ StopRow \/ Retired \/ Plan \/ Register \/ RegisterFails \/ TickOver \/ Swept
           \/ Interrupt \/ DbFails \/ JobEnds
  BY <1>1, <1>5 DEF Tick, StopRow, Retired, Plan, Register, RegisterFails, TickOver, Swept,
                    Interrupt, DbFails, Escapes, JobEnds
<1>6. CASE Launch
  BY <1>3, <1>6 DEF Launch
<1>7. CASE LaunchFails
  BY <1>1, <1>3, <1>7 DEF LaunchFails
<1>8. ASSUME NEW w \in Ids, MachineStep(w) PROVE Ever' = Ever
  <2>1. CASE AgentRegisters(w) \/ AgentHeartbeats(w) \/ FallsSilent(w)
    BY <1>1, <2>1 DEF AgentRegisters, AgentHeartbeats, FallsSilent
  <2>2. CASE AgentExits(w)
    <3>1. machine[w] = "up"
      BY <2>2 DEF AgentExits, LaunchedBeforeListed
    <3> QED  BY <1>1, <1>2, <2>2, <3>1 DEF AgentExits, Stopped
  <2>3. CASE Preempted(w)
    BY <1>2, <2>3 DEF Preempted, Stopped
  <2>4. CASE Chaos(w)
    BY <1>1, <1>2, <2>4, KillEffect DEF Chaos
  <2> QED  BY <1>8, <2>1, <2>2, <2>3, <2>4 DEF MachineStep
<1> QED  BY <1>4, <1>5, <1>6, <1>7, <1>8 DEF FleetStep, Control

LEMMA EverStaysFinite == FleetInv /\ FleetStep => IsFiniteSet(Ever')
BY EverGrows, FS_AddElement DEF FleetInv

\* What a step may do to the state of a row: nothing, insert it, note that the
\* worker runs, or give the worker up.
LEMMA RowEffect ==
  ASSUME FleetInv, FleetStep, NEW x \in Ids
  PROVE  \/ row'[x].state = row[x].state
         \/ /\ x \in Ever /\ row[x].state = "absent" /\ row'[x].state = "starting"
            /\ machine[x] = "up" \/ x = ctl.new
            /\ Register => x = ctl.new
         \/ x \in Live /\ row'[x].state = "running" /\ ~Register
         \/ /\ StopRow /\ row'[x].state = "dead" /\ ctl'.stopping.id = x
            /\ \E item \in ctl.todo : item.id = x /\ ctl'.todo = ctl.todo \ {item}
<1> USE DEF FleetInv, FleetTypeOK, Row, Ever
<1>1. CASE Register
  <2>1. ctl.new \in Ids /\ machine[ctl.new] # "none" /\ ctl.pc = "register"
    BY <1>1 DEF Register, InHand, Controller
  <2> QED  BY ZenonT(40), <1>1, <2>1, RegisteredState DEF Register
<1>2. CASE StopRow
  <2>1. PICK item \in ctl.todo : row' = KilledRow(item.id)
                              /\ ctl' = [ctl EXCEPT !.todo = @ \ {item}, !.stopping = item]
    BY <1>2 DEF StopRow
  <2>2. item.id \in Ids
    BY <2>1 DEF Controller, Item
  <2>3. ctl'.todo = ctl.todo \ {item} /\ ctl'.stopping = item
    BY <2>1 DEF Controller
  <2> QED  BY <1>2, <2>1, <2>2, <2>3 DEF KilledRow
<1>3. CASE row' = row
  BY <1>3
<1>4. ASSUME NEW w \in Ids, AgentRegisters(w), row' # row
      PROVE  \/ row'[x].state = row[x].state
             \/ machine[x] = "up" /\ row[x].state = "absent" /\ row'[x].state = "starting"
  <2>1. machine[w] = "up" /\ row' = Registered(w, FALSE, AgentPrice)
    BY <1>4 DEF AgentRegisters, LaunchedBeforeListed
  <2>2. AgentPrice \in {"zero", "charged"}
    BY DEF AgentPrice
  <2>3. \A p \in {"zero", "charged"} :
          Registered(w, FALSE, p)[x].state =
            IF x = w /\ row[w].state = "absent" THEN "starting" ELSE row[x].state
    BY RegisteredState
  <2> QED  BY <2>1, <2>2, <2>3
<1>5. ASSUME NEW w \in Ids, AgentHeartbeats(w) \/ FallsSilent(w)
      PROVE  \/ row'[x].state = row[x].state
             \/ x \in Live /\ row'[x].state = "running"
  BY <1>5 DEF AgentHeartbeats, FallsSilent, Live
<1>6. Register => ctl.pc = "register" /\ ctl'.pc = "launch"
  BY DEF Register, Controller
<1>7. ASSUME NEW w \in Ids, MachineStep(w) PROVE ctl' = ctl
  BY <1>7 DEF MachineStep, AgentRegisters, AgentHeartbeats, AgentExits, Preempted, Chaos, FallsSilent
<1>8. ASSUME NEW w \in Ids, MachineStep(w), row' # row
      PROVE  AgentRegisters(w) \/ AgentHeartbeats(w) \/ FallsSilent(w)
  BY <1>8 DEF MachineStep, AgentExits, Preempted, Chaos
<1>9. ASSUME NEW w \in Ids, MachineStep(w)
      PROVE  ~Register
  BY <1>6, <1>7, <1>9
<1>10. \/ Register \/ StopRow \/ row' = row
       \/ \E w \in Ids : MachineStep(w)
  BY DEF FleetStep, Control, Tick, StopMachine, Retired, Plan, Launch, LaunchFails, RegisterFails,
         TickOver, Swept, Interrupt, DbFails, Escapes, JobEnds
<1> QED  BY <1>1, <1>2, <1>3, <1>4, <1>5, <1>8, <1>9, <1>10

\* Only StopRow and the reads of the table give the controller rows to stop.
LEMMA TodoEffect ==
  ASSUME FleetInv, FleetStep
  PROVE  /\ \A item \in ctl'.todo : item \in ctl.todo \/ item.id \in Live
         /\ ctl'.stopping = ctl.stopping \/ ctl'.stopping = NoItem
              \/ (StopRow /\ ctl'.stopping \in ctl.todo)
<1> USE DEF FleetInv, FleetTypeOK, Controller
<1>0. \A ids \in SUBSET Live : \A item \in Read(ids) : item.id \in Live
  BY ReadType, LiveIds
<1>1. AtTick.todo = {} /\ AtTick.stopping = NoItem
  BY DEF AtTick
<1>2. CASE Tick
  BY <1>0, <1>2 DEF Tick
<1>3. CASE StopRow
  BY <1>3 DEF StopRow
<1>4. CASE StopMachine
  BY <1>4 DEF StopMachine
<1>5. CASE Retired \/ Interrupt \/ DbFails
  <2>1. \A todo \in SUBSET Item :
          /\ [AtTick EXCEPT !.pc = "sweep", !.todo = todo].todo = todo
          /\ [AtTick EXCEPT !.pc = "sweep", !.todo = todo].stopping = NoItem
          /\ [AtTick EXCEPT !.pc = "escaped"].todo = {}
          /\ [AtTick EXCEPT !.pc = "escaped"].stopping = NoItem
          /\ [AtTick EXCEPT !.pc = "plan"].todo = {}
          /\ [AtTick EXCEPT !.pc = "plan"].stopping = NoItem
    BY DEF AtTick
  <2>2. Read(Live) \subseteq Item
    BY ReadType, LiveIds
  <2>3. ctl'.stopping = NoItem /\ (ctl'.todo = {} \/ ctl'.todo = Read(Live))
    BY <1>5, <2>1, <2>2 DEF Retired, Interrupt, DbFails, Escapes
  <2> QED  BY <1>0, <2>3
<1>6. CASE Plan
  <2>1. \/ ctl' = AtTick
        \/ ctl'.todo = ctl.todo /\ ctl'.stopping = ctl.stopping
        \/ \E idle \in SUBSET Live : ctl'.todo = Read(idle) /\ ctl'.stopping = ctl.stopping
    BY <1>6 DEF Plan
  <2> QED  BY <1>0, <1>1, <2>1
<1>7. CASE Launch \/ LaunchFails \/ Register \/ RegisterFails \/ TickOver \/ Swept
  BY <1>1, <1>7 DEF Launch, LaunchFails, Register, RegisterFails, TickOver, Swept
<1>8. CASE JobEnds \/ \E w \in Ids : MachineStep(w)
  BY <1>8 DEF JobEnds, MachineStep, AgentRegisters, AgentHeartbeats, AgentExits, Preempted, Chaos,
              FallsSilent
<1> QED  BY <1>2, <1>3, <1>4, <1>5, <1>6, <1>7, <1>8 DEF FleetStep, Control

LEMMA ListedKept == FleetInv /\ FleetStep => LaunchedBeforeListed'
<1> SUFFICES ASSUME FleetInv, FleetStep PROVE LaunchedBeforeListed'
  OBVIOUS
<1> USE DEF FleetInv, FleetTypeOK
<1>0. Ever \subseteq Ever'
  BY EverGrows
<1>1. ASSUME NEW w \in Ids, agents'[w] # "off" PROVE machine'[w] = "up"
  <2>1. CASE UNCHANGED <<machine, agents>>
    BY <1>1, <2>1 DEF LaunchedBeforeListed
  <2>2. ASSUME NEW x \in Ids, machine' = [machine EXCEPT ![x] = "gone"],
               agents' = [agents EXCEPT ![x] = "off"]
        PROVE  machine'[w] = "up"
    BY <1>1, <2>2 DEF LaunchedBeforeListed
  <2>3. ASSUME NEW x \in Unused, Launched(x) PROVE machine'[w] = "up"
    BY <1>1, <2>3, UnusedIds DEF LaunchedBeforeListed, Launched
  <2>4. CASE Tick \/ StopRow \/ Retired \/ Plan \/ Register \/ RegisterFails \/ TickOver \/ Swept
             \/ Interrupt \/ DbFails \/ JobEnds
    BY <2>1, <2>4 DEF Tick, StopRow, Retired, Plan, Register, RegisterFails, TickOver, Swept,
                      Interrupt, DbFails, Escapes, JobEnds
  <2>5. CASE StopMachine
    BY <2>1, <2>2, <2>5, StoppingId, KillEffect DEF StopMachine
  <2>6. CASE Launch \/ LaunchFails
    BY <2>1, <2>3, <2>6 DEF Launch, LaunchFails
  <2>7. ASSUME NEW x \in Ids, MachineStep(x) PROVE machine'[w] = "up"
    <3>1. CASE AgentRegisters(x)
      BY <1>1, <3>1 DEF AgentRegisters, LaunchedBeforeListed
    <3>2. CASE AgentHeartbeats(x) \/ FallsSilent(x)
      BY <2>1, <3>2 DEF AgentHeartbeats, FallsSilent
    <3>3. CASE AgentExits(x)
      BY <1>1, <2>2, <3>3 DEF AgentExits, Stopped, LaunchedBeforeListed
    <3>4. CASE Preempted(x)
      BY <2>2, <3>4 DEF Preempted, Stopped
    <3>5. CASE Chaos(x)
      BY <2>1, <2>2, <3>5, KillEffect DEF Chaos
    <3> QED  BY <2>7, <3>1, <3>2, <3>3, <3>4, <3>5 DEF MachineStep
  <2> QED  BY <2>4, <2>5, <2>6, <2>7 DEF FleetStep, Control
<1>2. ASSUME NEW w \in Ids, machine'[w] = "none" PROVE row'[w].state = "absent"
  <2>1. w \notin Ever /\ row[w].state = "absent"
    BY <1>0, <1>2 DEF Ever, LaunchedBeforeListed
  <2>2. \A item \in ctl.todo : item.id # w
    BY <2>1 DEF Ever, LaunchedBeforeListed
  <2> QED  BY <2>1, <2>2, RowEffect DEF Live
<1>3. ASSUME NEW item \in ctl'.todo PROVE machine'[item.id] # "none"
  <2>1. item.id \in Ids
    BY <1>3, TypeKept DEF Controller, Item
  <2>2. item.id \in Ever
    BY <1>3, <2>1, TodoEffect DEF LaunchedBeforeListed, Live, Ever
  <2> QED  BY <1>0, <2>2 DEF Ever
<1>4. ASSUME ctl'.stopping # NoItem PROVE machine'[ctl'.stopping.id] # "none"
  <2>1. ctl'.stopping.id \in Ids
    BY <1>4, TypeKept DEF Controller, Item
  <2>2. ctl'.stopping.id \in Ever
    BY <1>4, <2>1, TodoEffect DEF LaunchedBeforeListed, Ever
  <2> QED  BY <1>0, <2>2 DEF Ever
<1> QED  BY <1>1, <1>2, <1>3, <1>4 DEF LaunchedBeforeListed

\* A machine's step leaves the controller alone.
LEMMA MachinesApart ==
  ASSUME NEW w \in Ids, MachineStep(w)
  PROVE  UNCHANGED <<ctl, recorded, procs, jobOver>>
BY DEF MachineStep, AgentRegisters, AgentHeartbeats, AgentExits, Preempted, Chaos, FallsSilent

\* Where a step leads: a sweep begins with the live rows, and only a sweep that
\* is over ends the run.
LEMMA Places ==
  ASSUME FleetInv, FleetStep
  PROVE  /\ Retired \/ Interrupt \/ DbFails =>
              /\ ctl'.new = NoId /\ ctl'.stopping = NoItem
              /\ \/ ctl'.pc = "plan" \/ (ctl'.pc = "sweep" /\ ctl'.todo = Read(Live))
                 \/ ctl'.pc = "escaped" /\ SweepMayEscape
         /\ ctl'.pc = "sweep" => ctl.pc = "sweep" \/ Retired \/ Interrupt \/ DbFails
         /\ ctl'.pc = "ended" => ctl.pc = "ended" \/ Swept
         /\ ctl'.pc = "escaped" => ctl.pc = "escaped" \/ SweepMayEscape
         /\ ctl'.pc \in {"launch", "register"} =>
              \/ Plan \/ Launch \/ Register
              \/ ctl'.pc = ctl.pc /\ ctl'.new = ctl.new /\ ctl'.left = ctl.left
<1> USE DEF FleetInv, FleetTypeOK, Controller
<1>0. Read(Live) \subseteq Item
  BY ReadType, LiveIds
<1>1. ASSUME ctl' = [AtTick EXCEPT !.pc = "sweep", !.todo = Read(Live)]
      PROVE  /\ ctl'.new = NoId /\ ctl'.stopping = NoItem
             /\ ctl'.pc = "sweep" /\ ctl'.todo = Read(Live)
  BY <1>1 DEF AtTick
<1>2. /\ [AtTick EXCEPT !.pc = "plan"].pc = "plan"
      /\ [AtTick EXCEPT !.pc = "plan"].new = NoId
      /\ [AtTick EXCEPT !.pc = "plan"].stopping = NoItem
      /\ [AtTick EXCEPT !.pc = "escaped"].pc = "escaped"
      /\ [AtTick EXCEPT !.pc = "escaped"].new = NoId
      /\ [AtTick EXCEPT !.pc = "escaped"].stopping = NoItem
  BY DEF AtTick
<1>9. AtTick.pc = "tick"
  BY DEF AtTick
<1>3. /\ Retired =>
           /\ ctl'.new = NoId /\ ctl'.stopping = NoItem
           /\ ctl'.pc = "plan" \/ (ctl'.pc = "sweep" /\ ctl'.todo = Read(Live))
      /\ Interrupt \/ DbFails =>
           /\ ctl'.new = NoId /\ ctl'.stopping = NoItem
           /\ \/ ctl'.pc = "sweep" /\ ctl'.todo = Read(Live)
              \/ ctl'.pc = "escaped" /\ ctl.pc = "sweep" /\ SweepMayEscape
  <2>1. Retired =>
           /\ ctl'.new = NoId /\ ctl'.stopping = NoItem
           /\ ctl'.pc = "plan" \/ (ctl'.pc = "sweep" /\ ctl'.todo = Read(Live))
    BY <1>1, <1>2 DEF Retired
  <2>2. Interrupt \/ DbFails => Escapes /\ (ctl.pc = "sweep" => SweepMayEscape)
    BY DEF Interrupt, DbFails, SweepMayEscape
  <2> QED  BY <1>1, <1>2, <2>1, <2>2 DEF Escapes
<1>4. ASSUME StopRow \/ StopMachine \/ JobEnds \/ \E w \in Ids : MachineStep(w)
      PROVE  ctl'.pc = ctl.pc /\ ctl'.new = ctl.new /\ ctl'.left = ctl.left
  BY <1>4, MachinesApart DEF StopRow, StopMachine, JobEnds
<1>8. ASSUME Launch \/ Register
      PROVE  ctl'.pc \in {"register", "launch"}
  BY <1>8 DEF Launch, Register
<1>5. ASSUME Tick \/ LaunchFails \/ RegisterFails \/ TickOver
      PROVE  ctl'.pc \in {"retire", "tick"}
  <2>1. CASE Tick
    BY <2>1 DEF Tick
  <2>2. CASE LaunchFails \/ RegisterFails \/ TickOver
    <3>1. ctl' = AtTick
      BY <2>2 DEF LaunchFails, RegisterFails, TickOver
    <3> QED  BY <3>1 DEF AtTick
  <2> QED  BY <1>5, <2>1, <2>2
<1>6. ASSUME Plan PROVE ctl'.pc \in {"launch", "scale", "tick"}
  <2>1. AtTick.pc = "tick"
    BY DEF AtTick
  <2>2. ctl' = AtTick \/ ctl'.pc \in {"launch", "scale"}
    BY <1>6 DEF Plan
  <2> QED  BY <2>1, <2>2
<1>7. Swept => ctl'.pc = "ended"
  BY DEF Swept
<1> QED  BY <1>3, <1>4, <1>5, <1>6, <1>7, <1>8 DEF FleetStep, Control

LEMMA InHandKept == FleetInv /\ FleetStep => InHand'
<1> SUFFICES ASSUME FleetInv, FleetStep PROVE InHand'
  OBVIOUS
<1> USE DEF FleetInv, FleetTypeOK, Controller
<1>0. AtTick.pc = "tick" /\ AtTick.new = NoId /\ AtTick.stopping = NoItem
  BY DEF AtTick
<1>1. CASE Tick \/ StopRow \/ StopMachine
  BY <1>1 DEF Tick, StopRow, StopMachine, InHand
<1>2. CASE Retired \/ Interrupt \/ DbFails
  BY <1>2, Places DEF InHand
<1>3. CASE Plan
  <2>1. \/ ctl' = AtTick
        \/ /\ ctl'.pc \in {"launch", "scale"}
           /\ ctl'.new = ctl.new /\ ctl'.stopping = ctl.stopping
    BY <1>3 DEF Plan
  <2> QED  BY <1>0, <1>3, <2>1 DEF Plan, InHand
<1>4. CASE Launch
  <2>1. PICK w \in Unused : Launched(w) /\ ctl' = [ctl EXCEPT !.pc = "register", !.new = w]
    BY <1>4 DEF Launch
  <2>2. w \in Ids /\ machine[w] = "none"
    BY <2>1, UnusedIds DEF Unused
  <2>3. ctl'.new = w /\ ctl'.pc = "register" /\ ctl'.left = ctl.left /\ ctl'.stopping = ctl.stopping
    BY <2>1
  <2>4. machine'[w] = "up" /\ row'[w].state = "absent" /\ w # NoId /\ ctl.stopping = NoItem
    BY <1>4, <2>1, <2>2, IdAssumption DEF Launch, Launched, LaunchedBeforeListed, InHand
  <2> QED  BY <1>4, <2>3, <2>4 DEF Launch, InHand
<1>5. CASE LaunchFails \/ RegisterFails \/ TickOver
  BY <1>0, <1>5 DEF LaunchFails, RegisterFails, TickOver, InHand
<1>6. CASE Register
  BY <1>6 DEF Register, InHand
<1>7. CASE Swept
  BY <1>7 DEF Swept, LoopOver, InHand
<1>8. CASE JobEnds
  BY <1>8 DEF JobEnds, InHand
<1>9. ASSUME NEW w \in Ids, MachineStep(w) PROVE InHand'
  <2>1. ctl' = ctl
    BY <1>9, MachinesApart
  <2>2. ASSUME ctl.pc = "register"
        PROVE  machine'[ctl.new] # "none" /\ row'[ctl.new].state # "dead"
    <3>1. ctl.new \in Ids /\ ctl.new \in Ever
      BY <2>2 DEF InHand, Ever
    <3>2. ctl.new \in Ever'
      BY <3>1, EverGrows
    <3>3. row'[ctl.new].state # "dead"
      BY <2>1, <2>2, <3>1, RowEffect DEF InHand, StopRow
    <3> QED  BY <3>2, <3>3 DEF Ever
  <2> QED  BY <2>1, <2>2 DEF InHand
<1> QED  BY <1>1, <1>2, <1>3, <1>4, <1>5, <1>6, <1>7, <1>8, <1>9 DEF FleetStep, Control

LEMMA SweepKept == FleetInv /\ FleetStep => SweepsTheRecorded'
<1> SUFFICES ASSUME FleetInv, FleetStep PROVE SweepsTheRecorded'
  OBVIOUS
<1> USE DEF FleetInv, FleetTypeOK, Controller
<1>1. recorded' = recorded \/ (Register /\ recorded' = recorded \cup {ctl.new})
  BY MachinesApart DEF FleetStep, Control, Tick, StopRow, StopMachine, Retired, Plan, Launch,
     LaunchFails, Register, RegisterFails, TickOver, Swept, Interrupt, DbFails, Escapes, JobEnds
<1>2. ASSUME NEW w \in recorded' PROVE row'[w].state # "absent"
  <2>1. CASE w \in recorded
    BY <2>1, RowEffect DEF SweepsTheRecorded
  <2>2. CASE Register /\ w = ctl.new
    BY ZenonT(40), <2>2, RegisteredState DEF Register, InHand
  <2> QED  BY <1>1, <1>2, <2>1, <2>2
<1>3. ASSUME NEW w \in recorded, w \in Live' PROVE w \in Live
  <2>1. row[w].state # "absent" /\ row'[w].state \in {"starting", "running"}
    BY <1>3 DEF Live, SweepsTheRecorded
  <2> QED  BY <2>1, RowEffect DEF Live
<1>4. ASSUME ctl'.pc = "sweep", NEW w \in recorded' \cap Live'
      PROVE  \E item \in ctl'.todo : item.id = w
  <2>1. w \in recorded /\ w \in Live
    BY <1>1, <1>3, <1>4 DEF Register
  <2>2. CASE ctl.pc # "sweep"
    <3>1. Retired \/ Interrupt \/ DbFails
      BY <1>4, <2>2, Places
    <3>2. ctl'.todo = Read(Live)
      BY <1>4, <3>1, Places
    <3> QED  BY <2>1, <3>2, ReadType, LiveIds
  <2>3. CASE ctl.pc = "sweep" /\ ~StopRow
    <3>1. ~Interrupt /\ ~DbFails
      BY <1>4, <2>3 DEF Interrupt, DbFails, Escapes, AtTick
    <3>2. ctl'.todo = ctl.todo
      BY <1>4, <2>3, <3>1, MachinesApart DEF FleetStep, Control, Tick, StopMachine, Retired, Plan,
         Launch, LaunchFails, Register, RegisterFails, TickOver, Swept, JobEnds, LoopOver
    <3> QED  BY <2>1, <2>3, <3>2 DEF SweepsTheRecorded
  <2>4. CASE ctl.pc = "sweep" /\ StopRow
    <3>1. PICK item \in ctl.todo : row' = KilledRow(item.id)
                                /\ ctl' = [ctl EXCEPT !.todo = @ \ {item}, !.stopping = item]
      BY <2>4 DEF StopRow
    <3>2. item.id \in Ids /\ ctl'.todo = ctl.todo \ {item}
      BY <3>1 DEF Item
    <3>3. w # item.id
      BY <1>4, <3>1, <3>2 DEF KilledRow, Live, Row
    <3>4. PICK other \in ctl.todo : other.id = w
      BY <2>1, <2>4 DEF SweepsTheRecorded
    <3> QED  BY <3>2, <3>3, <3>4
  <2> QED  BY <2>2, <2>3, <2>4
<1>5. ASSUME ctl'.pc = "ended" PROVE recorded' \cap Live' = {}
  <2>1. ~Register
    BY <1>5 DEF Register
  <2>2. CASE ctl.pc = "ended"
    BY <1>1, <1>3, <2>1, <2>2 DEF SweepsTheRecorded
  <2>3. CASE ctl.pc # "ended"
    <3>1. Swept
      BY <1>5, <2>3, Places
    <3>2. recorded \cap Live = {}
      BY <3>1 DEF Swept, LoopOver, SweepsTheRecorded
    <3> QED  BY <1>1, <1>3, <2>1, <3>2
  <2> QED  BY <2>2, <2>3
<1> QED  BY <1>2, <1>4, <1>5 DEF SweepsTheRecorded

LEMMA FleetInitInv == FleetInit => FleetInv
<1> SUFFICES ASSUME FleetInit PROVE FleetInv
  OBVIOUS
<1>1. FleetTypeOK
  BY FleetInitType
<1>2. Ever = {}
  BY DEF FleetInit, Ever
<1>3. ctl.pc = "tick" /\ ctl.new = NoId /\ ctl.stopping = NoItem /\ ctl.todo = {}
  BY DEF FleetInit, AtTick
<1>4. \A w \in Ids : row[w].state = "absent" /\ machine[w] = "none" /\ agents[w] = "off"
  BY DEF FleetInit, Absent
<1>5. LaunchedBeforeListed
  BY <1>3, <1>4 DEF LaunchedBeforeListed
<1>6. InHand
  BY <1>3 DEF InHand
<1>7. SweepsTheRecorded
  BY <1>3 DEF SweepsTheRecorded, FleetInit
<1> QED  BY <1>1, <1>2, <1>5, <1>6, <1>7, FS_EmptySet DEF FleetInv

LEMMA FleetStepIs == FleetNext <=> FleetStep
BY DEF FleetNext, FleetStep

LEMMA FleetNextInv == FleetInv /\ [FleetNext]_fleetVars => FleetInv'
<1> SUFFICES ASSUME FleetInv, [FleetNext]_fleetVars PROVE FleetInv'
  OBVIOUS
<1>1. CASE FleetStep
  BY <1>1, TypeKept, EverStaysFinite, ListedKept, InHandKept, SweepKept DEF FleetInv
<1>2. CASE UNCHANGED fleetVars
  BY <1>2 DEF fleetVars, fleet, FleetInv, FleetTypeOK, Ever, LaunchedBeforeListed, InHand,
     SweepsTheRecorded, Live
<1> QED  BY <1>1, <1>2, FleetStepIs

LEMMA FleetInvariant == FleetSpec => []FleetInv
BY FleetInitInv, FleetNextInv, PTL DEF FleetSpec

-----------------------------------------------------------------------------
(* What the local provider adds, when nothing fails. *)

\* A machine that is up is a subprocess of this run, and it is in the table as
\* live or in the controller's hands.
UpIsKnown ==
  \A w \in Up : w \in procs /\ (w \in Live \/ w = ctl.new \/ w = ctl.stopping.id)

\* What is live, up or about to be registered, with what the tick will still
\* launch, is within the maximum.
Counted == Live \cup Up \cup ({ctl.new} \ {NoId})
StillToLaunch ==
  IF ctl.pc = "launch" THEN ctl.left ELSE IF ctl.pc = "register" THEN ctl.left - 1 ELSE 0
RoomLeft == Cardinality(Counted) + StillToLaunch <= MaxWorkers

\* The sweep stops what is up.
SweepsWhatIsUp ==
  /\ ctl.pc = "sweep" =>
       \A w \in Up : (\E item \in ctl.todo : item.id = w) \/ w = ctl.stopping.id
  /\ ctl.pc = "ended" => Up = {}

LocalInv == Undisturbed => UpIsKnown /\ RoomLeft /\ SweepsWhatIsUp

\* Only a launch brings a machine up, into the hands of the controller.
LEMMA UpEffect ==
  ASSUME FleetInv, FleetStep, Undisturbed, NEW w \in Up'
  PROVE  \/ w \in Up
         \/ Launch /\ ctl'.new = w /\ w \in procs' /\ ctl'.pc = "register"
<1> USE DEF FleetInv, FleetTypeOK, Up
<1>1. CASE Launch
  <2>1. PICK x \in Unused : Launched(x) /\ ctl' = [ctl EXCEPT !.pc = "register", !.new = x]
    BY <1>1 DEF Launch
  <2>2. ctl'.new = x /\ ctl'.pc = "register"
    BY <2>1 DEF Controller
  <2>3. x \in procs' /\ machine' = [machine EXCEPT ![x] = "up"]
    BY <2>1 DEF Launched, Undisturbed
  <2> QED  BY <1>1, <2>2, <2>3
<1>2. CASE machine' = machine
  BY <1>2
<1>3. ASSUME NEW x \in Ids, machine' = [machine EXCEPT ![x] = "gone"] PROVE w \in Up
  BY <1>3
<1>4. CASE Tick \/ StopRow \/ Retired \/ Plan \/ Register \/ RegisterFails \/ TickOver \/ Swept
           \/ Interrupt \/ DbFails \/ JobEnds
  BY <1>2, <1>4 DEF Tick, StopRow, Retired, Plan, Register, RegisterFails, TickOver, Swept,
                    Interrupt, DbFails, Escapes, JobEnds
<1>5. CASE StopMachine
  BY <1>2, <1>3, <1>5, StoppingId, KillEffect DEF StopMachine
<1>6. ~LaunchFails
  BY DEF LaunchFails, Undisturbed
<1>7. ASSUME NEW x \in Ids, MachineStep(x) PROVE w \in Up
  <2>1. CASE AgentRegisters(x) \/ AgentHeartbeats(x) \/ FallsSilent(x)
    BY <1>2, <2>1 DEF AgentRegisters, AgentHeartbeats, FallsSilent
  <2>2. CASE AgentExits(x) \/ Preempted(x)
    BY <1>2, <1>3, <2>2 DEF AgentExits, Preempted, Stopped
  <2>3. CASE Chaos(x)
    BY <1>2, <1>3, <2>3, KillEffect DEF Chaos
  <2> QED  BY <1>7, <2>1, <2>2, <2>3 DEF MachineStep
<1> QED  BY <1>1, <1>4, <1>5, <1>6, <1>7 DEF FleetStep, Control

\* What the controller has in hand it keeps until it has dealt with it.
LEMMA HandsKeep ==
  ASSUME FleetInv, FleetStep, Undisturbed
  PROVE  /\ ctl.stopping # NoItem => ctl'.stopping = ctl.stopping \/ StopMachine
         /\ ctl.new # NoId => ctl'.new = ctl.new \/ Register
         /\ StopMachine => ctl'.new = ctl.new
<1> USE DEF FleetInv, FleetTypeOK, Controller
<1>1. \/ ctl'.stopping = ctl.stopping /\ ctl'.new = ctl.new
      \/ ctl.stopping = NoItem /\ ctl.pc # "register"
      \/ StopMachine \/ Register
  <2>1. CASE Tick \/ Plan \/ Launch \/ TickOver \/ Swept \/ Retired \/ StopRow
    BY <2>1 DEF Tick, Plan, Launch, TickOver, Swept, Retired, StopRow, LoopOver, InHand
  <2>2. CASE JobEnds \/ \E w \in Ids : MachineStep(w)
    BY <2>2, MachinesApart DEF JobEnds
  <2>3. CASE Interrupt
    BY <2>3 DEF Interrupt, Undisturbed, NoFaults, InHand
  <2>4. ~LaunchFails /\ ~RegisterFails /\ ~DbFails
    BY DEF LaunchFails, RegisterFails, DbFails, Undisturbed, NoFaults
  <2> QED  BY <2>1, <2>2, <2>3, <2>4 DEF FleetStep, Control
<1>2. StopMachine => ctl'.new = ctl.new
  BY DEF StopMachine
<1>3. Register => ctl'.stopping = ctl.stopping
  BY DEF Register
<1> QED  BY <1>1, <1>2, <1>3 DEF InHand

\* Stopping a subprocess of this run stops its machine.
LEMMA StopStops ==
  ASSUME FleetInv, UpIsKnown, Undisturbed, StopMachine
  PROVE  /\ ctl.stopping.id \in Ids /\ machine'[ctl.stopping.id] # "up"
         /\ procs' = procs \ {ctl.stopping.id}
<1>1. ctl.stopping.id \in Ids
  BY StoppingId DEF StopMachine, FleetInv
<1>2. CASE machine[ctl.stopping.id] = "up"
  <2>1. Reached(ctl.stopping, procs)
    BY <1>1, <1>2 DEF Reached, UpIsKnown, Up, Undisturbed
  <2> QED  BY <1>1, <1>2, <2>1 DEF StopMachine, ProviderKill, Stopped, Undisturbed, NoFaults,
                                   FleetInv, FleetTypeOK
<1>3. CASE machine[ctl.stopping.id] # "up"
  BY <1>1, <1>3, KillEffect DEF StopMachine, FleetInv
<1> QED  BY <1>1, <1>2, <1>3 DEF StopMachine

LEMMA UpIsKnownKept ==
  ASSUME FleetInv, FleetStep, Undisturbed, UpIsKnown
  PROVE  UpIsKnown'
<1> SUFFICES ASSUME NEW w \in Up'
             PROVE  w \in procs' /\ (w \in Live' \/ w = ctl'.new \/ w = ctl'.stopping.id)
  BY DEF UpIsKnown
<1>0. w \in Ids /\ machine'[w] = "up"
  BY DEF Up
<1>1. CASE Launch /\ ctl'.new = w /\ w \in procs'
  BY <1>1
<1>2. CASE w \in Up
  <2>1. w \in procs /\ (w \in Live \/ w = ctl.new \/ w = ctl.stopping.id)
    BY <1>2 DEF UpIsKnown
  <2>2. StopMachine => w # ctl.stopping.id
    BY <1>0, StopStops
  <2>3. w \in procs'
    <3>1. procs \subseteq procs' \/ StopMachine
      BY MachinesApart DEF FleetStep, Control, Tick, StopRow, Retired, Plan, Launch, LaunchFails,
         Launched, Register, RegisterFails, TickOver, Swept, Interrupt, DbFails, Escapes, JobEnds
    <3> QED  BY <2>1, <2>2, <3>1, StopStops
  <2>4. CASE w \in Live
    <3>1. row[w].state \in {"starting", "running"}
      BY <2>4 DEF Live
    <3> QED  BY <1>0, <2>3, <3>1, RowEffect DEF Live
  <2>5. CASE w = ctl.new
    <3>1. ctl.new # NoId /\ ctl.pc = "register" /\ row[w].state # "dead"
      BY <1>0, <2>5, IdAssumption DEF FleetInv, InHand
    <3>2. CASE Register
      <4>1. row'[w].state = IF row[w].state = "absent" THEN "starting" ELSE row[w].state
        BY <1>0, <2>5, <3>2, RegisteredState DEF Register, FleetInv
      <4>2. row[w].state \in {"absent", "starting", "running", "dead"}
        BY <1>0 DEF FleetInv, FleetTypeOK, Row
      <4> QED  BY <1>0, <2>3, <3>1, <4>1, <4>2 DEF Live
    <3> QED  BY <2>3, <2>5, <3>1, <3>2, HandsKeep
  <2>6. CASE w = ctl.stopping.id
    <3>1. ctl.stopping # NoItem
      BY <1>0, <2>6, IdAssumption DEF NoItem
    <3> QED  BY <2>2, <2>3, <2>6, <3>1, HandsKeep
  <2> QED  BY <2>1, <2>4, <2>5, <2>6
<1> QED  BY <1>1, <1>2, UpEffect

LEMMA SweepsUpKept ==
  ASSUME FleetInv, FleetStep, Undisturbed, UpIsKnown, SweepsWhatIsUp
  PROVE  SweepsWhatIsUp'
<1>1. ASSUME ctl'.pc = "sweep", NEW w \in Up'
      PROVE  (\E item \in ctl'.todo : item.id = w) \/ w = ctl'.stopping.id
  <2>0. w \in Ids /\ w \in Up /\ machine'[w] = "up"
    BY <1>1, UpEffect DEF Up
  <2>1. CASE ctl.pc # "sweep"
    <3>1. Retired \/ Interrupt \/ DbFails
      BY <1>1, <2>1, Places
    <3>2. ctl'.todo = Read(Live)
      BY <1>1, <3>1, Places
    <3>3. ctl.stopping = NoItem /\ ctl.new = NoId
      BY <3>1 DEF Retired, LoopOver, Interrupt, DbFails, Undisturbed, NoFaults, InHand, FleetInv
    <3>4. w \in Live
      BY <2>0, <3>3, IdAssumption DEF UpIsKnown, NoItem
    <3> QED  BY <3>2, <3>4, ReadType, LiveIds DEF FleetInv
  <2>2. CASE ctl.pc = "sweep" /\ StopRow
    <3>1. PICK item \in ctl.todo : ctl' = [ctl EXCEPT !.todo = @ \ {item}, !.stopping = item]
      BY <2>2 DEF StopRow
    <3>2. ctl'.todo = ctl.todo \ {item} /\ ctl'.stopping = item
      BY <3>1 DEF FleetInv, FleetTypeOK, Controller
    <3>3. PICK other \in ctl.todo : other.id = w
      BY <2>0, <2>2, IdAssumption DEF SweepsWhatIsUp, StopRow, NoItem
    <3> QED  BY <3>2, <3>3
  <2>3. CASE ctl.pc = "sweep" /\ StopMachine
    <3>1. w # ctl.stopping.id /\ ctl'.todo = ctl.todo
      BY <2>0, <2>3, StopStops DEF StopMachine, FleetInv, FleetTypeOK, Controller
    <3> QED  BY <2>0, <2>3, <3>1 DEF SweepsWhatIsUp
  <2>4. CASE ctl.pc = "sweep" /\ ~StopRow /\ ~StopMachine
    <3>1. ~Swept /\ ~Interrupt /\ ~DbFails
      BY <1>1, <2>4 DEF Swept, Interrupt, DbFails, Undisturbed, NoFaults, FleetInv, FleetTypeOK,
         Controller
    <3>2. JobEnds \/ \E x \in Ids : MachineStep(x)
      BY <2>4, <3>1 DEF FleetStep, Control, Tick, Retired, Plan, Launch, LaunchFails, Register,
         RegisterFails, TickOver, LoopOver
    <3>3. ctl' = ctl
      BY <3>2, MachinesApart DEF JobEnds
    <3> QED  BY <2>0, <2>4, <3>3 DEF SweepsWhatIsUp
  <2> QED  BY <2>1, <2>2, <2>3, <2>4
<1>2. ASSUME ctl'.pc = "ended" PROVE Up' = {}
  <2>1. Up' \subseteq Up
    BY <1>2, UpEffect
  <2>2. CASE ctl.pc = "ended"
    BY <2>1, <2>2 DEF SweepsWhatIsUp
  <2>3. CASE Swept
    <3>1. Up \subseteq {NoId}
      BY <2>3 DEF Swept, LoopOver, SweepsWhatIsUp, NoItem
    <3> QED  BY <2>1, <3>1, IdAssumption DEF Up
  <2> QED  BY <1>2, <2>2, <2>3, Places
<1> QED  BY <1>1, <1>2 DEF SweepsWhatIsUp

LEMMA CountedIsFinite ==
  ASSUME FleetInv
  PROVE  IsFiniteSet(Counted) /\ Cardinality(Counted) \in Nat
<1>1. Counted \subseteq Ever
  BY DEF Counted, Ever, Live, Up, FleetInv, FleetTypeOK, Controller, LaunchedBeforeListed, InHand
<1> QED  BY <1>1, FS_Subset, FS_CardinalityType DEF FleetInv

\* What counts stays what counts, but for what a launch adds.
LEMMA CountedEffect ==
  ASSUME FleetInv, FleetStep, Undisturbed, UpIsKnown
  PROVE  Counted' \subseteq Counted \/ (Launch /\ Counted' \subseteq Counted \cup {ctl'.new})
<1>1. ASSUME NEW w \in Live' PROVE w \in Counted
  <2>1. w \in Ids /\ row'[w].state \in {"starting", "running"}
    BY <1>1 DEF Live
  <2>2. CASE row'[w].state = row[w].state
    BY <2>1, <2>2 DEF Live, Counted
  <2>3. CASE machine[w] = "up" \/ w = ctl.new
    BY <2>1, <2>3, IdAssumption DEF Counted, Up
  <2> QED  BY <2>1, <2>2, <2>3, RowEffect DEF Counted
<1>2. ASSUME NEW w \in Up' PROVE w \in Counted \/ (Launch /\ w = ctl'.new)
  BY <1>2, UpEffect DEF Counted
<1>3. ASSUME ~Launch, ctl'.new # NoId PROVE ctl'.new = ctl.new
  <2>1. ctl'.pc = "register"
    BY <1>3, InHandKept DEF InHand
  <2>2. Register \/ Plan => ctl'.pc # "register"
    <3>1. Register => ctl'.pc = "launch"
      BY DEF Register, FleetInv, FleetTypeOK, Controller
    <3>2. AtTick.pc = "tick"
      BY DEF AtTick
    <3>3. Plan => ctl' = AtTick \/ ctl'.pc \in {"launch", "scale"}
      BY DEF Plan, FleetInv, FleetTypeOK, Controller
    <3> QED  BY <3>1, <3>2, <3>3
  <2> QED  BY <1>3, <2>1, <2>2, Places
<1> QED  BY <1>1, <1>2, <1>3 DEF Counted

LEMMA RoomKept ==
  ASSUME FleetInv, FleetStep, Undisturbed, UpIsKnown, RoomLeft
  PROVE  RoomLeft'
<1> USE DEF FleetInv, FleetTypeOK, Controller
<1>0. /\ IsFiniteSet(Counted) /\ Cardinality(Counted) \in Nat
      /\ StillToLaunch \in Nat /\ StillToLaunch' \in Nat /\ MaxWorkers \in Nat
  <2>1. FleetInv'
    BY FleetNextInv, FleetStepIs
  <2>2. StillToLaunch \in Nat
    BY DEF StillToLaunch, InHand
  <2>3. StillToLaunch' \in Nat
    BY <2>1 DEF StillToLaunch, InHand
  <2> QED  BY CountedIsFinite, <2>2, <2>3, WorkersAssumption DEF WorkersAssumption
<1>1. ASSUME Counted' \subseteq Counted
      PROVE  Cardinality(Counted') \in Nat /\ Cardinality(Counted') <= Cardinality(Counted)
  BY <1>0, <1>1, FS_Subset, FS_CardinalityType
<1>2. CASE Launch
  <2>1. /\ Cardinality(Counted') \in Nat
        /\ Cardinality(Counted') <= Cardinality(Counted) + 1
    <3> DEFINE More == Counted \cup {ctl'.new}
    <3>1. IsFiniteSet(More) /\ Cardinality(More) <= Cardinality(Counted) + 1
      <4>1. /\ IsFiniteSet(More)
            /\ \/ Cardinality(More) = Cardinality(Counted)
               \/ Cardinality(More) = Cardinality(Counted) + 1
        BY <1>0, FS_AddElement
      <4> HIDE DEF More
      <4> QED  BY <1>0, <4>1
    <3>2. Counted' \subseteq More
      BY CountedEffect
    <3>3. Cardinality(Counted') <= Cardinality(More) /\ IsFiniteSet(Counted')
      BY <3>1, <3>2, FS_Subset
    <3>4. Cardinality(More) \in Nat /\ Cardinality(Counted') \in Nat
      BY <3>1, <3>3, FS_CardinalityType
    <3> HIDE DEF More
    <3> QED  BY <1>0, <3>1, <3>3, <3>4
  <2>2. StillToLaunch = ctl.left /\ StillToLaunch' = ctl.left - 1 /\ ctl.left > 0
    BY <1>2 DEF Launch, StillToLaunch
  <2> QED  BY <1>0, <2>1, <2>2 DEF RoomLeft
<1>3. CASE Plan
  <2>1. ctl.new = NoId /\ ctl.stopping = NoItem /\ ctl.pc = "plan"
    BY <1>3 DEF Plan, InHand
  <2>2. Counted = Live
    BY <2>1, IdAssumption DEF UpIsKnown, Counted, NoItem, Up
  <2>3. Live' = Live /\ Up' = Up
    BY <1>3 DEF Plan, Live, Up
  <2>4. ASSUME NEW want \in MinWorkers .. MaxWorkers, want > Cardinality(Live),
               ctl' = [ctl EXCEPT !.pc = "launch",
                         !.left = IF want - Cardinality(Live) < LaunchPerTick
                                  THEN want - Cardinality(Live) ELSE LaunchPerTick]
        PROVE  RoomLeft'
    <3>1. Counted' = Live
      BY <2>1, <2>2, <2>3, <2>4 DEF Counted
    <3>2. StillToLaunch' <= want - Cardinality(Live) /\ want \in Int /\ want <= MaxWorkers
      BY <1>0, <2>2, <2>4, WorkersAssumption DEF StillToLaunch, WorkersAssumption
    <3> QED  BY <1>0, <2>2, <3>1, <3>2 DEF RoomLeft
  <2>5. ASSUME ctl'.pc # "launch", ctl'.pc # "register", ctl'.new = NoId
        PROVE  RoomLeft'
    <3>1. Counted' \subseteq Counted /\ StillToLaunch' = 0
      BY <2>3, <2>5 DEF Counted, StillToLaunch
    <3> QED  BY <1>0, <1>1, <3>1 DEF RoomLeft
  <2>6. AtTick.pc = "tick" /\ AtTick.new = NoId
    BY DEF AtTick
  <2>7. ASSUME NEW idle, ctl' = [ctl EXCEPT !.pc = "scale", !.todo = Read(idle)]
        PROVE  ctl'.pc = "scale" /\ ctl'.new = NoId
    BY <2>1, <2>7
  <2> QED  BY <1>3, <2>4, <2>5, <2>6, <2>7 DEF Plan
<1>4. CASE ~Launch /\ ~Plan
  <2>1. Counted' \subseteq Counted
    BY <1>4, CountedEffect
  <2>2. StillToLaunch' <= StillToLaunch
    <3>1. CASE Register
      BY <1>0, <3>1 DEF Register, StillToLaunch
    <3>2. CASE ctl'.pc = ctl.pc /\ ctl'.left = ctl.left
      BY <1>0, <3>2 DEF StillToLaunch
    <3>3. CASE ctl'.pc \notin {"launch", "register"}
      BY <1>0, <3>3 DEF StillToLaunch
    <3> QED  BY <1>4, <3>1, <3>2, <3>3, Places
  <2> QED  BY <1>0, <1>1, <2>1, <2>2 DEF RoomLeft
<1> QED  BY <1>2, <1>3, <1>4

LEMMA FleetInitLocal == FleetInit => LocalInv
<1> SUFFICES ASSUME FleetInit PROVE UpIsKnown /\ RoomLeft /\ SweepsWhatIsUp
  BY DEF LocalInv
<1>1. Live = {} /\ Up = {}
  BY DEF FleetInit, Live, Up, Absent
<1>2. ctl.pc = "tick" /\ ctl.new = NoId
  BY DEF FleetInit, AtTick
<1>3. Counted = {} /\ StillToLaunch = 0
  BY <1>1, <1>2 DEF Counted, StillToLaunch
<1> QED  BY <1>1, <1>2, <1>3, FS_EmptySet, WorkersAssumption
         DEF UpIsKnown, RoomLeft, SweepsWhatIsUp, WorkersAssumption

LEMMA FleetNextLocal == FleetInv /\ LocalInv /\ [FleetNext]_fleetVars => LocalInv'
<1> SUFFICES ASSUME FleetInv, LocalInv, [FleetNext]_fleetVars, Undisturbed'
             PROVE  UpIsKnown' /\ RoomLeft' /\ SweepsWhatIsUp'
  BY DEF LocalInv
<1>1. Undisturbed
  BY DEF FleetNext, fleetVars, Undisturbed, NoFaults
<1>2. CASE FleetStep
  BY <1>1, <1>2, UpIsKnownKept, RoomKept, SweepsUpKept DEF LocalInv
<1>3. CASE UNCHANGED fleetVars
  BY <1>1, <1>3 DEF fleetVars, fleet, LocalInv, UpIsKnown, RoomLeft, SweepsWhatIsUp, Counted,
     StillToLaunch, Live, Up
<1> QED  BY <1>2, <1>3, FleetStepIs

LEMMA LocalInvariant == FleetSpec => []LocalInv
<1>1. FleetInit => FleetInv /\ LocalInv
  BY FleetInitInv, FleetInitLocal
<1>2. (FleetInv /\ LocalInv) /\ [FleetNext]_fleetVars => (FleetInv /\ LocalInv)'
  BY FleetNextInv, FleetNextLocal
<1> QED  BY <1>1, <1>2, PTL DEF FleetSpec

-----------------------------------------------------------------------------
(* The theorems. *)

\* Type correctness, for any ids, setups and limits.
THEOREM FleetTypeCorrect == FleetSpec => []FleetTypeOK
BY FleetInvariant, PTL DEF FleetInv

\* Without faults, every machine of the local provider is in the table as live,
\* or is the one the controller is about to record or to stop (run).
THEOREM MachinesHaveRows == FleetSpec => []EveryMachineHasALiveRow
<1>1. LocalInv => EveryMachineHasALiveRow
  BY DEF LocalInv, UpIsKnown, EveryMachineHasALiveRow
<1> QED  BY <1>1, LocalInvariant, PTL

\* --max-workers bounds the machines that are up, whatever is lost, silent,
\* killed or replaced meanwhile (run).
THEOREM MachinesAreBounded == FleetSpec => []NeverMoreThanMaxWorkers
<1>1. FleetInv /\ LocalInv => NeverMoreThanMaxWorkers
  <2> SUFFICES ASSUME FleetInv, RoomLeft PROVE Cardinality(Up) <= MaxWorkers
    BY DEF LocalInv, NeverMoreThanMaxWorkers
  <2>1. IsFiniteSet(Counted) /\ Cardinality(Counted) \in Nat
    BY CountedIsFinite
  <2>2. Cardinality(Up) <= Cardinality(Counted) /\ Cardinality(Up) \in Nat
    BY <2>1, FS_Subset, FS_CardinalityType DEF Counted
  <2>3. StillToLaunch \in Nat /\ MaxWorkers \in Nat
    BY WorkersAssumption DEF StillToLaunch, WorkersAssumption, FleetInv, FleetTypeOK, Controller,
       InHand
  <2> QED  BY <2>1, <2>2, <2>3 DEF RoomLeft
<1> QED  BY <1>1, FleetInvariant, LocalInvariant, PTL

\* A run of the local provider without faults leaves nothing running; on Verda it
\* may (NothingLeftRunning, the finally clause).
THEOREM LocalRunsLeaveNothing ==
  FleetSpec => [](setup.provider = "local" => NothingLeftRunning)
<1>1. LocalInv => (setup.provider = "local" => NothingLeftRunning)
  BY DEF LocalInv, SweepsWhatIsUp, NothingLeftRunning, Undisturbed
<1> QED  BY <1>1, LocalInvariant, PTL

\* Whatever failed before its sweep, a run whose sweep came to its end has given up
\* every worker it recorded, and only an interrupt or a failing call of the database
\* inside the sweep lets it end otherwise: of RunEnds only that the run does end is
\* left to fairness (the finally clause).
THEOREM EndedRunsBillNobody ==
  FleetSpec => [](/\ ctl.pc = "ended" => recorded \cap Live = {}
                  /\ ctl.pc = "escaped" => SweepMayEscape)
<1> DEFINE Escaped == ctl.pc = "escaped" => SweepMayEscape
<1>1. FleetInit => Escaped
  BY DEF FleetInit, AtTick
<1>2. FleetInv /\ Escaped /\ [FleetNext]_fleetVars => Escaped'
  <2>1. ASSUME FleetInv, Escaped, FleetStep PROVE Escaped'
    <3>1. setup' = setup
      BY <2>1 DEF FleetStep
    <3> QED  BY <2>1, <3>1, Places DEF SweepMayEscape
  <2>2. Escaped /\ UNCHANGED fleetVars => Escaped'
    BY DEF fleetVars, fleet, SweepMayEscape
  <2> QED  BY <2>1, <2>2, FleetStepIs
<1>3. FleetInv => (ctl.pc = "ended" => recorded \cap Live = {})
  BY DEF FleetInv, SweepsTheRecorded
<1> QED  BY <1>1, <1>2, <1>3, FleetInvariant, PTL DEF FleetSpec

==============================================================================
