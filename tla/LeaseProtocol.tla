---------------------------- MODULE LeaseProtocol ----------------------------
(***************************************************************************)
(* The v0 control plane and its workers over one LeaseStore: the agents    *)
(* (worker/agent.py), the HTTP requests they post, the handlers that serve *)
(* them (control/app.py), the reaper, the operator's cancel and the        *)
(* controller's kill_worker.                                               *)
(*                                                                         *)
(* A post is a message in net until a handler takes it.  The client waits  *)
(* 20 s, then posts again: so a request may be lost, may be served twice,  *)
(* and may be served long after its sender stopped waiting for it.  A      *)
(* handler is a FastAPI threadpool call made of several transactions; its  *)
(* state between two of them is a member of handlers.                      *)
(***************************************************************************)
EXTENDS LeaseStore

CONSTANTS
  Chunk,        (* FB_CHUNK, results per post                              *)
  Verdicts,     (* the verdicts the acceptance test may reach              *)
  MayGiveUp,    (* can an outage outlast the tries of one post()?          *)
  MaxFaults     (* bound: losses, crashes, early retries and outages       *)

ASSUME ChunkAssumption   == Chunk \in Nat \ {0}
ASSUME VerdictAssumption == Verdicts \subseteq Verdict /\ Verdicts # {}
ASSUME FaultAssumption   == MayGiveUp \in BOOLEAN /\ MaxFaults \in Nat

VARIABLES
  agent,        (* one record per worker id: the process with that id      *)
  net,          (* requests posted and not yet taken by a handler          *)
  handlers,     (* requests being served: message, next step, shard        *)
  faults,       (* faults so far                                           *)
  gaveUp        (* has an outage outlasted the tries of a post()?          *)

vars == <<jobStatus, shard, result, agent, net, handlers, faults, gaveUp>>
trouble == <<faults, gaveUp>>

(***************************************************************************)
(* Messages.  A claim carries no shard and no rows, a done post no rows.   *)
(***************************************************************************)
NoShard == 0
NoRows  == [r \in {} |-> "accepted"]

RowSets == UNION { [batch -> Verdict] : batch \in SUBSET Requests }

Message == [kind : {"claim", "results", "done"}, worker : Workers,
            shard : Shards \cup {NoShard}, rows : RowSets]

ClaimMsg(w) == [kind |-> "claim", worker |-> w, shard |-> NoShard, rows |-> NoRows]
ResultsMsg(w, s, rows) ==
  [kind |-> "results", worker |-> w, shard |-> s, rows |-> rows]
DoneMsg(w, s) == [kind |-> "done", worker |-> w, shard |-> s, rows |-> NoRows]

(***************************************************************************)
(* Agents.  pc is where the main thread is:                                *)
(*   off       no process          claim     top of the loop               *)
(*   claiming  claim posted        idle      nothing to claim, waiting     *)
(*   loading   shard claimed, engine not ready, _current_shard still None  *)
(*   work      in the batch loop   posting   a batch posted                *)
(*   finishing done posted         drained   exited, told nothing is left  *)
(***************************************************************************)
PC == {"off", "claim", "claiming", "idle", "loading", "work", "posting",
       "finishing", "drained"}
Awaiting == {"claiming", "posting", "finishing"}

NoMsg == [kind |-> "none"]

AgentRecord == [pc : PC, shard : Shards \cup {NoShard}, todo : SUBSET Requests,
                sent : Message \cup {NoMsg}, stop : BOOLEAN]

\* A request is held in sent for as long as its answer is awaited.
Agent == { a \in AgentRecord : a.pc \in Awaiting <=> a.sent # NoMsg }

Off == [pc |-> "off", shard |-> NoShard, todo |-> {}, sent |-> NoMsg, stop |-> FALSE]
AtTop(a) == [a EXCEPT !.pc = "claim", !.shard = NoShard, !.todo = {}, !.sent = NoMsg]

Alive(w) == agent[w].pc \notin {"off", "drained"}

\* _current_shard as the heartbeat thread sees it.
CurrentShard(w) ==
  IF agent[w].pc \in {"work", "posting", "finishing"} THEN agent[w].shard ELSE NoShard

Handler == [msg : Message, step : {"lease", "close", "count", "status", "set"},
            shard : Shards \cup {NoShard}]

InFlight(m) == m \in net \/ \E h \in handlers : h.msg = m

TypeOK ==
  /\ StoreTypeOK
  /\ agent \in [Workers -> Agent]
  /\ net \subseteq Message
  /\ handlers \subseteq Handler
  /\ faults \in 0 .. MaxFaults /\ gaveUp \in BOOLEAN

Init ==
  /\ StoreInit
  /\ agent = [w \in Workers |-> Off]
  /\ net = {}
  /\ handlers = {}
  /\ faults = 0 /\ gaveUp = FALSE

Fault == faults < MaxFaults /\ faults' = faults + 1 /\ UNCHANGED gaveUp

(***************************************************************************)
(* What the main thread does with an answer.  Results and done posts carry *)
(* on whatever came back.                                                  *)
(***************************************************************************)
Post(w, pc, m) ==
  /\ agent' = [agent EXCEPT ![w].pc = pc, ![w].sent = m]
  /\ net' = net \cup {m}

AfterPost(a) ==
  IF a.pc = "posting" THEN [a EXCEPT !.pc = "work", !.sent = NoMsg] ELSE AtTop(a)

GotShard(a, s) ==
  [a EXCEPT !.pc = "loading", !.shard = s, !.todo = Unanswered(s), !.sent = NoMsg]
GotNothing(a, outstanding) ==
  [AtTop(a) EXCEPT !.pc = IF outstanding THEN "idle" ELSE "drained"]

\* The answer to m reaches an agent still waiting for it, or is lost.
Reply(m, a) ==
  \/ /\ agent[m.worker].sent = m
     /\ agent' = [agent EXCEPT ![m.worker] = a]
     /\ UNCHANGED trouble
  \/ /\ agent[m.worker].sent = m
     /\ Fault
     /\ UNCHANGED agent
  \/ /\ agent[m.worker].sent # m
     /\ UNCHANGED <<agent, trouble>>

(***************************************************************************)
(* The agent's main thread.                                                *)
(***************************************************************************)
\* The machine is launched, or systemd restarts the process under the same id.
Boot(w) ==
  /\ ~ Alive(w)
  /\ agent' = [agent EXCEPT ![w] = AtTop(Off)]
  /\ UNCHANGED <<storeVars, net, handlers, trouble>>

PostClaim(w) ==
  /\ agent[w].pc = "claim"
  /\ ~ agent[w].stop
  /\ Post(w, "claiming", ClaimMsg(w))
  /\ UNCHANGED <<storeVars, handlers, trouble>>

EngineReady(w) ==
  /\ agent[w].pc = "loading"
  /\ agent' = [agent EXCEPT ![w].pc = "work"]
  /\ UNCHANGED <<storeVars, net, handlers, trouble>>

\* One turn of the batch loop.  claim()'s SELECT has no ORDER BY, so a batch is
\* any Chunk of the requests still to do.
PostBatch(w) ==
  LET a == agent[w] IN
  /\ a.pc = "work"
  /\ ~ a.stop
  /\ a.todo # {}
  /\ \E batch \in SUBSET a.todo :
       /\ batch # {}
       /\ Cardinality(batch) = Chunk \/ (Cardinality(batch) < Chunk /\ batch = a.todo)
       /\ \E rows \in [batch -> Verdicts] :
            LET m == ResultsMsg(w, a.shard, rows) IN
            /\ agent' = [agent EXCEPT ![w].pc = "posting", ![w].sent = m,
                                      ![w].todo = a.todo \ batch]
            /\ net' = net \cup {m}
  /\ UNCHANGED <<storeVars, handlers, trouble>>

\* Mutant: the test of _stop after the batch loop is missing.
PostDoneThoughStopped(w) ==
  /\ agent[w].pc = "work"
  /\ agent[w].stop \/ agent[w].todo = {}
  /\ Post(w, "finishing", DoneMsg(w, agent[w].shard))
  /\ UNCHANGED <<storeVars, handlers, trouble>>

PostDone(w) ==
  /\ agent[w].pc = "work"
  /\ ~ agent[w].stop
  /\ agent[w].todo = {}
  /\ Post(w, "finishing", DoneMsg(w, agent[w].shard))
  /\ UNCHANGED <<storeVars, handlers, trouble>>

\* _stop is set: the loops are left, no done is posted and the process ends.
ObeyStop(w) ==
  /\ agent[w].stop
  /\ agent[w].pc \in {"claim", "work", "idle"}
  /\ agent' = [agent EXCEPT ![w] = Off]
  /\ UNCHANGED <<storeVars, net, handlers, trouble>>

WaitOver(w) ==
  /\ agent[w].pc = "idle"
  /\ ~ agent[w].stop
  /\ agent' = [agent EXCEPT ![w].pc = "claim"]
  /\ UNCHANGED <<storeVars, net, handlers, trouble>>

\* IDLE_EXITS_HARD fruitless claims in a row.
IdleTooLong(w) ==
  /\ agent[w].pc = "idle"
  /\ agent' = [agent EXCEPT ![w] = Off]
  /\ UNCHANGED <<storeVars, net, handlers, trouble>>

\* A try of post() failed: nothing of it is left, so it is posted again.
Retry(w) ==
  /\ agent[w].pc \in Awaiting
  /\ ~ InFlight(agent[w].sent)
  /\ net' = net \cup {agent[w].sent}
  /\ UNCHANGED <<storeVars, agent, handlers, trouble>>

\* A try timed out while its request was still being served: a second copy.
RetryEarly(w) ==
  /\ agent[w].pc \in Awaiting
  /\ \E h \in handlers : h.msg = agent[w].sent
  /\ agent[w].sent \notin net
  /\ Fault
  /\ net' = net \cup {agent[w].sent}
  /\ UNCHANGED <<storeVars, agent, handlers>>

\* Every try failed: post() returns {}.  To a claim that reads as no shard,
\* no stop and nothing outstanding.
GiveUp(w) ==
  /\ MayGiveUp
  /\ agent[w].pc \in Awaiting
  /\ faults < MaxFaults /\ faults' = faults + 1
  /\ gaveUp' = TRUE
  /\ agent' = [agent EXCEPT ![w] = IF agent[w].pc = "claiming"
                                     THEN GotNothing(agent[w], FALSE)
                                     ELSE AfterPost(agent[w])]
  /\ UNCHANGED <<storeVars, net, handlers>>

\* SIGKILL, preemption, a crash, or the provider deleting the machine.
Crash(w) ==
  /\ Alive(w)
  /\ Fault
  /\ agent' = [agent EXCEPT ![w] = Off]
  /\ UNCHANGED <<storeVars, net, handlers>>

\* The heartbeat thread: one post, served and answered.
Heartbeat(w) ==
  /\ Alive(w)
  /\ agent' = [agent EXCEPT ![w].stop = @ \/ jobStatus # "running"]
  /\ shard' = IF CurrentShard(w) = NoShard THEN shard ELSE Extended(CurrentShard(w), w)
  /\ UNCHANGED <<jobStatus, result, net, handlers, trouble>>

LoseRequest(m) ==
  /\ m \in net
  /\ Fault
  /\ net' = net \ {m}
  /\ UNCHANGED <<storeVars, agent, handlers>>

(***************************************************************************)
(* The request handlers.                                                   *)
(***************************************************************************)
Take(m, step) ==
  /\ net' = net \ {m}
  /\ handlers' = handlers \cup {[msg |-> m, step |-> step, shard |-> NoShard]}

Continue(h, step, s) ==
  handlers' = (handlers \ {h}) \cup {[msg |-> h.msg, step |-> step, shard |-> s]}

Finish(h) == handlers' = handlers \ {h}

\* w_claim: the job is read first.
ReceiveClaim(m) ==
  /\ m \in net
  /\ m.kind = "claim"
  /\ \/ /\ jobStatus = "running"
        /\ Take(m, "lease")
        /\ UNCHANGED <<agent, trouble>>
     \/ /\ jobStatus # "running"
        /\ net' = net \ {m}
        /\ Reply(m, Off)
        /\ UNCHANGED handlers
  /\ UNCHANGED storeVars

\* w_claim, the claim transaction.  A shard with nothing left to answer is not
\* handed out: it is closed by a second transaction, and the claim starts over.
\* What is outstanding is read afterwards (CountOutstanding); an agent looks at it
\* only when it was handed no shard.
LeaseShard(h) ==
  LET w == h.msg.worker IN
  /\ h \in handlers
  /\ h.step = "lease"
  /\ \/ \E s \in Shards :
          /\ ClaimShard(w, s)
          /\ \/ /\ Unanswered(s) = {}
                /\ Continue(h, "close", s)
                /\ UNCHANGED <<agent, trouble>>
             \/ /\ Unanswered(s) # {}
                /\ Finish(h)
                /\ Reply(h.msg, GotShard(agent[w], s))
     \/ /\ PendingShards = {}
        /\ Continue(h, "count", NoShard)
        /\ UNCHANGED <<storeVars, agent, trouble>>
  /\ UNCHANGED net

\* w_claim, the answer of a claim that found nothing: outstanding() is a read of
\* its own, of shards that may have been returned or closed meanwhile.
CountOutstanding(h) ==
  /\ h \in handlers
  /\ h.step = "count"
  /\ Finish(h)
  /\ Reply(h.msg, GotNothing(agent[h.msg.worker], Outstanding))
  /\ UNCHANGED <<storeVars, net>>

CloseAnswered(h) ==
  /\ h \in handlers
  /\ h.step = "close"
  /\ FinishShard(h.shard)
  /\ Continue(h, "lease", NoShard)
  /\ UNCHANGED <<agent, net, trouble>>

\* w_results with rows: put_results, then extend_lease.
ReceiveResults(m) ==
  /\ m \in net
  /\ m.kind = "results"
  /\ result' = Upserted(m.rows)
  /\ shard' = Extended(m.shard, m.worker)
  /\ Take(m, "status")
  /\ UNCHANGED <<jobStatus, agent, trouble>>

\* w_results with done: finish_shard.
ReceiveDone(m) ==
  /\ m \in net
  /\ m.kind = "done"
  /\ FinishShard(m.shard)
  /\ Take(m, "status")
  /\ UNCHANGED <<agent, trouble>>

\* Mutant: the job is taken to be over once no shard is left in the pool.
ReadStatusOfShards(h) ==
  /\ h \in handlers
  /\ h.step = "status"
  /\ \/ /\ PendingShards = {} /\ jobStatus = "running"
        /\ Continue(h, "set", NoShard)
        /\ UNCHANGED <<agent, trouble>>
     \/ /\ ~ (PendingShards = {} /\ jobStatus = "running")
        /\ Finish(h)
        /\ Reply(h.msg, AfterPost(agent[h.msg.worker]))
  /\ UNCHANGED <<storeVars, net>>

\* w_results, the status read: remaining = 0 and the job running?
ReadStatus(h) ==
  /\ h \in handlers
  /\ h.step = "status"
  /\ \/ /\ Answered = Requests /\ jobStatus = "running"
        /\ Continue(h, "set", NoShard)
        /\ UNCHANGED <<agent, trouble>>
     \/ /\ ~ (Answered = Requests /\ jobStatus = "running")
        /\ Finish(h)
        /\ Reply(h.msg, AfterPost(agent[h.msg.worker]))
  /\ UNCHANGED <<storeVars, net>>

\* w_results: the status is written without being read again.
MarkDone(h) ==
  /\ h \in handlers
  /\ h.step = "set"
  /\ SetJobStatus("done")
  /\ Finish(h)
  /\ Reply(h.msg, AfterPost(agent[h.msg.worker]))
  /\ UNCHANGED net

\* The control plane process dies and is restarted.
ControlPlaneCrash ==
  /\ handlers # {}
  /\ Fault
  /\ handlers' = {}
  /\ UNCHANGED <<storeVars, agent, net>>

(***************************************************************************)
(* The reaper, the operator, the controller and the clock.                 *)
(***************************************************************************)
ReapExpired   == Reap /\ UNCHANGED <<agent, net, handlers, trouble>>
CancelJob     == SetJobStatus("cancelled") /\ UNCHANGED <<agent, net, handlers, trouble>>

\* kill_worker; the machine itself stops when the provider gets to it (Crash),
\* or never.
KillWorker(w) == ReleaseLeases(w) /\ UNCHANGED <<agent, net, handlers, trouble>>
Lapse(s)      == LeaseLapses(s) /\ UNCHANGED <<agent, net, handlers, trouble>>

AgentStep(w) ==
  \/ Boot(w) \/ PostClaim(w) \/ EngineReady(w) \/ PostBatch(w) \/ PostDone(w)
  \/ ObeyStop(w) \/ WaitOver(w) \/ IdleTooLong(w) \/ Retry(w) \/ RetryEarly(w)
  \/ GiveUp(w) \/ Crash(w) \/ Heartbeat(w)

Receive(m) == ReceiveClaim(m) \/ ReceiveResults(m) \/ ReceiveDone(m)
Serve(h) ==
  LeaseShard(h) \/ CountOutstanding(h) \/ CloseAnswered(h) \/ ReadStatus(h) \/ MarkDone(h)

Next ==
  \/ \E w \in Workers : AgentStep(w) \/ KillWorker(w)
  \/ \E m \in net : Receive(m) \/ LoseRequest(m)
  \/ \E h \in handlers : Serve(h)
  \/ \E s \in Shards : Lapse(s)
  \/ ReapExpired \/ CancelJob \/ ControlPlaneCrash

Spec == Init /\ [][Next]_vars

(***************************************************************************)
(* Fairness.  A running process takes its next step; a machine that is     *)
(* gone is replaced while the job runs (controller.run) ; a request that   *)
(* is not lost is served; the reaper thread runs every 5 s; and a lease    *)
(* that nobody heartbeats for runs out.  Nothing is assumed of a lease     *)
(* that is being heartbeaten, of faults, of kills or of the operator.      *)
(***************************************************************************)
Heartbeaten(s) == \E w \in Workers : Holds(w, s) /\ CurrentShard(w) = s

MainThread(w) ==
  \/ jobStatus = "running" /\ Boot(w)
  \/ PostClaim(w) \/ EngineReady(w) \/ PostBatch(w) \/ PostDone(w)
  \/ ObeyStop(w) \/ WaitOver(w) \/ Retry(w)

ReceiveFrom(w) == \E m \in net : m.worker = w /\ Receive(m)
ServeFor(w)    == \E h \in handlers : h.msg.worker = w /\ Serve(h)

AbandonedLapse(s) == ~ Heartbeaten(s) /\ Lapse(s)

Fairness ==
  /\ \A w \in Workers : WF_vars(MainThread(w)) /\ WF_vars(Heartbeat(w))
  /\ \A s \in Shards : WF_vars(AbandonedLapse(s))
  /\ \A w \in Workers : WF_vars(ReceiveFrom(w)) /\ WF_vars(ServeFor(w))
  /\ WF_vars(ReapExpired)


(***************************************************************************)
(* Safety.                                                                 *)
(***************************************************************************)
\* Every request of a closed shard has a result.  finish_shard checks neither who
\* holds the lease nor what is missing.
ClosedMeansAnswered ==
  \A s \in Shards : shard[s].state = "done" => Unanswered(s) = {}

\* As long as no post was given up, a shard is closed only when each of its requests
\* has a result: by a done post, however late and whoever holds the lease by then,
\* or by the claim that finds nothing left to do.
DoneShardsAreAnswered == gaveUp \/ ClosedMeansAnswered

\* Nor does an agent that goes home because nothing is outstanding leave a request
\* without a result (main's outstanding == 0 exit, outstanding()).
HomeMeansAnswered == \A w \in Workers : agent[w].pc = "drained" => Answered = Requests
DrainedMeansAnswered == gaveUp \/ HomeMeansAnswered

\* Why the two hold.  Nothing is said to be finished before it is: what a
\* worker has still to do or to post covers what its shard is missing, and a
\* done post or a closing claim is about a shard that misses nothing.
AgentCovers(a, answered) ==
  /\ a.pc \in {"loading", "work"} =>
       a.shard \in Shards /\ RequestsOf(a.shard) \subseteq answered \cup a.todo
  /\ a.pc = "posting" =>
       /\ a.shard \in Shards
       /\ a.sent.kind = "results"
       /\ RequestsOf(a.shard) \subseteq answered \cup a.todo \cup DOMAIN a.sent.rows
  /\ a.pc = "finishing" =>
       /\ a.sent.kind = "done"
       /\ RequestsOf(a.sent.shard) \subseteq answered
  /\ a.pc = "claiming" => a.sent.kind = "claim"

MessageCovers(m, answered) ==
  m.kind = "done" => RequestsOf(m.shard) \subseteq answered

HandlerCovers(h, answered) ==
  /\ h.step \in {"lease", "count"} => h.msg.kind = "claim"
  /\ h.step = "close" => h.msg.kind = "claim" /\ RequestsOf(h.shard) \subseteq answered
  /\ h.step \in {"status", "set"} => h.msg.kind \in {"results", "done"}
  /\ h.msg.kind = "results" => DOMAIN h.msg.rows \subseteq answered
  /\ MessageCovers(h.msg, answered)

ClaimsAreCovered ==
  /\ \A w \in Workers : AgentCovers(agent[w], Answered)
  /\ \A m \in net : MessageCovers(m, Answered)
  /\ \A h \in handlers : HandlerCovers(h, Answered)

NothingClaimedTooEarly == gaveUp \/ ClaimsAreCovered

\* A completion is decided only once every request is answered.
DecidedMeansAnswered == \A h \in handlers : h.step = "set" => Answered = Requests

\* Whatever the machines do, the job is a BatchJob.
Job == INSTANCE BatchJob WITH status <- jobStatus, answered <- Answered
ImplementsBatchJob == Job!Spec

(***************************************************************************)
(* Liveness.                                                               *)
(***************************************************************************)
\* The job survives its machines: unless it is cancelled or a post was given up,
\* every request is answered.
EveryRequestAnswered == <>(Answered = Requests \/ jobStatus = "cancelled" \/ gaveUp)
=============================================================================
