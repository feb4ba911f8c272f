-------------------------------- MODULE Fleet --------------------------------
(***************************************************************************)
(* The machines of one job: the deadline controller (controller.py), the   *)
(* provider it buys from (providers/local.py, providers/verda.py), the     *)
(* workers table (control/db.py) and the agent process each machine runs.  *)
(*                                                                         *)
(* The controller's arithmetic (rates, the time left) is abstracted to its *)
(* outcome: any number of workers between the minimum and the maximum may  *)
(* be wanted at a tick.  A silence longer than WORKER_STALE is the flag    *)
(* silent.  Worker ids are fresh uuids: a setup bounds how many may be     *)
(* used, and says which provider is used and what may go wrong.            *)
(***************************************************************************)
EXTENDS Integers, FiniteSets

CONSTANTS
  Ids,           (* worker ids                                             *)
  Setups,        (* the setups considered, see Setup                       *)
  MinWorkers, MaxWorkers, LaunchPerTick,
  NoId           (* no worker                                              *)

FaultKind == {"interrupt",        (* Ctrl-C while the controller acts           *)
          "launch_timeout",   (* an instance is created and launch() raises *)
          "db_error",         (* a call of control/db.py raises (locked)    *)
          "kill_error"}       (* the delete call raises                     *)

Setup == [provider : {"local", "verda"},
          faults : SUBSET FaultKind,   (* the kinds of fault that may occur    *)
          ids : SUBSET Ids]        (* the worker ids that may be used      *)

ASSUME SetupsAssumption   == Setups \subseteq Setup
ASSUME WorkersAssumption  ==
  /\ MinWorkers \in Nat /\ MaxWorkers \in Nat /\ MinWorkers <= MaxWorkers
  /\ LaunchPerTick \in Nat \ {0}
ASSUME IdAssumption       == NoId \notin Ids

VARIABLES
  setup,     (* the provider of the job, chosen once                       *)
  jobOver,   (* status # running, or nothing remains                       *)
  row,       (* the workers table                                          *)
  machine,   (* the provider's side: what exists, and is billed            *)
  agents,    (* the agent process on each machine                          *)
  procs,     (* LocalProvider.procs: the subprocesses this run started     *)
  recorded,  (* ids the controller wrote to the table after launching them *)
  ctl        (* the controller: where run() is and what it iterates over   *)

fleet == <<jobOver, row, machine, agents, procs, recorded, ctl>>
fleetVars == <<setup, fleet>>

Absent == [state |-> "absent", instance |-> FALSE, price |-> "zero", silent |-> FALSE]

Row == [state : {"absent", "starting", "running", "dead"},
        instance : BOOLEAN,            (* instance_id IS NOT NULL          *)
        price : {"zero", "charged"},   (* price_hr                         *)
        silent : BOOLEAN]              (* now - last_seen_ts > WORKER_STALE *)

Machine == {"none", "up", "gone"}
Process == {"off", "booting", "up"}

\* A row as it was read: what the loops of run() hold on to.
Item == [id : Ids, instance : BOOLEAN]
NoItem == [id |-> NoId, instance |-> FALSE]

ControllerStep == {"tick", "retire", "plan", "launch", "register", "scale", "sweep",
                   "ended",      (* run() has returned                      *)
                   "escaped"}    (* an exception has left the sweep, and run *)

Controller == [pc : ControllerStep,
               over : BOOLEAN,                  (* the status read this tick *)
               todo : SUBSET Item,              (* rows still to be stopped  *)
               stopping : Item \cup {NoItem},   (* row dead, kill not called *)
               left : Nat,                      (* launches left this tick   *)
               new : Ids \cup {NoId}]           (* launched, not registered  *)

AtTick == [pc |-> "tick", over |-> FALSE, todo |-> {}, stopping |-> NoItem,
           left |-> 0, new |-> NoId]

Live == { w \in Ids : row[w].state \in {"starting", "running"} }
Read(ids) == { [id |-> w, instance |-> row[w].instance] : w \in ids }
Unused == { w \in setup.ids : machine[w] = "none" }
Up == { w \in Ids : machine[w] = "up" }

FleetTypeOK ==
  /\ setup \in Setups
  /\ jobOver \in BOOLEAN
  /\ row \in [Ids -> Row]
  /\ machine \in [Ids -> Machine]
  /\ agents \in [Ids -> Process]
  /\ procs \subseteq Ids
  /\ recorded \subseteq Ids
  /\ ctl \in Controller

FleetInit ==
  /\ setup \in Setups
  /\ jobOver = FALSE
  /\ row = [w \in Ids |-> Absent]
  /\ machine = [w \in Ids |-> "none"]
  /\ agents = [w \in Ids |-> "off"]
  /\ procs = {}
  /\ recorded = {}
  /\ ctl = AtTick

(***************************************************************************)
(* register_worker, called by the controller after a launch and by the     *)
(* agent when it starts: insert, or overwrite the columns of the launch.   *)
(* Neither the state nor last_seen_ts of an existing row is touched.       *)
(***************************************************************************)
Registered(w, instance, price) ==
  IF row[w].state = "absent"
    THEN [row EXCEPT ![w] = [state |-> "starting", instance |-> instance,
                             price |-> price, silent |-> FALSE]]
    ELSE [row EXCEPT ![w].instance = instance, ![w].price = price]

\* kill_worker: whatever the state, also of a worker already dead.
KilledRow(w) == [row EXCEPT ![w].state = "dead"]

(***************************************************************************)
(* provider.kill.  Locally the process group of a subprocess this run      *)
(* started is killed, else the pid in the row, if any; Verda deletes the   *)
(* instance in the row, if any.                                            *)
(***************************************************************************)
Reached(item, known) == item.instance \/ (setup.provider = "local" /\ item.id \in known)

Stopped(w) ==
  /\ machine' = [machine EXCEPT ![w] = "gone"]
  /\ agents' = [agents EXCEPT ![w] = "off"]

ProviderKill(item, known) ==
  \/ /\ Reached(item, known) /\ machine[item.id] = "up"
     /\ Stopped(item.id)
  \/ /\ ~ (Reached(item, known) /\ machine[item.id] = "up")
     /\ UNCHANGED <<machine, agents>>
  \/ /\ setup.provider = "verda" /\ "kill_error" \in setup.faults      \* swallowed by run()
     /\ UNCHANGED <<machine, agents>>

(***************************************************************************)
(* The controller's loop.                                                  *)
(***************************************************************************)

\* Mutant: the status is not read again after the first tick.
TickForgetsStatus ==
  /\ ctl.pc = "tick"
  /\ ctl' = [ctl EXCEPT !.pc = "retire", !.todo = Read({ w \in Live : row[w].silent })]
  /\ UNCHANGED <<jobOver, row, machine, agents, procs, recorded>>

\* The status is read, then the live rows; the silent ones will be retired.
Tick ==
  /\ ctl.pc = "tick"
  /\ ctl' = [ctl EXCEPT !.pc = "retire", !.over = jobOver,
                        !.todo = Read({ w \in Live : row[w].silent })]
  /\ UNCHANGED <<jobOver, row, machine, agents, procs, recorded>>

\* One turn of a killing loop, in its two steps: the row, then the machine.
StopRow ==
  /\ ctl.pc \in {"retire", "scale", "sweep"}
  /\ ctl.stopping = NoItem
  /\ \E item \in ctl.todo :
       /\ row' = KilledRow(item.id)
       /\ ctl' = [ctl EXCEPT !.todo = @ \ {item}, !.stopping = item]
  /\ UNCHANGED <<jobOver, machine, agents, procs, recorded>>

\* Mutant: the worker's process is forgotten before it is killed.
StopMachineForgotten ==
  /\ ctl.stopping # NoItem
  /\ ProviderKill(ctl.stopping, procs \ {ctl.stopping.id})
  /\ procs' = procs \ {ctl.stopping.id}
  /\ ctl' = [ctl EXCEPT !.stopping = NoItem]
  /\ UNCHANGED <<jobOver, row, recorded>>

StopMachine ==
  /\ ctl.stopping # NoItem
  /\ ProviderKill(ctl.stopping, procs)
  /\ procs' = procs \ {ctl.stopping.id}
  /\ ctl' = [ctl EXCEPT !.stopping = NoItem]
  /\ UNCHANGED <<jobOver, row, recorded>>

LoopOver(pc) == ctl.pc = pc /\ ctl.todo = {} /\ ctl.stopping = NoItem

\* The status read at the top of the tick decides, not the status now.  The
\* finally clause reads the live rows once more.
Retired ==
  /\ LoopOver("retire")
  /\ IF ctl.over THEN ctl' = [AtTick EXCEPT !.pc = "sweep", !.todo = Read(Live)]
                 ELSE ctl' = [AtTick EXCEPT !.pc = "plan"]
  /\ UNCHANGED <<jobOver, row, machine, agents, procs, recorded>>

\* Mutant: the wanted number is clamped from below only.
PlanUnclamped ==
  LET n == Cardinality(Live) IN
  /\ ctl.pc = "plan"
  /\ \E want \in MinWorkers .. MaxWorkers + 1 :
       \/ want > n /\ ctl' = [ctl EXCEPT !.pc = "launch", !.left = want - n]
       \/ want <= n /\ ctl' = AtTick
  /\ UNCHANGED <<jobOver, row, machine, agents, procs, recorded>>

\* want is computed and clamped; the difference with the live rows is launched,
\* at most LaunchPerTick at once and if the provider has capacity, or stopped.
Plan ==
  LET n == Cardinality(Live) IN
  /\ ctl.pc = "plan"
  /\ \E want \in MinWorkers .. MaxWorkers :
       \/ /\ want > n
          /\ \/ ctl' = [ctl EXCEPT !.pc = "launch",
                                   !.left = IF want - n < LaunchPerTick THEN want - n
                                                                        ELSE LaunchPerTick]
             \/ setup.provider = "verda" /\ ctl' = AtTick
       \/ /\ want < n
          /\ \E idle \in SUBSET Live :
               /\ Cardinality(idle) = n - want
               /\ ctl' = [ctl EXCEPT !.pc = "scale", !.todo = Read(idle)]
       \/ want = n /\ ctl' = AtTick
  /\ UNCHANGED <<jobOver, row, machine, agents, procs, recorded>>

Launched(w) ==
  /\ machine' = [machine EXCEPT ![w] = "up"]
  /\ agents' = [agents EXCEPT ![w] = "booting"]
  /\ procs' = IF setup.provider = "local" THEN procs \cup {w} ELSE procs

Launch ==
  /\ ctl.pc = "launch" /\ ctl.left > 0
  /\ \E w \in Unused :
       /\ Launched(w)
       /\ ctl' = [ctl EXCEPT !.pc = "register", !.new = w]
  /\ UNCHANGED <<jobOver, row, recorded>>

\* launch() raises, before or after the instance came to exist: the tick ends.
LaunchFails ==
  /\ ctl.pc = "launch" /\ ctl.left > 0
  /\ setup.provider = "verda"
  /\ ctl' = AtTick
  /\ \/ UNCHANGED <<machine, agents, procs>>
     \/ "launch_timeout" \in setup.faults /\ \E w \in Unused : Launched(w)
  /\ UNCHANGED <<jobOver, row, recorded>>

Register ==
  /\ ctl.pc = "register"
  /\ row' = Registered(ctl.new, TRUE, "charged")
  /\ recorded' = recorded \cup {ctl.new}
  /\ ctl' = [ctl EXCEPT !.pc = "launch", !.left = @ - 1, !.new = NoId]
  /\ UNCHANGED <<jobOver, machine, agents, procs>>

\* The same except clause: the machine is up and this run forgets it.
RegisterFails ==
  /\ ctl.pc = "register"
  /\ "db_error" \in setup.faults
  /\ ctl' = AtTick
  /\ UNCHANGED <<jobOver, row, machine, agents, procs, recorded>>

TickOver ==
  /\ \/ ctl.pc = "launch" /\ (ctl.left = 0 \/ Unused = {})
     \/ LoopOver("scale")
  /\ ctl' = AtTick
  /\ UNCHANGED <<jobOver, row, machine, agents, procs, recorded>>

Swept ==
  /\ LoopOver("sweep")
  /\ ctl' = [ctl EXCEPT !.pc = "ended"]
  /\ UNCHANGED <<jobOver, row, machine, agents, procs, recorded>>

\* An exception that no except clause of the loop takes: the finally clause reads
\* the live rows and sweeps them.  Out of the sweep itself it leaves run(), and
\* whatever was still to be stopped stays as it is.
Escapes ==
  /\ ctl' = IF ctl.pc = "sweep" THEN [AtTick EXCEPT !.pc = "escaped"]
            ELSE [AtTick EXCEPT !.pc = "sweep", !.todo = Read(Live)]
  /\ UNCHANGED <<jobOver, row, machine, agents, procs, recorded>>

\* Ctrl-C.  Nearly all of a tick is time.sleep(TICK); elsewhere it is a fault,
\* and what the interrupted iteration was about is lost.  No `except Exception`
\* takes a KeyboardInterrupt, that of the sweep's kills neither.
Interrupt ==
  /\ \/ ctl.pc = "tick"
     \/ "interrupt" \in setup.faults /\ ctl.pc \notin {"ended", "escaped"}
  /\ Escapes

\* reap, status, live_workers, worker_has_lease or kill_worker raises; only
\* register_worker is called inside a try (RegisterFails).
DbFails ==
  /\ "db_error" \in setup.faults
  /\ ctl.pc \in {"tick", "retire", "plan", "scale", "sweep"} /\ ctl.stopping = NoItem
  /\ Escapes

(***************************************************************************)
(* The machines.                                                           *)
(***************************************************************************)

\* What the agent knows of its own launch: no instance id is ever passed to it
\* (FB_INSTANCE_ID), and its price is the one known when the job's startup
\* script was written: the local constant, or VerdaProvider's initial 0.
AgentPrice == IF setup.provider = "local" THEN "charged" ELSE "zero"

\* The agent starts: post("/w/register"), which may fail and is not looked at.
AgentRegisters(w) ==
  /\ agents[w] = "booting"
  /\ agents' = [agents EXCEPT ![w] = "up"]
  /\ row' = Registered(w, FALSE, AgentPrice) \/ row' = row
  /\ UNCHANGED <<jobOver, machine, procs, recorded, ctl>>

\* A worker without a row is told to stop (AgentExits); a dead one stays dead.
AgentHeartbeats(w) ==
  /\ agents[w] = "up" /\ row[w].state # "absent"
  /\ row' = IF row[w].state = "dead" THEN row
            ELSE [row EXCEPT ![w].state = "running", ![w].silent = FALSE]
  /\ UNCHANGED <<jobOver, machine, agents, procs, recorded, ctl>>

\* The agent's process ends: a crash, or nothing left to claim.  A local machine
\* is its process; on Verda systemd starts the agent again.
AgentExits(w) ==
  /\ agents[w] = "up"
  /\ IF setup.provider = "local"
       THEN Stopped(w)
       ELSE agents' = [agents EXCEPT ![w] = "booting"] /\ UNCHANGED machine
  /\ UNCHANGED <<jobOver, row, procs, recorded, ctl>>

\* The provider takes the machine away, without notice.
Preempted(w) ==
  /\ machine[w] = "up"
  /\ Stopped(w)
  /\ UNCHANGED <<jobOver, row, procs, recorded, ctl>>

\* fb chaos: a provider object made for the occasion kills a live worker.
Chaos(w) ==
  /\ w \in Live
  /\ ProviderKill([id |-> w, instance |-> row[w].instance], {})
  /\ UNCHANGED <<jobOver, row, procs, recorded, ctl>>

\* WORKER_STALE seconds without a heartbeat: also of a worker still booting.
FallsSilent(w) ==
  /\ w \in Live /\ ~ row[w].silent
  /\ row' = [row EXCEPT ![w].silent = TRUE]
  /\ UNCHANGED <<jobOver, machine, agents, procs, recorded, ctl>>

JobEnds ==
  /\ ~ jobOver
  /\ jobOver' = TRUE
  /\ UNCHANGED <<row, machine, agents, procs, recorded, ctl>>

Control ==
  \/ Tick \/ StopRow \/ StopMachine \/ Retired \/ Plan \/ Launch \/ LaunchFails
  \/ Register \/ RegisterFails \/ TickOver \/ Swept

MachineStep(w) ==
  \/ AgentRegisters(w) \/ AgentHeartbeats(w) \/ AgentExits(w) \/ Preempted(w)
  \/ Chaos(w) \/ FallsSilent(w)

FleetNext ==
  /\ Control \/ Interrupt \/ DbFails \/ JobEnds \/ \E w \in Ids : MachineStep(w)
  /\ UNCHANGED setup

FleetSpec == FleetInit /\ [][FleetNext]_fleetVars

\* The controller's loop goes on, and a machine with no process behind it is
\* not heard of again.
FleetFairness ==
  /\ WF_fleet(Control)
  /\ \A w \in Ids : WF_fleet(agents[w] = "off" /\ FallsSilent(w))

(***************************************************************************)
(* Safety.  Some of it is promised only when none of the faults occurs,    *)
(* and some by the local provider only: on Verda the row an agent writes   *)
(* for itself carries no instance id, and the machine behind it is lost    *)
(* when it is retired.                                                     *)
(***************************************************************************)
NoFaults == setup.faults = {}
Undisturbed == NoFaults /\ setup.provider = "local"

\* Every machine that is up is in the table as a live worker, unless the
\* controller is at this moment between launching and recording it or between
\* giving it up and stopping it (run).
EveryMachineHasALiveRow ==
  Undisturbed => \A w \in Up : w \in Live \/ w = ctl.new \/ w = ctl.stopping.id

\* --max-workers bounds what is up, whatever the loop launches and forgets.
NeverMoreThanMaxWorkers == Undisturbed => Cardinality(Up) <= MaxWorkers

\* When run() has returned, no machine it launched is left running.
NothingLeftRunning == NoFaults /\ ctl.pc = "ended" => Up = {}

(***************************************************************************)
(* Liveness.                                                               *)
(***************************************************************************)

\* Once the job is over the run ends, and each worker it recorded is dead in the
\* table, which is what stops its bill there (the finally clause, ledger): whatever
\* failed before the sweep, and unless the sweep itself is cut short.
SweepMayEscape == setup.faults \cap {"interrupt", "db_error"} # {}
RunEnds == jobOver ~> \/ ctl.pc = "ended" /\ recorded \cap Live = {}
                      \/ ctl.pc = "escaped" /\ SweepMayEscape
=============================================================================
