---------------------------- MODULE MCPrototype ----------------------------
(* The prototype for TLC: either a job's leases, under agents that crash   *)
(* and a control plane that restarts, or the fleet a controller keeps for  *)
(* a job.  The two share no state here, so a behaviour is about one and    *)
(* the other stands still: a controller that has ended, or a job that was  *)
(* called off before any machine.  A job is followed until what is         *)
(* promised of it has come about (EveryRequestAnswered), since no later    *)
(* step could undo that.  Ids are used in their order: fresh ids differ in *)
(* nothing but their names.  Three ids let a lost machine be replaced      *)
(* while another lives; two are enough for the faults.                     *)
EXTENDS LeaseProtocol, Fleet

CONSTANTS i1, i2, i3

MCIds == {i1, i2, i3}
MCSetups == {[provider |-> "local", faults |-> {}, ids |-> MCIds],
             [provider |-> "verda", faults |-> FaultKind, ids |-> {i1, i2}]}
NoFleet == [provider |-> "local", faults |-> {}, ids |-> {}]

ControllerGone ==
  /\ setup = NoFleet
  /\ jobOver = TRUE
  /\ row = [w \in Ids |-> Absent]
  /\ machine = [w \in Ids |-> "none"]
  /\ agents = [w \in Ids |-> "off"]
  /\ procs = {} /\ recorded = {}
  /\ ctl = [AtTick EXCEPT !.pc = "ended"]

CalledOff ==
  /\ jobStatus = "cancelled"
  /\ shard  = [s \in Shards |-> Pending]
  /\ result = [r \in Requests |-> "none"]
  /\ agent = [w \in Workers |-> Off]
  /\ net = {} /\ handlers = {}
  /\ faults = 0 /\ gaveUp = FALSE

EitherInit == \/ Init /\ ControllerGone
              \/ CalledOff /\ FleetInit
JobSettled == Answered = Requests \/ jobStatus = "cancelled" \/ gaveUp
InOrder == \A w \in {<<i1, i2>>, <<i2, i3>>} :
  machine'[w[2]] # "none" => machine'[w[1]] # "none"

EitherNext ==
  \/ setup = NoFleet /\ ~ JobSettled /\ Next /\ UNCHANGED fleetVars
  \/ setup # NoFleet /\ FleetNext /\ InOrder /\ UNCHANGED vars
EitherSpec ==
  /\ EitherInit /\ [][EitherNext]_<<vars, fleetVars>>
  /\ Fairness /\ FleetFairness
=============================================================================
