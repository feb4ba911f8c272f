------------------------------ MODULE BatchJob ------------------------------
(***************************************************************************)
(* What the prototype promises about one job, with no machines in it: the  *)
(* answered requests only grow, and the job is declared done only when     *)
(* every one of them is answered.  Answers may still arrive after the job  *)
(* has ended, and a completion that was already decided may overtake a     *)
(* cancellation: the code promises no more (control/app.py, w_results).    *)
(***************************************************************************)
CONSTANT Requests

VARIABLES status, answered

jobVars == <<status, answered>>

Init == status = "running" /\ answered = {}

\* Some requests are answered; none is ever withdrawn.
Answer ==
  /\ \E more \in SUBSET Requests : answered' = answered \cup more
  /\ UNCHANGED status

Complete ==
  /\ answered = Requests
  /\ status' = "done"
  /\ UNCHANGED answered

Cancel ==
  /\ status' = "cancelled"
  /\ UNCHANGED answered

Next == Answer \/ Complete \/ Cancel

Spec == Init /\ [][Next]_jobVars
=============================================================================
