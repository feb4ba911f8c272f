-------------------------- MODULE MCMembershipPlane --------------------------
(* MembershipPlane for TLC. *)
EXTENDS MembershipPlane, TLC

CONSTANTS w1, w2, noted

\* Two statements that differ in their notes only, and one that differs in more.
MCDetails == [w \in Words \cup {None} |-> IF w \in {w1, w2} THEN noted ELSE w]

\* Accounts, requests and the two are told apart by nothing but their names.
Symmetry == Permutations(Txs) \cup Permutations(Accounts) \cup Permutations({w1, w2})

\* Bound: of two requests that run at once both carry a key, or none does; a
\* key that nobody else gives meanwhile is not looked up by anybody else.
Runs(t) == tx'[t].pc \notin {"idle", "answered", "refused"}
Within == \A t, u \in Txs :
  Runs(t) /\ Runs(u) => (tx'[t].key = None) = (tx'[u].key = None)
=============================================================================
