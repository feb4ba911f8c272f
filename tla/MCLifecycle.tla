---------------------------- MODULE MCLifecycle ----------------------------
\* Two situations.  In one the machine is being registered and no instance
\* follows it yet; in the other it is published, with the graph Edges, its
\* owner's sessions are closed and instances are created and moved.  That a
\* published graph never changes (CommittedIsSealed) is what keeps them apart.
EXTENDS Lifecycle, LifecycleRegistration, TLC

CONSTANTS i1, i2, t1, t2, k1, k2, draft, active, done

MCInstances == {i1, i2}
MCStates == {draft, active, done}
MCKeys == {k1, k2}
MCTenants == {t1, t2}

\* A machine with a cycle and a terminal state.
MCEdges == {<<draft, active>>, <<active, draft>>, <<active, done>>}
MCTerminal == {done}
MCTenantOf == [i \in MCInstances |-> t1]

Ask(t, i, from, revision, to, key) ==
  [tenant |-> t, instance |-> i, state |-> from, revision |-> revision,
   target |-> to, key |-> key]

\* The same move under a key, under another and under none; the next move,
\* under the first move's key or a fresh one; the same key for another
\* instance; a move that is no edge; and another tenant's attempt.
MCRequests == {
  Ask(t1, i1, draft, 0, active, k1),
  Ask(t1, i1, draft, 0, active, k2),
  Ask(t1, i1, draft, 0, active, NoKey),
  Ask(t1, i1, active, 1, draft, k1),
  Ask(t1, i1, active, 1, done, k2),
  Ask(t1, i2, draft, 0, active, k1),
  Ask(t1, i1, active, 1, active, NoKey),
  Ask(t2, i1, draft, 0, active, k1)}

\* "done" may be inserted as a terminal state, as an ordinary one, or as a
\* second initial one; "active" only once the machine below is registered.
InsertedState(name, initial, terminal) ==
  [name |-> name, initial |-> initial, terminal |-> terminal]
Attempted == {InsertedState(draft, TRUE, FALSE), InsertedState(done, FALSE, TRUE),
              InsertedState(done, TRUE, FALSE)}
MCStateRows == Attempted \cup {InsertedState(active, FALSE, FALSE)}
MCEdgeRows == {[from |-> draft, to |-> done], [from |-> done, to |-> draft]}
                \cup {[from |-> e[1], to |-> e[2]] : e \in MCEdges}

\* The whole machine, inserted and published by one transaction.
Registered(by) ==
  /\ machine = [by |-> by, published |-> TRUE]
  /\ states = {[row |-> r, by |-> by] : r \in {InsertedState(draft, TRUE, FALSE),
                  InsertedState(active, FALSE, FALSE), InsertedState(done, FALSE, TRUE)}}
  /\ edges = {[row |-> [from |-> e[1], to |-> e[2]], by |-> by] : e \in MCEdges}
  /\ tx = [s \in Sessions |-> Fresh(0)]
  /\ alive = [s \in Sessions |-> FALSE]

EitherInit ==
  /\ Init
  /\ \/ RegistrationInit /\ request = [c \in Callers |-> CHOOSE r \in Requests : TRUE]
     \/ Registered([session |-> CHOOSE s \in Sessions : TRUE, number |-> 0])

\* Instances follow the machine whose graph is published.
Instantiable == Published /\ {<<w.row.from, w.row.to>> : w \in edges} = Edges

EitherNext ==
  \/ /\ RegistrationNext
     /\ \A s \in Sessions : /\ {w.row : w \in tx'[s].states} \subseteq Attempted
                            /\ {<<w.row.from, w.row.to>> : w \in tx'[s].edges} \cap Edges = {}
     /\ UNCHANGED vars
  \/ /\ Next
     /\ Instantiable \/ (UNCHANGED <<instance, try>>)
     /\ UNCHANGED registrationVars

EitherSpec ==
  /\ EitherInit /\ [][EitherNext]_<<vars, registrationVars>>
  /\ \A c \in Callers : WF_vars(Step(c) /\ UNCHANGED registrationVars)
=============================================================================
