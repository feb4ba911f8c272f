------------------------ MODULE LifecycleRegistration ------------------------
(***************************************************************************)
(* How one lifecycle machine version comes to exist: its machine row, its  *)
(* states and its edges are inserted and the machine is published, by      *)
(* register_lifecycle_definition or by the schema owner's own statements,  *)
(* in any order and split over any transactions (migration 0004's          *)
(* triggers and publish_lifecycle_machine).  A statement that is refused   *)
(* aborts its transaction; the only lock is the machine row's.             *)
(***************************************************************************)
EXTENDS Naturals, FiniteSets

CONSTANTS
  Sessions,        \* connections of the schema owner
  StateRows,       \* state rows somebody may insert, records of a StateRow
  EdgeRows,        \* edges somebody may insert, records with from and to
  StateNames,           \* the names of states
  MaxTransactions, \* bound on the transactions of a session
  NoMachine           \* no such row

StateRow == [name : StateNames, initial : BOOLEAN, terminal : BOOLEAN]
EdgeRow == [from : StateNames, to : StateNames]

Xids == [session : Sessions, number : 0..MaxTransactions]
MachineRow == [by : Xids, published : BOOLEAN]

ASSUME RegistrationAssumption ==
  /\ StateRows \subseteq StateRow /\ EdgeRows \subseteq EdgeRow /\ MaxTransactions \in Nat
  /\ NoMachine \notin MachineRow

VARIABLES
  machine,  \* the committed row: NoMachine, or who inserted it and whether it is published
  states,   \* committed state rows, each with the transaction that inserted it
  edges,    \* committed edges, likewise
  tx,       \* [Sessions -> the open transaction: its number, own rows and lock]
  alive     \* [Sessions -> BOOLEAN]: the connection is still in use

registrationVars == <<machine, states, edges, tx, alive>>

Written == [row : StateRows, by : Xids]
WrittenEdge == [row : EdgeRows, by : Xids]
Transaction == [number : 0..MaxTransactions, machine : MachineRow \cup {NoMachine},
                states : SUBSET Written, edges : SUBSET WrittenEdge, locked : BOOLEAN]

Fresh(number) == [number |-> number, machine |-> NoMachine, states |-> {}, edges |-> {},
                  locked |-> FALSE]
Xid(s) == [session |-> s, number |-> tx[s].number]

\* What session s sees: what is committed, and its own rows over it.
Machine(s) == IF tx[s].machine # NoMachine THEN tx[s].machine ELSE machine
StatesSeen(s) == states \cup tx[s].states
EdgesSeen(s) == edges \cup tx[s].edges

RegistrationInit ==
  /\ machine = NoMachine /\ states = {} /\ edges = {}
  /\ tx = [s \in Sessions |-> Fresh(0)]
  /\ alive = [s \in Sessions |-> TRUE]
-----------------------------------------------------------------------------

\* SELECT ... FOR UPDATE on the machine row, which every trigger and the
\* publication take first: it waits for whoever holds it, and what it returns
\* is the row as it is then.
Locks(s) ==
  /\ alive[s]
  /\ Machine(s) # NoMachine
  /\ machine # NoMachine => \A t \in Sessions \ {s} : ~tx[t].locked

\* A machine is born a draft; a second one waits for the first one's
\* transaction and is then refused.
InsertMachine(s) ==
  /\ alive[s]
  /\ Machine(s) = NoMachine
  /\ \A t \in Sessions : tx[t].machine = NoMachine
  /\ tx' = [tx EXCEPT ![s].machine = [by |-> Xid(s), published |-> FALSE]]
  /\ UNCHANGED <<machine, states, edges, alive>>

\* Faulty variant of InsertState: nobody asks whether the graph is sealed.
InsertStateUnsealed(s, row) ==
  /\ Locks(s)
  /\ \A w \in StatesSeen(s) : w.row.name # row.name /\ ~(w.row.initial /\ row.initial)
  /\ tx' = [tx EXCEPT ![s].states = @ \cup {[row |-> row, by |-> Xid(s)]}, ![s].locked = TRUE]
  /\ UNCHANGED <<machine, states, edges, alive>>

\* A state of a draft; its name, and being the initial one, are unique.
InsertState(s, row) ==
  /\ Locks(s)
  /\ ~Machine(s).published
  /\ \A w \in StatesSeen(s) : w.row.name # row.name /\ ~(w.row.initial /\ row.initial)
  /\ tx' = [tx EXCEPT ![s].states = @ \cup {[row |-> row, by |-> Xid(s)]}, ![s].locked = TRUE]
  /\ UNCHANGED <<machine, states, edges, alive>>

\* An edge of a draft, between declared states and not out of a terminal one.
InsertEdge(s, edge) ==
  /\ Locks(s)
  /\ ~Machine(s).published
  /\ \A w \in EdgesSeen(s) : w.row # edge
  /\ \E w \in StatesSeen(s) : w.row.name = edge.from /\ ~w.row.terminal
  /\ \E w \in StatesSeen(s) : w.row.name = edge.to
  /\ tx' = [tx EXCEPT ![s].edges = @ \cup {[row |-> edge, by |-> Xid(s)]}, ![s].locked = TRUE]
  /\ UNCHANGED <<machine, states, edges, alive>>

OneInitial(graph) == Cardinality({w \in graph : w.row.initial}) = 1

\* Every end of an edge is declared, and none leaves a terminal state.
WellFormed(graph, moves) ==
  \A m \in moves : /\ \E w \in graph : w.row.name = m.row.from /\ ~w.row.terminal
                   /\ \E w \in graph : w.row.name = m.row.to

\* Faulty variant of PublishMachine: the rows may be anybody's.
PublishUnowned(s) ==
  /\ Locks(s)
  /\ ~Machine(s).published
  /\ OneInitial(StatesSeen(s)) /\ WellFormed(StatesSeen(s), EdgesSeen(s))
  /\ tx' = [tx EXCEPT ![s].machine = [Machine(s) EXCEPT !.published = TRUE], ![s].locked = TRUE]
  /\ UNCHANGED <<machine, states, edges, alive>>

\* The one update a machine row may ever have.  Every row of the definition
\* must be of the publishing transaction, and the whole graph is checked.
PublishMachine(s) ==
  /\ Locks(s)
  /\ ~Machine(s).published
  /\ Machine(s).by = Xid(s)
  /\ \A w \in StatesSeen(s) \cup EdgesSeen(s) : w.by = Xid(s)
  /\ OneInitial(StatesSeen(s)) /\ WellFormed(StatesSeen(s), EdgesSeen(s))
  /\ tx' = [tx EXCEPT ![s].machine = [Machine(s) EXCEPT !.published = TRUE], ![s].locked = TRUE]
  /\ UNCHANGED <<machine, states, edges, alive>>

\* The transaction ends and the session begins another, or stops.
Ends(s) ==
  \/ /\ tx[s].number < MaxTransactions
     /\ tx' = [tx EXCEPT ![s] = Fresh(@.number + 1)]
     /\ UNCHANGED alive
  \/ tx' = [tx EXCEPT ![s] = Fresh(@.number)] /\ alive' = [alive EXCEPT ![s] = FALSE]

\* After any statement: a connection in AUTOCOMMIT does this after each.
CommitDefinition(s) ==
  /\ alive[s]
  /\ machine' = Machine(s)
  /\ states' = StatesSeen(s) /\ edges' = EdgesSeen(s)
  /\ Ends(s)

\* A statement was refused, or the connection is lost.
AbortDefinition(s) == alive[s] /\ Ends(s) /\ UNCHANGED <<machine, states, edges>>

RegistrationNext == \E s \in Sessions :
  \/ InsertMachine(s)
  \/ \E row \in StateRows : InsertState(s, row)
  \/ \E edge \in EdgeRows : InsertEdge(s, edge)
  \/ PublishMachine(s) \/ CommitDefinition(s) \/ AbortDefinition(s)

RegistrationSpec == RegistrationInit /\ [][RegistrationNext]_registrationVars
-----------------------------------------------------------------------------
\* The variables have their types; who holds the machine's row sees one, and nobody
\* else holds it.
RegistrationTypeOK ==
  /\ machine \in MachineRow \cup {NoMachine}
  /\ states \subseteq Written /\ edges \subseteq WrittenEdge
  /\ tx \in [Sessions -> Transaction] /\ alive \in [Sessions -> BOOLEAN]
  /\ \A s, t \in Sessions :
       tx[s].locked => Machine(s) # NoMachine /\ (tx[t].locked => s = t)

Published == machine # NoMachine /\ machine.published

\* A published machine is the work of one transaction, with exactly one
\* initial state, edges only between its states and none out of a terminal one.
PublishedIsWhole ==
  Published => /\ \A w \in states \cup edges : w.by = machine.by
               /\ OneInitial(states) /\ WellFormed(states, edges)

\* Once committed a machine's row never changes: a draft is never published later,
\* its version is spent.  To a published one no state and no edge is added, by a
\* session that looked before the publication either.
CommittedIsSealed ==
  [][machine # NoMachine =>
       machine' = machine /\ (Published => UNCHANGED <<states, edges>>)]_registrationVars
=============================================================================
