SPECIFICATION EitherSpec
CONSTANTS
  Callers = {c1, c2}
  i1 = i1
  i2 = i2
  t1 = t1
  t2 = t2
  k1 = k1
  k2 = k2
  draft = draft
  active = active
  done = done
  Instances <- MCInstances
  States <- MCStates
  Keys <- MCKeys
  Tenants <- MCTenants
  Requests <- MCRequests
  Initial = draft
  Edges <- MCEdges
  Terminal <- MCTerminal
  TenantOf <- MCTenantOf
  NoKey = NoKey
  MaxFaults = 2
  MaxRevision = 3
  Absent = Absent
  NoReply = NoReply
  Sessions = {s1, s2, s3}
  StateNames <- MCStates
  StateRows <- MCStateRows
  EdgeRows <- MCEdgeRows
  MaxTransactions = 1
  NoMachine = NoMachine
CHECK_DEADLOCK FALSE
INVARIANTS RecordIsWhole PublishedIsWhole
PROPERTIES ImplementsConditionalMoves EveryCallIsAnswered CommittedIsSealed
