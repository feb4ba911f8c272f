-------------------------- MODULE MCLeaseProtocol --------------------------
EXTENDS LeaseProtocol, TLC

\* Worker ids are interchangeable: nothing orders or names them.
Symmetry == Permutations(Workers)

\* Bound: a job is cancelled or something fails, not both.
Within == jobStatus' = "cancelled" => faults' = 0
=============================================================================
