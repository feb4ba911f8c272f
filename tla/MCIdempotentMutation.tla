------------------------ MODULE MCIdempotentMutation ------------------------
\* Three callers, two keys and three identities for TLC.  Callers differ only
\* in what they ask, and so do keys: of the assignments that are the same but
\* for names, one stands for all.
EXTENDS IdempotentMutation, TLC

CONSTANTS c1, c2, c3, k1, k2, plain, taken, alsoTaken, slug

MCClients == {c1, c2, c3}
MCKeys == {k1, k2}
MCIdentities == {plain, taken, alsoTaken}
MCSlugs == {slug}
\* "plain" has no unique column; the two others want the same unique value.
MCSlugOf == [i \in MCIdentities |-> IF i = plain THEN NoSlug ELSE slug]

Rank(r) ==
  (k1 :> 0 @@ k2 :> 3)[r.key] + (plain :> 0 @@ taken :> 1 @@ alsoTaken :> 2)[r.identity]
OneOfEachKind ==
  /\ request[c1].key = k1
  /\ Rank(request[c1]) <= Rank(request[c2]) /\ Rank(request[c2]) <= Rank(request[c3])

CanonicalInit == Init /\ OneOfEachKind
CanonicalSpec == CanonicalInit /\ [][Next]_vars /\ \A c \in Clients : WF_vars(Step(c))
=============================================================================
