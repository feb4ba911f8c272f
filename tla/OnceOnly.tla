------------------------------ MODULE OnceOnly ------------------------------
(***************************************************************************)
(* What firmbatch.control_plane.db.idempotency promises its callers: under *)
(* one idempotency key at most one attempt takes effect, every caller that *)
(* is told of an effect is told of that one, a caller that reuses the key  *)
(* for another request is told so, and none whose change took effect is    *)
(* told it was refused.  Nothing here speaks of transactions, savepoints   *)
(* or indexes.                                                             *)
(***************************************************************************)
CONSTANTS Clients, Requests, Attempts, NoReply
  \* an attempt is a record with the client that makes it

VARIABLES
  request,   \* [Clients -> Requests]: a key and the identity of the request
  effects,   \* the attempts whose change is durable
  reply      \* [Clients -> what the caller was told in the end]

vars == <<request, effects, reply>>

Result(attempt) == [kind |-> "result", of |-> attempt]
Conflict == [kind |-> "conflict"]
Refused == [kind |-> "refused"]

SameKey(c, d) == request[c].key = request[d].key

Init == /\ request \in [Clients -> Requests]
        /\ effects = {}
        /\ reply = [c \in Clients |-> NoReply]

TakeEffect(attempt) ==
  /\ \A e \in effects : ~SameKey(e.client, attempt.client)
  /\ effects' = effects \cup {attempt}
  /\ UNCHANGED <<request, reply>>

Hears(c, answer) ==
  /\ reply[c] = NoReply
  /\ reply' = [reply EXCEPT ![c] = answer]
  /\ UNCHANGED <<request, effects>>

HearResult(c) == \E e \in effects : request[e.client] = request[c] /\ Hears(c, Result(e))

HearConflict(c) ==
  /\ \E e \in effects : SameKey(e.client, c) /\ request[e.client] # request[c]
  /\ Hears(c, Conflict)

HearRefused(c) == (\A e \in effects : e.client # c) /\ Hears(c, Refused)

Next == \/ \E attempt \in Attempts : TakeEffect(attempt)
        \/ \E c \in Clients : HearResult(c) \/ HearConflict(c) \/ HearRefused(c)

Spec == Init /\ [][Next]_vars
=============================================================================
