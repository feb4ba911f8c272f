------------------------------ MODULE AuthProofs ------------------------------
(***************************************************************************)
(* Proofs about AuthContext, for any sessions, backends, credentials and   *)
(* bounds: nobody speaks as another transaction did, an identity map holds *)
(* nobody else's rows, a dead credential acquires nothing, and what is     *)
(* committed is AuthorityBook.                                             *)
(***************************************************************************)
EXTENDS AuthContext, TLAPS

-----------------------------------------------------------------------------
(***************************************************************************)
(* The inductive invariant                                                 *)
(***************************************************************************)
Own(s) == tx[s].own

\* What one layer of a transaction, its present one or a savepoint's, has
\* written: all of it as one identity, and what that identity may.
Rightful(r, o) ==
  /\ o.context # None /\ r.by = o.context /\ r.tenant = o.context.tenant
  /\ r.kind = "tenant" => o.context.binding = None
  /\ r.kind = "binding" =>
       /\ r.scopes \subseteq DelegableScopes
       /\ o.context.binding # None => r.scopes \subseteq o.context.scopes
       /\ \A d \in Kind(book, "binding") : d.id # r.id
  /\ r.kind = "revocation" =>
       \E d \in book \cup o.records : d.kind = "binding" /\ d.id = r.id /\ d.tenant = o.context.tenant
Layer(s, o) ==
  /\ o.context # None => HasXid(s) /\ tx[s].level = "read committed"
  /\ \A r \in o.records : Rightful(r, o)

\* A savepoint's layer lies within the layers above it.
Within(a, b) == a.records \subseteq b.records /\ (a.context # None => b.context = a.context)
Nested(s) ==
  \A k \in 1..Len(tx[s].saves) :
    /\ Layer(s, tx[s].saves[k])
    /\ Within(tx[s].saves[k], Own(s))
    /\ \A j \in 1..k : Within(tx[s].saves[j], tx[s].saves[k])

\* Who the transaction is, it is by a row of the book, or by a tenant nobody has.
Authentic(s) ==
  Own(s).context # None =>
    IF Own(s).context.binding = None
      THEN \A r \in book : r.tenant # Own(s).context.tenant
      ELSE \E e \in book : /\ e.kind = "binding" /\ e.id = Own(s).context.binding
                           /\ e.tenant = Own(s).context.tenant /\ e.scopes = Own(s).context.scopes

\* No row of the context relation carries the transaction's id.
Unheard(s) ==
  /\ tx[s].xid < nextXid
  /\ HasXid(s) => \A p \in Backends : relation[p].xid # tx[s].xid

MapIsMine(s) ==
  \A t \in map[s] : tx[s].overtaken \/ (Own(s).context # None /\ Own(s).context.tenant = t)

SessionOK(s) ==
  /\ Unheard(s) /\ Layer(s, Own(s)) /\ Nested(s) /\ Authentic(s) /\ MapIsMine(s)
  /\ privileged => tx[s].overtaken

\* Two open transactions have their own ids, tenants to provision and bindings.
Apart(s, r) ==
  /\ HasXid(s) => tx[s].xid # tx[r].xid
  /\ Own(s).context # None /\ Own(s).context.binding = None /\ Own(r).context # None =>
       Own(s).context.tenant # Own(r).context.tenant
  /\ \A d \in Kind(Own(s).records, "binding"), e \in Kind(Own(r).records, "binding") : d.id # e.id

\* The same of what a layer of s would be beside session r.
LayerApart(o, r) ==
  /\ o.context # None /\ Own(r).context # None
     /\ (o.context.binding = None \/ Own(r).context.binding = None) =>
       o.context.tenant # Own(r).context.tenant
  /\ \A d \in Kind(o.records, "binding"), e \in Kind(Own(r).records, "binding") : d.id # e.id

IInv ==
  /\ TypeOK
  /\ \A p \in Backends : relation[p].xid < nextXid
  /\ \A r \in Kind(book, "binding") : r.scopes \subseteq DelegableScopes
  /\ \A s \in Sessions : IF Open(s) THEN SessionOK(s) ELSE map[s] = {}
  /\ \A s, r \in Sessions : s # r /\ Open(s) /\ Open(r) => Apart(s, r)

-----------------------------------------------------------------------------
LEMMA IdleIsNoTransaction == NoTransaction \notin Transaction
BY NoneAssumption DEF NoTransaction, Transaction

LEMMA OpenType ==
  ASSUME TypeOK, NEW s \in Sessions, Open(s)
  PROVE  /\ tx[s] \in Transaction /\ tx[s].xid \in Nat /\ Own(s) \in Written
         /\ tx[s].saves \in Seq(Written) /\ nextXid \in Nat /\ tx[s].on \in Backends
         /\ \A p \in Backends : relation[p].xid \in Nat
BY BoundsAssumption DEF TypeOK, Open, Transaction, Own, ContextRow

LEMMA InitIInv == Init => IInv
<1> SUFFICES ASSUME Init PROVE IInv
  OBVIOUS
<1>1. TypeOK
  <2>1. relation \in [Backends -> ContextRow]
    BY BoundsAssumption DEF Init, NoRow, ContextRow
  <2>2. nextXid \in 1..MaxXid + 1 /\ durable \in 0..MaxXid /\ durable < nextXid
    BY BoundsAssumption DEF Init
  <2>3. tx \in [Sessions -> {NoTransaction} \union Transaction] /\ map \in [Sessions -> SUBSET Tenants]
    BY DEF Init
  <2>4. QED
    BY <2>1, <2>2, <2>3 DEF Init, TypeOK
<1>2. /\ \A p \in Backends : relation[p].xid < nextXid
      /\ \A s \in Sessions : ~Open(s) /\ map[s] = {}
      /\ book = {}
  BY DEF Init, NoRow, Open
<1>3. QED
  BY <1>1, <1>2 DEF IInv, Kind

LEMMA ContextIsOwn ==
  ASSUME IInv, NEW s \in Sessions, Open(s)
  PROVE  Context(s) = Own(s).context
<1>1. SessionOK(s) /\ tx[s].on \in Backends /\ tx[s].xid \in Nat
  BY OpenType DEF IInv
<1>2. QED
  BY <1>1 DEF SessionOK, Unheard, HasXid, Context, Own

-----------------------------------------------------------------------------
(***************************************************************************)
(* Steps of one session                                                    *)
(***************************************************************************)

\* What is said of a session only reads its own transaction and what is stored.
LEMMA StaysOK ==
  ASSUME NEW r \in Sessions, SessionOK(r), UNCHANGED <<book, relation, privileged>>,
         tx'[r] = tx[r], map'[r] = map[r], tx[r].xid < nextXid'
  PROVE  SessionOK(r)'
<1>1. /\ Own(r)' = Own(r) /\ HasXid(r)' = HasXid(r)
  BY DEF Own, HasXid
<1>2. \A o : Layer(r, o) => Layer(r, o)'
  BY <1>1 DEF Layer, Rightful, Kind
<1>3. Layer(r, Own(r))' /\ Nested(r)'
  <2>1. \A k \in 1..Len(tx[r].saves) : Layer(r, tx[r].saves[k])
    BY DEF SessionOK, Nested
  <2>2. \A o : o = Own(r) => Layer(r, o)'
    BY <1>2 DEF SessionOK
  <2>3. \A k \in 1..Len(tx[r].saves) : \A o : o = tx[r].saves[k] => Layer(r, o)'
    BY <1>2, <2>1
  <2>4. QED
    BY <1>1, <2>2, <2>3 DEF SessionOK, Nested, Within
<1>4. QED
  BY <1>1, <1>3 DEF SessionOK, Unheard, Authentic, MapIsMine

\* A step of one session: what it must establish.
LEMMA SessionStep ==
  ASSUME IInv, TypeOK', NEW s \in Sessions, NEW t \in Transaction, tx' = [tx EXCEPT ![s] = t],
         UNCHANGED <<book, relation, privileged>>, nextXid <= nextXid',
         \A r \in Sessions \ {s} : map'[r] = map[r],
         SessionOK(s)',
         \A r \in Sessions \ {s} : Open(r) => Apart(s, r)' /\ Apart(r, s)'
  PROVE  IInv'
<1>1. /\ \A r \in Sessions : tx'[r] = IF r = s THEN t ELSE tx[r]
      /\ nextXid \in Nat /\ nextXid' \in Nat
      /\ \A p \in Backends : relation[p].xid \in Nat
  BY BoundsAssumption DEF IInv, TypeOK, ContextRow
<1>2. Open(s)' /\ \A r \in Sessions \ {s} : Open(r)' = Open(r)
  BY <1>1, IdleIsNoTransaction DEF Open
<1>3. \A p \in Backends : relation'[p].xid < nextXid'
  BY <1>1 DEF IInv
<1>4. ASSUME NEW r \in Sessions \ {s}, Open(r) PROVE SessionOK(r)'
  <2>1. tx[r].xid < nextXid /\ tx[r].xid \in Nat /\ SessionOK(r)
    BY <1>4, OpenType DEF IInv, SessionOK, Unheard
  <2>2. QED
    BY <1>1, <2>1, StaysOK
<1>5. \A r \in Sessions : IF Open(r)' THEN SessionOK(r)' ELSE map'[r] = {}
  BY <1>2, <1>4 DEF IInv
<1>6. \A r, q \in Sessions : r # q /\ Open(r)' /\ Open(q)' => Apart(r, q)'
  <2>1. \A r, q \in Sessions \ {s} : Apart(r, q) => Apart(r, q)'
    BY <1>1 DEF Apart, HasXid, Own, Kind
  <2>2. QED
    BY <1>2, <2>1 DEF IInv
<1>7. \A r \in Kind(book, "binding")' : r.scopes \subseteq DelegableScopes
  BY DEF IInv, Kind
<1>8. QED
  BY <1>3, <1>5, <1>6, <1>7 DEF IInv

LEMMA BeginKeepsIInv ==
  ASSUME IInv, NEW s \in Sessions, Begin(s)
  PROVE  IInv'
<1>1. PICK p \in Backends, level \in Level :
        /\ ~Open(s) /\ ~privileged
        /\ tx' = [tx EXCEPT ![s] = Begun(p, level)]
        /\ UNCHANGED <<book, relation, nextXid, durable, expired, privileged, map>>
  BY DEF Begin, Changes, RevalidateOnCheckout, Unprivileged
<1>2. UNCHANGED <<book, relation, nextXid, durable, expired, privileged, map>> /\ ~Open(s) /\ ~privileged
  BY <1>1
<1>3. PICK t : t = Begun(p, level)
  OBVIOUS
<1>4. /\ t.xid = 0 /\ t.own = Nothing /\ t.saves = <<>> /\ Nothing.records = {} /\ Nothing.context = None
  BY <1>3 DEF Begun, Nothing
<1>5. t \in Transaction
  <2>1. Nothing \in Written /\ book \subseteq Records /\ 0 \in 0..MaxXid /\ <<>> \in Seq(Written)
    BY BoundsAssumption DEF IInv, TypeOK, Nothing, Written
  <2>2. QED
    BY <1>3, <2>1 DEF Begun, Transaction
<1>6. tx' = [tx EXCEPT ![s] = t] /\ tx'[s] = t
  BY <1>1, <1>3 DEF IInv, TypeOK
<1>7. TypeOK'
  <2>1. tx' \in [Sessions -> {NoTransaction} \cup Transaction]
    BY <1>5, <1>6 DEF IInv, TypeOK
  <2>2. QED
    BY <1>2, <2>1 DEF IInv, TypeOK
<1>8. nextXid <= nextXid' /\ 0 < nextXid /\ map[s] = {}
  <2>1. nextXid \in 1..MaxXid + 1 /\ map[s] = {}
    BY <1>2 DEF IInv, TypeOK
  <2>2. QED
    BY <1>2, <2>1, BoundsAssumption
<1>9. SessionOK(s)'
  <2>1. Unheard(s)' /\ Layer(s, Own(s))' /\ Authentic(s)'
    BY <1>2, <1>4, <1>6, <1>8 DEF Unheard, HasXid, Layer, Own, Authentic
  <2>2. Nested(s)'
    BY <1>4, <1>6 DEF Nested
  <2>3. QED
    BY <1>2, <1>8, <2>1, <2>2 DEF SessionOK, MapIsMine
<1>10. ASSUME NEW r \in Sessions \ {s}, Open(r) PROVE Apart(s, r)' /\ Apart(r, s)'
  <2>1. tx'[r] = tx[r] /\ Own(s)'.records = {} /\ Own(s)'.context = None /\ tx'[s].xid = 0
    BY <1>4, <1>6 DEF Own
  <2>2. QED
    BY <2>1 DEF Apart, HasXid, Kind
<1>11. QED
  BY <1>2, <1>5, <1>6, <1>7, <1>8, <1>9, <1>10, SessionStep

\* A step inside an open transaction, which keeps its id or takes the next one.
LEMMA ChangeStep ==
  ASSUME IInv, NEW s \in Sessions, Open(s), NEW t \in Transaction, tx' = [tx EXCEPT ![s] = t],
         UNCHANGED <<book, relation, durable, expired, privileged>>,
         t.overtaken = tx[s].overtaken,
         \/ t.xid = tx[s].xid /\ nextXid' = nextXid
         \/ tx[s].xid = 0 /\ t.xid = nextXid /\ nextXid <= MaxXid /\ nextXid' = nextXid + 1,
         map' \in [Sessions -> SUBSET Tenants], \A r \in Sessions \ {s} : map'[r] = map[r],
         \A x \in map'[s] : t.overtaken \/ (t.own.context # None /\ t.own.context.tenant = x),
         Layer(s, t.own)', Nested(s)', Authentic(s)',
         \A r \in Sessions \ {s} : Open(r) => LayerApart(t.own, r)
  PROVE  IInv'
<1>1. /\ tx'[s] = t /\ \A r \in Sessions \ {s} : tx'[r] = tx[r]
      /\ nextXid \in Nat /\ nextXid \in 1..MaxXid + 1 /\ durable < nextXid /\ durable \in 0..MaxXid
      /\ tx[s].xid \in Nat /\ \A p \in Backends : relation[p].xid \in Nat /\ relation[p].xid < nextXid
  <2>1. tx'[s] = t /\ \A r \in Sessions \ {s} : tx'[r] = tx[r]
    BY DEF IInv, TypeOK
  <2>2. /\ nextXid \in Nat /\ nextXid \in 1..MaxXid + 1 /\ durable < nextXid /\ durable \in 0..MaxXid
        /\ tx[s].xid \in Nat
    BY OpenType DEF IInv, TypeOK
  <2>3. \A p \in Backends : relation[p].xid \in Nat /\ relation[p].xid < nextXid
    BY OpenType DEF IInv
  <2>4. QED
    BY <2>1, <2>2, <2>3
<1>2. nextXid <= nextXid' /\ nextXid' \in 1..MaxXid + 1 /\ durable < nextXid'
  BY <1>1, BoundsAssumption
<1>3. TypeOK'
  <2>1. tx' \in [Sessions -> {NoTransaction} \cup Transaction]
    BY DEF IInv, TypeOK
  <2>2. QED
    BY <1>1, <1>2, <2>1 DEF IInv, TypeOK
<1>4. SessionOK(s)
  BY DEF IInv
<1>5. Unheard(s)'
  <2>1. t.xid < nextXid'
    BY <1>1, <1>2, <1>4 DEF SessionOK, Unheard
  <2>2. t.xid # 0 => \A p \in Backends : relation[p].xid # t.xid
    BY <1>1, <1>4 DEF SessionOK, Unheard, HasXid
  <2>3. QED
    BY <1>1, <2>1, <2>2 DEF Unheard, HasXid
<1>6. SessionOK(s)'
  BY <1>1, <1>4, <1>5 DEF SessionOK, MapIsMine, Own
<1>7. ASSUME NEW r \in Sessions \ {s}, Open(r) PROVE Apart(s, r)' /\ Apart(r, s)'
  <2> USE DEF LayerApart
  <2>1. Apart(s, r) /\ Apart(r, s) /\ tx[r].xid \in Nat /\ tx[r].xid < nextXid
    BY <1>7, OpenType DEF IInv, SessionOK, Unheard
  <2>2. (t.xid # 0 \/ tx[r].xid # 0) => t.xid # tx[r].xid
    BY <1>1, <2>1 DEF Apart, HasXid
  <2>3. QED
    BY <1>1, <1>7, <2>2 DEF Apart, HasXid, Own
<1>8. QED
  BY <1>1, <1>2, <1>3, <1>6, <1>7, SessionStep

\* What is said of a layer of s after a step that keeps the book.
LEMMA LayerStays ==
  ASSUME NEW s, NEW o, Layer(s, o), book' = book, tx'[s].level = tx[s].level,
         HasXid(s) => HasXid(s)'
  PROVE  Layer(s, o)'
BY DEF Layer, Rightful, Kind

\* The identity of a transaction and its bindings among the others'.
LEMMA StillApart ==
  ASSUME IInv, NEW s \in Sessions, Open(s), NEW o, Within(o, Own(s)), NEW r \in Sessions \ {s}, Open(r)
  PROVE  LayerApart(o, r)
<1>1. Apart(s, r) /\ Apart(r, s)
  BY DEF IInv
<1>2. QED
  BY <1>1 DEF Apart, Within, Kind, LayerApart

\* The savepoints of a transaction after a step.
LEMMA NestedStep ==
  ASSUME NEW s, NEW t, tx'[s] = t,
         \A k \in 1..Len(t.saves) :
           /\ Layer(s, t.saves[k])'
           /\ Within(t.saves[k], t.own)
           /\ \A j \in 1..k : Within(t.saves[j], t.saves[k])
  PROVE  Nested(s)'
BY DEF Nested, Own, Within

LEMMA SavepointKeepsIInv ==
  ASSUME IInv, NEW s \in Sessions, Savepoint(s)
  PROVE  IInv'
<1>1. /\ Open(s) /\ UNCHANGED <<book, relation, nextXid, durable, expired, privileged, map>>
      /\ tx' = [tx EXCEPT ![s] = [tx[s] EXCEPT !.saves = Append(@, tx[s].own)]]
  BY DEF Savepoint, Changes
<1>2. SessionOK(s) /\ tx[s] \in Transaction /\ tx[s].saves \in Seq(Written) /\ tx[s].own \in Written
  BY <1>1, OpenType DEF IInv, Own
<1>3. PICK t : t = [tx[s] EXCEPT !.saves = Append(@, tx[s].own)]
  OBVIOUS
<1>4. /\ t \in Transaction /\ t.own = tx[s].own /\ t.xid = tx[s].xid /\ t.level = tx[s].level
      /\ t.overtaken = tx[s].overtaken /\ t.saves = Append(tx[s].saves, tx[s].own)
  <2>1. Append(tx[s].saves, tx[s].own) \in Seq(Written)
    BY <1>2
  <2>2. QED
    BY <1>2, <1>3, <2>1 DEF Transaction
<1>5. tx' = [tx EXCEPT ![s] = t] /\ tx'[s] = t
  BY <1>1, <1>3 DEF IInv, TypeOK
<1>6. Own(s)' = Own(s) /\ HasXid(s)' = HasXid(s) /\ tx'[s].level = tx[s].level
  BY <1>4, <1>5 DEF Own, HasXid
<1>7. \A o : Layer(s, o) => Layer(s, o)'
  BY <1>1, <1>6, LayerStays
<1>8. Layer(s, t.own)'
  BY <1>2, <1>4, <1>7 DEF SessionOK, Own
<1>9. Nested(s)'
  <2> DEFINE n == Len(tx[s].saves)
  <2>1. /\ n \in Nat /\ Len(t.saves) = n + 1 /\ t.saves[n + 1] = tx[s].own
        /\ \A k \in 1..n : t.saves[k] = tx[s].saves[k]
    BY <1>2, <1>4
  <2>2. \A k \in 1..n : /\ Layer(s, t.saves[k]) /\ Within(t.saves[k], tx[s].own)
                        /\ \A j \in 1..k : Within(t.saves[j], t.saves[k])
    BY <1>2, <2>1 DEF SessionOK, Nested, Own
  <2>3. Layer(s, tx[s].own) /\ Within(tx[s].own, tx[s].own)
    BY <1>2 DEF SessionOK, Own, Within
  <2>4. \A k \in 1..(n + 1) : /\ Layer(s, t.saves[k]) /\ Within(t.saves[k], tx[s].own)
                              /\ \A j \in 1..k : Within(t.saves[j], t.saves[k])
    <3> SUFFICES ASSUME NEW k \in 1..(n + 1)
                 PROVE  /\ Layer(s, t.saves[k]) /\ Within(t.saves[k], tx[s].own)
                        /\ \A j \in 1..k : Within(t.saves[j], t.saves[k])
      OBVIOUS
    <3>1. CASE k \in 1..n
      BY <2>2, <3>1
    <3>2. CASE k = n + 1
      <4>1. \A j \in 1..k : j \in 1..n \/ j = n + 1
        BY <2>1, <3>2
      <4>2. QED
        BY <2>1, <2>2, <2>3, <3>2, <4>1
    <3>3. k \in 1..n \/ k = n + 1
      BY <2>1
    <3>4. QED
      BY <3>1, <3>2, <3>3
  <2>5. \A k \in 1..(n + 1) : Layer(s, t.saves[k])'
    BY <1>7, <2>4
  <2>6. QED
    BY <1>4, <1>5, <2>1, <2>4, <2>5, NestedStep
<1>10. Authentic(s)'
  BY <1>1, <1>2, <1>6 DEF SessionOK, Authentic
<1>11. \A x \in map'[s] : t.overtaken \/ (t.own.context # None /\ t.own.context.tenant = x)
  BY <1>1, <1>2, <1>4 DEF SessionOK, MapIsMine, Own
<1>12. \A r \in Sessions \ {s} : Open(r) => LayerApart(t.own, r)
  <2>1. Within(t.own, Own(s))
    BY <1>4 DEF Own, Within
  <2>2. QED
    BY <1>1, <2>1, StillApart
<1>13. map' \in [Sessions -> SUBSET Tenants] /\ \A r \in Sessions \ {s} : map'[r] = map[r]
  BY <1>1 DEF IInv, TypeOK
<1>14. QED
  BY <1>1, <1>4, <1>5, <1>8, <1>9, <1>10, <1>11, <1>12, <1>13, ChangeStep

LEMMA EndSavepointKeepsIInv ==
  ASSUME IInv, NEW s \in Sessions, NEW o, EndSavepoint(s, o),
         o = Own(s) \/ o = tx[s].saves[Len(tx[s].saves)]
  PROVE  IInv'
<1>1. /\ Open(s) /\ tx[s].saves # <<>> /\ UNCHANGED <<book, relation, nextXid, durable, expired, privileged>>
      /\ map' = [map EXCEPT ![s] = {}]
      /\ tx' = [tx EXCEPT ![s] =
           [tx[s] EXCEPT !.own = o, !.saves = SubSeq(@, 1, Len(tx[s].saves) - 1)]]
  BY DEF EndSavepoint, Changes, Cleared
<1>2. SessionOK(s) /\ tx[s] \in Transaction /\ tx[s].saves \in Seq(Written) /\ tx[s].own \in Written
  BY <1>1, OpenType DEF IInv, Own
<1> DEFINE n == Len(tx[s].saves)
<1>3. /\ n \in Nat /\ n > 0 /\ n \in 1..n /\ SubSeq(tx[s].saves, 1, n - 1) \in Seq(Written)
      /\ Len(SubSeq(tx[s].saves, 1, n - 1)) = n - 1 /\ tx[s].saves[n] \in Written
      /\ \A k \in 1..(n - 1) : SubSeq(tx[s].saves, 1, n - 1)[k] = tx[s].saves[k] /\ k \in 1..n
  BY <1>1, <1>2
<1>4. PICK t : t = [tx[s] EXCEPT !.own = o, !.saves = SubSeq(@, 1, n - 1)]
  OBVIOUS
<1>5. /\ t \in Transaction /\ t.own = o /\ t.xid = tx[s].xid /\ t.level = tx[s].level
      /\ t.overtaken = tx[s].overtaken /\ t.saves = SubSeq(tx[s].saves, 1, n - 1)
  <2>1. o \in Written
    BY <1>2, <1>3 DEF Own
  <2>2. QED
    BY <1>2, <1>3, <1>4, <2>1 DEF Transaction
<1>6. tx' = [tx EXCEPT ![s] = t] /\ tx'[s] = t
  BY <1>1, <1>4 DEF IInv, TypeOK
<1>7. Own(s)' = o /\ HasXid(s)' = HasXid(s) /\ tx'[s].level = tx[s].level
  BY <1>5, <1>6 DEF Own, HasXid
<1>8. \A q : Layer(s, q) => Layer(s, q)'
  BY <1>1, <1>7, LayerStays
<1>9. /\ Layer(s, o) /\ Within(o, Own(s))
      /\ \A k \in 1..(n - 1) : /\ Layer(s, tx[s].saves[k]) /\ Within(tx[s].saves[k], o)
                               /\ \A j \in 1..k : Within(tx[s].saves[j], tx[s].saves[k])
  <2>1. CASE o = Own(s)
    BY <1>2, <1>3, <2>1 DEF SessionOK, Nested, Within
  <2>2. CASE o = tx[s].saves[n]
    <3>1. \A k \in 1..(n - 1) : k \in 1..n
      BY <1>3
    <3>2. QED
      BY <1>2, <1>3, <2>2, <3>1 DEF SessionOK, Nested
  <2>3. QED
    BY <2>1, <2>2
<1>10. Layer(s, t.own)'
  BY <1>5, <1>8, <1>9
<1>11. Nested(s)'
  <2>1. \A k \in 1..Len(t.saves) : t.saves[k] = tx[s].saves[k] /\ k \in 1..(n - 1)
    BY <1>3, <1>5
  <2>2. \A k \in 1..Len(t.saves) : Layer(s, t.saves[k])' /\ Within(t.saves[k], t.own)
    BY <1>5, <1>8, <1>9, <2>1
  <2>3. \A k \in 1..Len(t.saves) : \A j \in 1..k : Within(t.saves[j], t.saves[k])
    <3>1. \A k \in 1..Len(t.saves) : \A j \in 1..k : j \in 1..Len(t.saves)
      BY <1>3, <1>5
    <3>2. QED
      BY <1>9, <2>1, <3>1
  <2>4. QED
    BY <1>6, <2>2, <2>3, NestedStep
<1>12. Authentic(s)'
  <2>1. o.context = None \/ o.context = Own(s).context
    BY <1>9 DEF Within
  <2>2. QED
    BY <1>1, <1>2, <1>7, <2>1 DEF SessionOK, Authentic
<1>13. /\ \A x \in map'[s] : t.overtaken \/ (t.own.context # None /\ t.own.context.tenant = x)
       /\ map' \in [Sessions -> SUBSET Tenants] /\ \A r \in Sessions \ {s} : map'[r] = map[r]
  BY <1>1 DEF IInv, TypeOK
<1>14. \A r \in Sessions \ {s} : Open(r) => LayerApart(t.own, r)
  BY <1>1, <1>5, <1>9, StillApart
<1>15. QED
  BY <1>1, <1>5, <1>6, <1>10, <1>11, <1>12, <1>13, <1>14, ChangeStep

LEMMA AssignXidKeepsIInv ==
  ASSUME IInv, NEW s \in Sessions, AssignXid(s)
  PROVE  IInv'
<1>1. /\ Open(s) /\ tx[s].xid = 0 /\ nextXid <= MaxXid /\ nextXid' = nextXid + 1
      /\ UNCHANGED <<book, relation, durable, expired, privileged, map>>
      /\ tx' = [tx EXCEPT ![s] = [tx[s] EXCEPT !.xid = nextXid]]
  BY DEF AssignXid, Changes, TakesXid, HasXid
<1>2. SessionOK(s) /\ tx[s] \in Transaction /\ nextXid \in 0..MaxXid
  <2>1. nextXid \in 1..MaxXid + 1
    BY DEF IInv, TypeOK
  <2>2. QED
    BY <1>1, <2>1, OpenType, BoundsAssumption DEF IInv
<1>3. PICK t : t = [tx[s] EXCEPT !.xid = nextXid]
  OBVIOUS
<1>4. /\ t \in Transaction /\ t.own = tx[s].own /\ t.xid = nextXid /\ t.level = tx[s].level
      /\ t.overtaken = tx[s].overtaken /\ t.saves = tx[s].saves
  BY <1>2, <1>3 DEF Transaction
<1>5. tx' = [tx EXCEPT ![s] = t] /\ tx'[s] = t
  BY <1>1, <1>3 DEF IInv, TypeOK
<1>6. Own(s)' = Own(s) /\ tx'[s].level = tx[s].level /\ ~HasXid(s)
  BY <1>1, <1>4, <1>5 DEF Own, HasXid
<1>7. \A q : Layer(s, q) => Layer(s, q)'
  BY <1>1, <1>6, LayerStays
<1>8. Layer(s, t.own)' /\ Nested(s)'
  <2>1. Layer(s, t.own)'
    BY <1>2, <1>4, <1>7 DEF SessionOK, Own
  <2>2. \A k \in 1..Len(t.saves) : Layer(s, t.saves[k])'
    BY <1>2, <1>4, <1>7 DEF SessionOK, Nested
  <2>3. QED
    BY <1>2, <1>4, <1>5, <2>1, <2>2, NestedStep DEF SessionOK, Nested, Own
<1>9. Authentic(s)'
  BY <1>1, <1>2, <1>6 DEF SessionOK, Authentic
<1>10. /\ \A x \in map'[s] : t.overtaken \/ (t.own.context # None /\ t.own.context.tenant = x)
       /\ map' \in [Sessions -> SUBSET Tenants] /\ \A r \in Sessions \ {s} : map'[r] = map[r]
  BY <1>1, <1>2, <1>4 DEF IInv, TypeOK, SessionOK, MapIsMine, Own
<1>11. \A r \in Sessions \ {s} : Open(r) => LayerApart(t.own, r)
  <2>1. Within(t.own, Own(s))
    BY <1>4 DEF Own, Within
  <2>2. QED
    BY <1>1, <2>1, StillApart
<1>12. QED
  BY <1>1, <1>4, <1>5, <1>8, <1>9, <1>10, <1>11, ChangeStep

LEMMA LoadKeepsIInv ==
  ASSUME IInv, NEW s \in Sessions, Load(s)
  PROVE  IInv'
<1>1. /\ Open(s) /\ UNCHANGED <<book, relation, nextXid, durable, expired, privileged, tx>>
  BY DEF Load
<1>2. PICK shown \in SUBSET Tenants :
        /\ map' = [map EXCEPT ![s] = @ \cup shown]
        /\ ~privileged => \A t \in shown : Context(s) # None /\ Context(s).tenant = t
  <2>1. Seen(s) \subseteq Records
    <3>1. tx[s] \in Transaction /\ book \subseteq Records
      BY <1>1, OpenType DEF IInv, TypeOK
    <3>2. tx[s].own.records \subseteq Records /\ tx[s].snapshot \subseteq Records
      BY <3>1 DEF Transaction, Written
    <3>3. QED
      BY <3>1, <3>2 DEF Seen
  <2> DEFINE all == {r.tenant : r \in Kind(Seen(s), "workspace")}
             loaded == IF ~Unprivileged THEN all
                      ELSE {t \in all : Permits(s, "workspaces", "SELECT") /\ t = Context(s).tenant}
  <2>2. all \subseteq Tenants
    BY <2>1 DEF Kind, Records
  <2>3. map' = [map EXCEPT ![s] = @ \cup loaded]
    BY DEF Load
  <2>4. ~privileged => \A t \in loaded : Context(s) # None /\ Context(s).tenant = t
    <3>1. Permits(s, "workspaces", "SELECT") => Context(s) # None
      BY DEF Permits, Holds
    <3>2. QED
      BY <3>1 DEF Unprivileged
  <2>5. loaded \in SUBSET Tenants
    BY <2>2
  <2> HIDE DEF loaded
  <2>6. QED
    BY <2>3, <2>4, <2>5
<1>3. SessionOK(s) /\ Context(s) = Own(s).context /\ tx[s] \in Transaction
  BY <1>1, ContextIsOwn, OpenType DEF IInv
<1>4. map' \in [Sessions -> SUBSET Tenants] /\ map'[s] = map[s] \cup shown
      /\ \A r \in Sessions \ {s} : map'[r] = map[r]
  BY <1>2 DEF IInv, TypeOK
<1>5. PICK t : t = tx[s]
  OBVIOUS
<1>6. /\ tx' = [tx EXCEPT ![s] = t] /\ tx'[s] = t /\ Own(s)' = Own(s) /\ t.own = Own(s)
      /\ \A q : Layer(s, q) => Layer(s, q)'
  <2>1. tx' = [tx EXCEPT ![s] = t] /\ tx'[s] = t /\ Own(s)' = Own(s) /\ t.own = Own(s)
    BY <1>1, <1>5 DEF IInv, TypeOK, Own
  <2>2. QED
    BY <1>1, <2>1, LayerStays DEF HasXid
<1>7. Layer(s, t.own)' /\ Nested(s)'
  <2>1. Layer(s, t.own)'
    BY <1>3, <1>6 DEF SessionOK
  <2>2. \A k \in 1..Len(t.saves) : Layer(s, t.saves[k])'
    BY <1>3, <1>5, <1>6 DEF SessionOK, Nested
  <2>3. QED
    BY <1>3, <1>5, <1>6, <2>1, <2>2, NestedStep DEF SessionOK, Nested, Own
<1>8. Authentic(s)'
  BY <1>1, <1>3, <1>6 DEF SessionOK, Authentic
<1>9. \A r \in Sessions \ {s} : Open(r) => LayerApart(t.own, r)
  <2>1. Within(t.own, Own(s))
    BY <1>6 DEF Within
  <2>2. QED
    BY <1>1, <2>1, StillApart
<1>10. \A x \in map'[s] : t.overtaken \/ (t.own.context # None /\ t.own.context.tenant = x)
  BY <1>2, <1>3, <1>4, <1>5, <1>6 DEF SessionOK, MapIsMine
<1>11. QED
  BY <1>1, <1>3, <1>4, <1>5, <1>6, <1>7, <1>8, <1>9, <1>10, ChangeStep

\* A context acquired by one whose identity is true and nobody else's.
LEMMA AcquiresKeepsIInv ==
  ASSUME IInv, NEW s \in Sessions, Open(s), NEW who \in Identity, Acquires(s, who),
         IF who.binding = None THEN \A r \in book : r.tenant # who.tenant
         ELSE \E e \in book : /\ e.kind = "binding" /\ e.id = who.binding
                              /\ e.tenant = who.tenant /\ e.scopes = who.scopes,
         \A r \in Sessions \ {s} :
           Open(r) /\ Own(r).context # None /\ (who.binding = None \/ Own(r).context.binding = None) =>
             who.tenant # Own(r).context.tenant
  PROVE  IInv'
<1>1. /\ tx[s].level # "read only" /\ tx[s].level # "repeatable read" /\ TakesXid(s)
      /\ Own(s).context = None
      /\ tx' = [tx EXCEPT ![s] = [tx[s] EXCEPT !.xid = Assigned(s), !.own.context = who]]
      /\ UNCHANGED <<book, relation, durable, expired, privileged>>
      /\ map' = map \/ map' = [map EXCEPT ![s] = {}]
  BY DEF Acquires, RequireWritablePrimary, RequireReadCommitted, BindsOnce, Changes, NotesContext, Cleared, Own
<1>2. SessionOK(s) /\ tx[s] \in Transaction /\ tx[s].own \in Written
  BY OpenType DEF IInv, Own
<1>3. tx[s].level = "read committed"
  BY <1>1, <1>2 DEF Transaction, Level
<1>4. \/ Assigned(s) = tx[s].xid /\ nextXid' = nextXid /\ tx[s].xid # 0
      \/ tx[s].xid = 0 /\ Assigned(s) = nextXid /\ nextXid <= MaxXid /\ nextXid' = nextXid + 1
  BY <1>1 DEF TakesXid, HasXid, Assigned
<1>5. Assigned(s) \in 0..MaxXid /\ Assigned(s) # 0
  <2>1. nextXid \in 1..MaxXid + 1 /\ tx[s].xid \in 0..MaxXid
    BY <1>2 DEF IInv, TypeOK, Transaction
  <2>2. QED
    BY <1>4, <2>1, BoundsAssumption
<1>6. Own(s).records = {}
  BY <1>1, <1>2 DEF SessionOK, Layer, Rightful
<1>7. PICK t : t = [tx[s] EXCEPT !.xid = Assigned(s), !.own.context = who]
  OBVIOUS
<1>8. /\ t \in Transaction /\ t.own.context = who /\ t.own.records = {} /\ t.xid = Assigned(s)
      /\ t.level = tx[s].level /\ t.overtaken = tx[s].overtaken /\ t.saves = tx[s].saves
  <2>1. [tx[s].own EXCEPT !.context = who] \in Written
    BY <1>2 DEF Written
  <2>2. t.own = [tx[s].own EXCEPT !.context = who]
    BY <1>2, <1>7 DEF Transaction
  <2>3. t.own.context = who /\ t.own.records = {}
    BY <1>2, <1>6, <2>2 DEF Written, Own
  <2>4. t \in Transaction
    BY <1>2, <1>5, <1>7, <2>1 DEF Transaction
  <2>5. QED
    BY <1>2, <1>7, <2>3, <2>4 DEF Transaction
<1>9. tx' = [tx EXCEPT ![s] = t] /\ tx'[s] = t
  BY <1>1, <1>7 DEF IInv, TypeOK
<1>10. Own(s)' = t.own /\ HasXid(s)' /\ tx'[s].level = tx[s].level
  BY <1>5, <1>8, <1>9 DEF Own, HasXid
<1>11. \A q : Layer(s, q) => Layer(s, q)'
  BY <1>1, <1>10, LayerStays
<1>12. Layer(s, t.own)'
  BY <1>3, <1>8, <1>10 DEF Layer
<1>13. Nested(s)'
  <2>1. \A k \in 1..Len(t.saves) : Layer(s, t.saves[k])'
    BY <1>2, <1>8, <1>11 DEF SessionOK, Nested
  <2>2. \A k \in 1..Len(t.saves) : Within(t.saves[k], t.own)
    <3> SUFFICES ASSUME NEW k \in 1..Len(t.saves) PROVE Within(t.saves[k], t.own)
      OBVIOUS
    <3>1. Within(tx[s].saves[k], Own(s)) /\ t.saves[k] = tx[s].saves[k]
      BY <1>2, <1>8 DEF SessionOK, Nested
    <3>2. t.saves[k].records = {} /\ t.saves[k].context = None
      BY <1>1, <1>6, <3>1 DEF Within
    <3>3. QED
      BY <3>2 DEF Within
  <2>3. QED
    BY <1>2, <1>8, <1>9, <2>1, <2>2, NestedStep DEF SessionOK, Nested
<1>14. Authentic(s)'
  BY <1>1, <1>8, <1>10 DEF Authentic
<1>15. /\ \A x \in map'[s] : t.overtaken \/ (t.own.context # None /\ t.own.context.tenant = x)
       /\ map' \in [Sessions -> SUBSET Tenants] /\ \A r \in Sessions \ {s} : map'[r] = map[r]
  <2>1. \A x \in map[s] : tx[s].overtaken
    BY <1>1, <1>2 DEF SessionOK, MapIsMine
  <2>2. QED
    BY <1>1, <1>8, <2>1 DEF IInv, TypeOK
<1>16. \A r \in Sessions \ {s} : Open(r) => LayerApart(t.own, r)
  BY <1>8 DEF LayerApart, Kind
<1>17. UNCHANGED <<book, relation, durable, expired, privileged>>
  BY <1>1
<1>18. \/ t.xid = tx[s].xid /\ nextXid' = nextXid
       \/ tx[s].xid = 0 /\ t.xid = nextXid /\ nextXid <= MaxXid /\ nextXid' = nextXid + 1
  BY <1>4, <1>8
<1>19. QED
  BY <1>8, <1>9, <1>12, <1>13, <1>14, <1>15, <1>16, <1>17, <1>18, ChangeStep

\* Before a context is acquired the transaction sees the committed book.
LEMMA SeenIsBook ==
  ASSUME IInv, NEW s \in Sessions, Open(s), NEW who, Acquires(s, who)
  PROVE  Seen(s) = book
<1>1. Own(s).context = None /\ tx[s].level # "repeatable read" /\ SessionOK(s)
  BY DEF Acquires, BindsOnce, RequireReadCommitted, Own, IInv
<1>2. Own(s).records = {}
  BY <1>1 DEF SessionOK, Layer, Rightful
<1>3. QED
  BY <1>1, <1>2 DEF Seen, Own

LEMMA BindKeepsIInv ==
  ASSUME IInv, NEW s \in Sessions, BindAuthenticatedContext(s)
  PROVE  IInv'
<1>1. Open(s)
  BY DEF BindAuthenticatedContext
<1>2. PICK b \in Bindings :
        /\ Authenticates(s, b)
        /\ Acquires(s, [binding |-> b, tenant |-> BindingRow(b, Seen(s)).tenant,
                        scopes |-> BindingRow(b, Seen(s)).scopes])
  BY DEF BindAuthenticatedContext
<1>3. Seen(s) = book
  BY <1>1, <1>2, SeenIsBook
<1>4. PICK e : e = BindingRow(b, book)
  OBVIOUS
<1>5. e \in book /\ e.kind = "binding" /\ e.id = b
  BY <1>2, <1>3, <1>4 DEF Authenticates, BindingRow, Kind
<1>6. e \in Records
  BY <1>5 DEF IInv, TypeOK
<1>7. PICK who : who = [binding |-> b, tenant |-> e.tenant, scopes |-> e.scopes]
  OBVIOUS
<1>8. who \in Identity /\ Acquires(s, who) /\ who.binding = b /\ b # None
  BY <1>2, <1>3, <1>4, <1>6, <1>7, NoneAssumption DEF Identity, Records
<1>9. ASSUME NEW r \in Sessions \ {s}, Open(r), Own(r).context # None, Own(r).context.binding = None
      PROVE  who.tenant # Own(r).context.tenant
  BY <1>5, <1>7, <1>9 DEF IInv, SessionOK, Authentic
<1>10. QED
  BY <1>1, <1>5, <1>7, <1>8, <1>9, AcquiresKeepsIInv

LEMMA ProvisionKeepsIInv ==
  ASSUME IInv, NEW s \in Sessions, BeginTenantProvisioning(s)
  PROVE  IInv'
<1>1. PICK t \in Tenants :
        Open(s) /\ FreshTenant(t) /\ Acquires(s, [binding |-> None, tenant |-> t, scopes |-> Provisioning])
  BY DEF BeginTenantProvisioning
<1>2. PICK who : who = [binding |-> None, tenant |-> t, scopes |-> Provisioning]
  OBVIOUS
<1>3. who \in Identity /\ Acquires(s, who) /\ who.binding = None /\ who.tenant = t
  BY <1>1, <1>2, ScopesAssumption DEF Identity
<1>4. \A r \in book : r.tenant # who.tenant
  BY <1>1, <1>3 DEF FreshTenant
<1>5. \A r \in Sessions \ {s} : Open(r) /\ Own(r).context # None => who.tenant # Own(r).context.tenant
  BY <1>1, <1>3, ContextIsOwn DEF FreshTenant
<1>6. QED
  BY <1>1, <1>3, <1>4, <1>5, AcquiresKeepsIInv

\* Records written by an identity that may write them.
LEMMA WritesKeepIInv ==
  ASSUME IInv, NEW s \in Sessions, Open(s), NEW new \in SUBSET Records, Writes(s, new),
         \A r \in new :
           /\ Own(s).context # None /\ r.by = Own(s).context /\ r.tenant = Own(s).context.tenant
           /\ r.kind = "tenant" => Own(s).context.binding = None
           /\ r.kind = "binding" =>
                /\ r.scopes \subseteq DelegableScopes
                /\ Own(s).context.binding # None => r.scopes \subseteq Own(s).context.scopes
                /\ \A d \in Kind(book, "binding") : d.id # r.id
                /\ \A q \in Sessions : Open(q) => \A d \in Kind(Own(q).records, "binding") : d.id # r.id
           /\ r.kind = "revocation" =>
                \E d \in book \cup Own(s).records :
                  d.kind = "binding" /\ d.id = r.id /\ d.tenant = Own(s).context.tenant
  PROVE  IInv'
<1>1. /\ tx' = [tx EXCEPT ![s] = [tx[s] EXCEPT !.own.records = @ \cup new]]
      /\ UNCHANGED <<book, relation, nextXid, durable, expired, privileged, map>>
  BY DEF Writes, Changes
<1>2. SessionOK(s) /\ tx[s] \in Transaction /\ tx[s].own \in Written
  BY OpenType DEF IInv, Own
<1>3. PICK t : t = [tx[s] EXCEPT !.own.records = @ \cup new]
  OBVIOUS
<1>4. /\ t \in Transaction /\ t.own.context = Own(s).context /\ t.own.records = Own(s).records \cup new
      /\ t.xid = tx[s].xid /\ t.level = tx[s].level /\ t.overtaken = tx[s].overtaken
      /\ t.saves = tx[s].saves
  <2>1. [tx[s].own EXCEPT !.records = @ \cup new] \in Written
    BY <1>2 DEF Written
  <2>2. t.own = [tx[s].own EXCEPT !.records = @ \cup new]
    BY <1>2, <1>3 DEF Transaction
  <2>3. t.own.context = Own(s).context /\ t.own.records = Own(s).records \cup new
    BY <1>2, <2>2 DEF Written, Own
  <2>4. t \in Transaction
    BY <1>2, <1>3, <2>1 DEF Transaction
  <2>5. QED
    BY <1>2, <1>3, <2>3, <2>4 DEF Transaction
<1>5. tx' = [tx EXCEPT ![s] = t] /\ tx'[s] = t
  BY <1>1, <1>3 DEF IInv, TypeOK
<1>6. Own(s)' = t.own /\ HasXid(s)' = HasXid(s) /\ tx'[s].level = tx[s].level
  BY <1>4, <1>5 DEF Own, HasXid
<1>7. \A q : Layer(s, q) => Layer(s, q)'
  BY <1>1, <1>6, LayerStays
<1>8. Layer(s, t.own)
  <2>1. \A r \in Own(s).records : Rightful(r, Own(s))
    BY <1>2 DEF SessionOK, Layer
  <2>2. \A r \in Own(s).records : Rightful(r, t.own)
    BY <1>4, <2>1 DEF Rightful
  <2>3. \A r \in new : Rightful(r, t.own)
    BY <1>4 DEF Rightful
  <2>4. QED
    BY <1>2, <1>4, <2>2, <2>3 DEF SessionOK, Layer
<1>9. Layer(s, t.own)' /\ Nested(s)'
  <2>1. \A k \in 1..Len(t.saves) : Layer(s, t.saves[k])'
    BY <1>2, <1>4, <1>7 DEF SessionOK, Nested
  <2>2. \A k \in 1..Len(t.saves) : Within(t.saves[k], t.own)
    BY <1>2, <1>4 DEF SessionOK, Nested, Within
  <2>3. QED
    BY <1>2, <1>4, <1>5, <1>7, <1>8, <2>1, <2>2, NestedStep DEF SessionOK, Nested
<1>10. Authentic(s)'
  BY <1>1, <1>2, <1>4, <1>6 DEF SessionOK, Authentic
<1>11. /\ \A x \in map'[s] : t.overtaken \/ (t.own.context # None /\ t.own.context.tenant = x)
       /\ map' \in [Sessions -> SUBSET Tenants] /\ \A r \in Sessions \ {s} : map'[r] = map[r]
  BY <1>1, <1>2, <1>4 DEF IInv, TypeOK, SessionOK, MapIsMine
<1>12. \A r \in Sessions \ {s} : Open(r) => LayerApart(t.own, r)
  <2> SUFFICES ASSUME NEW r \in Sessions \ {s}, Open(r) PROVE LayerApart(t.own, r)
    OBVIOUS
  <2>1. LayerApart(Own(s), r)
    <3>1. Within(Own(s), Own(s))
      BY DEF Within
    <3>2. QED
      BY <3>1, StillApart
  <2>2. \A d \in Kind(new, "binding"), e \in Kind(Own(r).records, "binding") : d.id # e.id
    BY DEF Kind
  <2>3. QED
    BY <1>4, <2>1, <2>2 DEF LayerApart, Kind
<1>13. UNCHANGED <<book, relation, durable, expired, privileged>> /\ nextXid' = nextXid
  BY <1>1
<1>14. QED
  BY <1>4, <1>5, <1>9, <1>10, <1>11, <1>12, <1>13, ChangeStep

\* A record written under the present context.
LEMMA RecIs ==
  ASSUME IInv, NEW s \in Sessions, Open(s), Context(s) # None,
         NEW kind \in {"tenant", "workspace", "binding", "revocation", "event"},
         NEW b \in Bindings \cup {None}, NEW scopes \in SUBSET Scopes
  PROVE  /\ Rec(s, kind, b, scopes) \in Records
         /\ Rec(s, kind, b, scopes).by = Own(s).context
         /\ Rec(s, kind, b, scopes).tenant = Own(s).context.tenant
         /\ Rec(s, kind, b, scopes).kind = kind /\ Rec(s, kind, b, scopes).id = b
         /\ Rec(s, kind, b, scopes).scopes = scopes
<1>1. Context(s) = Own(s).context /\ Own(s) \in Written
  BY ContextIsOwn, OpenType DEF IInv
<1>2. Own(s).context \in Identity
  BY <1>1 DEF Written
<1>3. QED
  BY <1>1, <1>2 DEF Rec, Records, Identity

\* Only a provisioning holds tenant:provision.
LEMMA ProvisionerIs ==
  ASSUME IInv, NEW s \in Sessions, Open(s), Holds(s, "tenant:provision")
  PROVE  Own(s).context.binding = None
<1>1. Context(s) = Own(s).context /\ Own(s).context # None /\ SessionOK(s)
  BY ContextIsOwn DEF IInv, Holds
<1>2. SUFFICES ASSUME Own(s).context.binding # None PROVE FALSE
  OBVIOUS
<1>3. PICK e \in Kind(book, "binding") : e.scopes = Own(s).context.scopes
  BY <1>1, <1>2 DEF SessionOK, Authentic, Kind
<1>4. e.scopes \subseteq DelegableScopes
  BY DEF IInv
<1>5. QED
  BY <1>1, <1>3, <1>4 DEF Holds, DelegableScopes

LEMMA ActingKeepsIInv ==
  ASSUME IInv, NEW s \in Sessions,
         CreateTenant(s) \/ CreateWorkspace(s) \/ AppendAuditEvent(s)
  PROVE  IInv'
<1>1. Open(s) /\ Context(s) # None
  BY DEF CreateTenant, CreateWorkspace, AppendAuditEvent, PermitsReturning, Permits, Holds
<1>2. Context(s) = Own(s).context /\ Own(s).context # None
  BY <1>1, ContextIsOwn
<1>3. PICK kind \in {"tenant", "workspace", "event"} :
        Writes(s, {Rec(s, kind, None, {})}) /\ (kind = "tenant" => CreateTenant(s))
  BY DEF CreateTenant, CreateWorkspace, AppendAuditEvent
<1>4. kind = "tenant" => Own(s).context.binding = None
  <2>1. CreateTenant(s) => Holds(s, "tenant:provision")
    BY DEF CreateTenant, PermitsReturning, Permits, Policies
  <2>2. QED
    BY <1>1, <1>3, <2>1, ProvisionerIs
<1>5. PICK r : r = Rec(s, kind, None, {})
  OBVIOUS
<1>6. r \in Records /\ r.by = Own(s).context /\ r.tenant = Own(s).context.tenant /\ r.kind = kind
  BY <1>1, <1>5, RecIs
<1>7. Writes(s, {r})
  BY <1>3, <1>5
<1>8. QED
  BY <1>1, <1>2, <1>4, <1>6, <1>7, WritesKeepIInv

LEMMA RegisterKeepsIInv ==
  ASSUME IInv, NEW s \in Sessions, RegisterAuthBinding(s)
  PROVE  IInv'
<1>1. PICK b \in Bindings, scopes \in Asked :
        /\ Open(s) /\ Context(s) # None /\ RequireDelegable(s, scopes) /\ NewBinding(b)
        /\ Writes(s, {Rec(s, "binding", b, scopes)} \union Audited(s, b))
  BY DEF RegisterAuthBinding, Holds
<1>2. Context(s) = Own(s).context /\ Own(s).context # None /\ scopes \in SUBSET Scopes
  BY <1>1, ContextIsOwn, ScopesAssumption
<1>3. PICK r, e : r = Rec(s, "binding", b, scopes) /\ e = Rec(s, "event", b, {})
  OBVIOUS
<1>4. /\ r \in Records /\ r.by = Own(s).context /\ r.tenant = Own(s).context.tenant /\ r.kind = "binding"
      /\ r.id = b /\ r.scopes = scopes
      /\ e \in Records /\ e.by = Own(s).context /\ e.tenant = Own(s).context.tenant /\ e.kind = "event"
  BY <1>1, <1>2, <1>3, RecIs
<1>5. PICK new : new = {r} \cup Audited(s, b)
  OBVIOUS
<1>6. new \in SUBSET Records /\ new \subseteq {r, e} /\ Writes(s, new)
  BY <1>1, <1>3, <1>4, <1>5 DEF Audited
<1>7. /\ scopes \subseteq DelegableScopes
      /\ Own(s).context.binding # None => scopes \subseteq Own(s).context.scopes
  BY <1>1, <1>2 DEF RequireDelegable
<1>8. /\ \A d \in Kind(book, "binding") : d.id # b
      /\ \A q \in Sessions : Open(q) => \A d \in Kind(Own(q).records, "binding") : d.id # b
  BY <1>1 DEF NewBinding, Kind, Own
<1>9. QED
  BY <1>1, <1>2, <1>4, <1>6, <1>7, <1>8, WritesKeepIInv

LEMMA RevokeKeepsIInv ==
  ASSUME IInv, NEW s \in Sessions, RevokeAuthBinding(s)
  PROVE  IInv'
<1>1. PICK b \in Bindings :
        /\ Open(s) /\ Context(s) # None
        /\ Writes(s, IF Revocable(s, b) THEN {Rec(s, "revocation", b, {})} \union Audited(s, b)
                     ELSE Audited(s, None))
  BY DEF RevokeAuthBinding, Holds
<1>2. Context(s) = Own(s).context /\ Own(s).context # None
  BY <1>1, ContextIsOwn
<1>3. PICK r, e, f : /\ r = Rec(s, "revocation", b, {}) /\ e = Rec(s, "event", b, {})
                     /\ f = Rec(s, "event", None, {})
  OBVIOUS
<1>4. /\ r \in Records /\ r.by = Own(s).context /\ r.tenant = Own(s).context.tenant
      /\ r.kind = "revocation" /\ r.id = b
      /\ e \in Records /\ e.by = Own(s).context /\ e.tenant = Own(s).context.tenant /\ e.kind = "event"
      /\ f \in Records /\ f.by = Own(s).context /\ f.tenant = Own(s).context.tenant /\ f.kind = "event"
  BY <1>1, <1>2, <1>3, RecIs
<1>5. PICK new : new = IF Revocable(s, b) THEN {r} \union Audited(s, b) ELSE Audited(s, None)
  OBVIOUS
<1>6. new \in SUBSET Records /\ new \subseteq {r, e, f} /\ (r \in new => Revocable(s, b)) /\ Writes(s, new)
  <2>1. Audited(s, b) \subseteq {e} /\ Audited(s, None) \subseteq {f} /\ r # f
    BY <1>3, <1>4 DEF Audited
  <2>2. Writes(s, new)
    BY <1>1, <1>3, <1>5
  <2>3. QED
    BY <1>4, <1>5, <2>1, <2>2
<1>7. Revocable(s, b) => \E d \in book \cup Own(s).records :
        d.kind = "binding" /\ d.id = b /\ d.tenant = Own(s).context.tenant
  <2>1. tx[s].level # "repeatable read"
    BY <1>1, <1>2 DEF IInv, SessionOK, Layer
  <2>2. QED
    BY <1>2, <2>1 DEF Revocable, Seen, Kind, Own
<1>8. QED
  BY <1>1, <1>2, <1>4, <1>6, <1>7, WritesKeepIInv

-----------------------------------------------------------------------------
(***************************************************************************)
(* Ends of transactions, crashes, and what happens to the role             *)
(***************************************************************************)
LEMMA AbortKeepsIInv ==
  ASSUME IInv, NEW s \in Sessions, Abort(s)
  PROVE  IInv'
<1>1. /\ tx' = [tx EXCEPT ![s] = NoTransaction] /\ map' = [map EXCEPT ![s] = {}]
      /\ UNCHANGED <<book, relation, nextXid, durable, expired, privileged>>
  BY DEF Abort, Changes, Cleared
<1>2. TypeOK'
  BY <1>1 DEF IInv, TypeOK
<1>3. /\ tx'[s] = NoTransaction /\ map'[s] = {} /\ ~Open(s)'
      /\ \A r \in Sessions \ {s} : tx'[r] = tx[r] /\ map'[r] = map[r] /\ Open(r)' = Open(r)
  BY <1>1 DEF IInv, TypeOK, Open
<1>4. \A r \in Sessions \ {s} : Open(r) => SessionOK(r)'
  BY <1>1, <1>3, StaysOK DEF IInv, SessionOK, Unheard
<1>5. \A r, q \in Sessions \ {s} : Apart(r, q) => Apart(r, q)'
  BY <1>3 DEF Apart, HasXid, Own, Kind
<1>6. QED
  BY <1>1, <1>2, <1>3, <1>4, <1>5 DEF IInv, Kind

\* What a commit stores, and what it leaves of the others.
LEMMA CommitStores ==
  ASSUME IInv, NEW s \in Sessions, CommitTransaction(s)
  PROVE  /\ Open(s) /\ book' = book \cup Own(s).records
         /\ UNCHANGED <<nextXid, expired, privileged>> /\ TypeOK'
         /\ ~Open(s)' /\ map'[s] = {}
         /\ \A r \in Sessions \ {s} : tx'[r] = tx[r] /\ map'[r] = map[r] /\ Open(r)' = Open(r)
         /\ \A p \in Backends : relation'[p] = relation[p] \/ relation'[p].xid = tx[s].xid
<1>1. /\ Open(s) /\ book' = book \cup Own(s).records
      /\ tx' = [tx EXCEPT ![s] = NoTransaction] /\ map' = [map EXCEPT ![s] = {}]
      /\ UNCHANGED <<nextXid, expired, privileged>>
      /\ durable' = IF Own(s).records # {} /\ tx[s].xid > durable THEN tx[s].xid ELSE durable
      /\ relation' = IF Own(s).context = None THEN relation
                     ELSE [relation EXCEPT ![tx[s].on] = [xid |-> tx[s].xid, who |-> Own(s).context]]
  BY DEF CommitTransaction, Changes, Cleared, Own
<1>2. /\ tx[s] \in Transaction /\ Own(s) \in Written /\ tx[s].xid \in 0..MaxXid /\ tx[s].xid < nextXid
      /\ tx[s].on \in Backends
  BY <1>1, OpenType DEF IInv, SessionOK, Unheard, Transaction
<1>3. [xid |-> tx[s].xid, who |-> Own(s).context] \in ContextRow /\ Own(s).records \subseteq Records
  BY <1>2 DEF ContextRow, Written
<1>4. /\ relation' \in [Backends -> ContextRow]
      /\ \A p \in Backends : relation'[p] = relation[p] \/ relation'[p].xid = tx[s].xid
  <2>1. PICK row : row = [xid |-> tx[s].xid, who |-> Own(s).context]
    OBVIOUS
  <2>2. row \in ContextRow /\ row.xid = tx[s].xid
    BY <1>3, <2>1
  <2>3. relation' = relation \/ relation' = [relation EXCEPT ![tx[s].on] = row]
    BY <1>1, <2>1
  <2>4. QED
    BY <1>2, <2>2, <2>3 DEF IInv, TypeOK
<1>5. durable' \in 0..MaxXid /\ durable' < nextXid'
  <2>1. durable \in 0..MaxXid /\ durable < nextXid
    BY DEF IInv, TypeOK
  <2>2. QED
    BY <1>1, <1>2, <2>1
<1>6. /\ tx' \in [Sessions -> {NoTransaction} \cup Transaction] /\ map' \in [Sessions -> SUBSET Tenants]
      /\ tx'[s] = NoTransaction /\ map'[s] = {}
      /\ \A r \in Sessions \ {s} : tx'[r] = tx[r] /\ map'[r] = map[r]
  BY <1>1 DEF IInv, TypeOK
<1>7. TypeOK'
  BY <1>1, <1>3, <1>4, <1>5, <1>6 DEF IInv, TypeOK
<1>8. QED
  BY <1>1, <1>4, <1>6, <1>7 DEF Open

LEMMA CommitKeepsIInv ==
  ASSUME IInv, NEW s \in Sessions, CommitTransaction(s)
  PROVE  IInv'
<1>1. /\ Open(s) /\ book' = book \cup Own(s).records
      /\ UNCHANGED <<nextXid, expired, privileged>> /\ TypeOK' /\ ~Open(s)' /\ map'[s] = {}
      /\ \A r \in Sessions \ {s} : tx'[r] = tx[r] /\ map'[r] = map[r] /\ Open(r)' = Open(r)
      /\ \A p \in Backends : relation'[p] = relation[p] \/ relation'[p].xid = tx[s].xid
  BY CommitStores
<1>2. SessionOK(s)
  BY <1>1 DEF IInv
<1>3. \A r \in Own(s).records : Rightful(r, Own(s))
  BY <1>2 DEF SessionOK, Layer
<1>4. \A p \in Backends : relation'[p].xid < nextXid'
  BY <1>1, <1>2 DEF IInv, SessionOK, Unheard
<1>5. \A r \in Kind(book, "binding")' : r.scopes \subseteq DelegableScopes
  BY <1>1, <1>3 DEF IInv, Kind, Rightful
<1>6. ASSUME NEW r \in Sessions \ {s}, Open(r) PROVE SessionOK(r)'
  <2>1. SessionOK(r) /\ Apart(r, s) /\ Apart(s, r)
    BY <1>1, <1>6 DEF IInv
  <2>2. Own(r)' = Own(r) /\ HasXid(r)' = HasXid(r) /\ tx'[r] = tx[r] /\ map'[r] = map[r]
    BY <1>1 DEF Own, HasXid
  <2>3. Unheard(r)'
    BY <1>1, <2>1, <2>2 DEF SessionOK, Unheard, Apart, HasXid
  <2>4. ASSUME NEW o, Layer(r, o), o.records \subseteq Own(r).records PROVE Layer(r, o)'
    <3>1. \A w \in o.records : w.kind = "binding" => \A d \in Kind(book, "binding")' : d.id # w.id
      BY ZenonT(40), <1>1, <2>1, <2>4 DEF Layer, Rightful, Apart, Kind
    <3>2. \A w \in o.records : Rightful(w, o)'
      <4> SUFFICES ASSUME NEW w \in o.records PROVE Rightful(w, o)'
        OBVIOUS
      <4>1. Rightful(w, o)
        BY <2>4 DEF Layer
      <4>2. book \subseteq book'
        BY <1>1
      <4>3. QED
        BY <3>1, <4>1, <4>2 DEF Rightful
    <3>3. QED
      BY <2>2, <2>4, <3>2 DEF Layer
  <2>5. PICK t : t = tx[r]
    OBVIOUS
  <2>6. Layer(r, t.own)' /\ Nested(r)'
    <3>1. Layer(r, t.own)'
      BY <2>1, <2>4, <2>5 DEF SessionOK, Own
    <3>2. \A k \in 1..Len(t.saves) : Layer(r, t.saves[k])'
      BY <2>1, <2>4, <2>5 DEF SessionOK, Nested, Within
    <3>3. QED
      BY <2>1, <2>2, <2>5, <3>1, <3>2, NestedStep DEF SessionOK, Nested, Own
  <2>7. Layer(r, Own(r))'
    <3>1. Own(r)' = t.own
      BY <2>2, <2>5 DEF Own
    <3>2. QED
      BY <2>6, <3>1
  <2>8. Authentic(r)'
    <3>1. ASSUME Own(r).context # None, Own(r).context.binding = None, NEW w \in Own(s).records
          PROVE  w.tenant # Own(r).context.tenant
      BY <1>3, <2>1, <3>1 DEF Rightful, Apart
    <3>2. QED
      BY <1>1, <2>1, <2>2, <3>1 DEF SessionOK, Authentic
  <2>9. MapIsMine(r)' /\ (privileged' => tx'[r].overtaken)
    BY <1>1, <2>1, <2>2 DEF SessionOK, MapIsMine
  <2>10. QED
    BY <2>3, <2>6, <2>7, <2>8, <2>9 DEF SessionOK
<1>7. \A r, q \in Sessions \ {s} : Apart(r, q) => Apart(r, q)'
  BY <1>1 DEF Apart, HasXid, Own, Kind
<1>8. QED
  BY <1>1, <1>4, <1>5, <1>6, <1>7 DEF IInv

LEMMA CrashKeepsIInv == ASSUME IInv, Crash PROVE IInv'
<1>1. /\ \A s \in Sessions : tx'[s] = NoTransaction /\ map'[s] = {} /\ ~Open(s)'
      /\ relation' = [p \in Backends |-> NoRow] /\ nextXid' \in durable + 1..nextXid
      /\ UNCHANGED <<book, durable, expired, privileged>>
      /\ tx' = [s \in Sessions |-> NoTransaction] /\ map' = [s \in Sessions |-> {}]
  BY DEF Crash, CrashedRelation, Open
<1>2. durable \in 0..MaxXid /\ nextXid \in 1..MaxXid + 1 /\ durable < nextXid
  BY DEF IInv, TypeOK
<1>3. nextXid' \in 1..MaxXid + 1 /\ durable' < nextXid' /\ 0 < nextXid'
  BY <1>1, <1>2, BoundsAssumption
<1>4. relation' \in [Backends -> ContextRow] /\ \A p \in Backends : relation'[p].xid < nextXid'
  BY <1>1, <1>3, BoundsAssumption DEF NoRow, ContextRow
<1>5. TypeOK'
  BY <1>1, <1>3, <1>4 DEF IInv, TypeOK
<1>6. QED
  BY <1>1, <1>4, <1>5 DEF IInv, Kind

LEMMA GrantKeepsIInv == ASSUME IInv, GrantPrivilege PROVE IInv'
<1>1. /\ privileged' = TRUE
      /\ tx' = [s \in Sessions |-> IF Open(s) THEN [tx[s] EXCEPT !.overtaken = TRUE] ELSE NoTransaction]
      /\ UNCHANGED <<book, relation, nextXid, durable, expired, map>>
  BY DEF GrantPrivilege
<1>2. ASSUME NEW s \in Sessions, Open(s)
      PROVE  /\ tx'[s] \in Transaction /\ Open(s)' /\ tx'[s].overtaken
             /\ tx'[s].own = tx[s].own /\ tx'[s].xid = tx[s].xid /\ tx'[s].saves = tx[s].saves
             /\ tx'[s].level = tx[s].level
  <2>1. tx[s] \in Transaction
    BY <1>2, OpenType DEF IInv
  <2>2. PICK t : t = [tx[s] EXCEPT !.overtaken = TRUE]
    OBVIOUS
  <2>3. /\ t \in Transaction /\ t.own = tx[s].own /\ t.xid = tx[s].xid /\ t.saves = tx[s].saves
        /\ t.level = tx[s].level /\ t.overtaken
    BY <2>1, <2>2 DEF Transaction
  <2>4. tx'[s] = t
    BY <1>1, <1>2, <2>2
  <2>5. QED
    BY <2>3, <2>4, IdleIsNoTransaction DEF Open
<1>3. \A s \in Sessions : ~Open(s) => tx'[s] = NoTransaction /\ ~Open(s)'
  BY <1>1 DEF Open
<1>4. TypeOK'
  <2>1. \A s \in Sessions : tx'[s] \in {NoTransaction} \cup Transaction
    BY <1>2, <1>3
  <2>2. tx' \in [Sessions -> {NoTransaction} \cup Transaction]
    BY <1>1, <2>1
  <2>3. QED
    BY <1>1, <2>2 DEF IInv, TypeOK
<1>5. ASSUME NEW s \in Sessions, Open(s) PROVE SessionOK(s)'
  <2>1. SessionOK(s)
    BY <1>5 DEF IInv
  <2>2. PICK t : t = tx'[s]
    OBVIOUS
  <2>3. \A o : Layer(s, o) => Layer(s, o)'
    BY <1>1, <1>2, <1>5, LayerStays DEF HasXid
  <2>4. Layer(s, t.own)' /\ Nested(s)'
    <3>1. Layer(s, t.own)'
      BY <1>2, <1>5, <2>1, <2>2, <2>3 DEF SessionOK, Own
    <3>2. \A k \in 1..Len(t.saves) : Layer(s, t.saves[k])'
      BY <1>2, <1>5, <2>1, <2>2, <2>3 DEF SessionOK, Nested
    <3>3. QED
      BY <1>2, <1>5, <2>1, <2>2, <3>1, <3>2, NestedStep DEF SessionOK, Nested, Own
  <2>5. Layer(s, Own(s))'
    <3>1. Own(s)' = t.own
      BY <2>2 DEF Own
    <3>2. QED
      BY <2>4, <3>1
  <2>6. Unheard(s)' /\ Authentic(s)' /\ MapIsMine(s)'
    BY <1>1, <1>2, <1>5, <2>1 DEF SessionOK, Unheard, HasXid, Authentic, MapIsMine, Own
  <2>7. QED
    BY <1>2, <1>5, <2>4, <2>5, <2>6 DEF SessionOK
<1>6. \A r, q \in Sessions : Open(r) /\ Open(q) /\ Apart(r, q) => Apart(r, q)'
  BY <1>2 DEF Apart, HasXid, Own, Kind
<1>7. QED
  BY <1>1, <1>2, <1>3, <1>4, <1>5, <1>6 DEF IInv, Kind

\* Privileges taken away and the clock touch no transaction.
LEMMA OutsideKeepsIInv ==
  ASSUME IInv, TypeOK', UNCHANGED <<book, relation, nextXid, tx, map>>, privileged' => privileged
  PROVE  IInv'
<1>1. \A r \in Sessions : Open(r)' = Open(r)
  BY DEF Open
<1>2. ASSUME NEW r \in Sessions, Open(r) PROVE SessionOK(r)'
  <2>1. SessionOK(r)
    BY <1>2 DEF IInv
  <2>2. Layer(r, Own(r))' = Layer(r, Own(r)) /\ Nested(r)' = Nested(r)
    BY DEF Layer, Rightful, Kind, Nested, Within, Own, HasXid
  <2>3. QED
    BY <2>1, <2>2 DEF SessionOK, Unheard, HasXid, Authentic, MapIsMine, Own
<1>3. \A r, q \in Sessions : Apart(r, q) => Apart(r, q)'
  BY DEF Apart, HasXid, Own, Kind
<1>4. QED
  BY <1>1, <1>2, <1>3 DEF IInv, Kind

LEMMA NextKeepsIInv == IInv /\ [Next]_vars => IInv'
<1> SUFFICES ASSUME IInv, [Next]_vars PROVE IInv'
  OBVIOUS
<1>1. CASE UNCHANGED vars \/ TakePrivilegeAway \/ Expire
  <2>1. /\ UNCHANGED <<book, relation, nextXid, durable, tx, map>>
        /\ privileged' = privileged \/ privileged' = FALSE
        /\ expired' \in SUBSET Expiring
    BY <1>1 DEF vars, TakePrivilegeAway, Expire, IInv, TypeOK
  <2>2. TypeOK'
    BY <2>1 DEF IInv, TypeOK
  <2>3. QED
    BY <2>1, <2>2, OutsideKeepsIInv
<1>2. ASSUME NEW s \in Sessions, Release(s) \/ RollbackToSavepoint(s) PROVE IInv'
  BY <1>2, EndSavepointKeepsIInv DEF Release, RollbackToSavepoint, Own
<1>3. CASE Next
  BY <1>1, <1>2, <1>3, BeginKeepsIInv, SavepointKeepsIInv, CommitKeepsIInv, AbortKeepsIInv, BindKeepsIInv,
     ProvisionKeepsIInv, AssignXidKeepsIInv, ActingKeepsIInv, LoadKeepsIInv, RegisterKeepsIInv,
     RevokeKeepsIInv, CrashKeepsIInv, GrantKeepsIInv DEF Next
<1>4. QED
  BY <1>1, <1>3

LEMMA Invariant == Spec => []IInv
BY InitIInv, NextKeepsIInv, PTL DEF Spec

-----------------------------------------------------------------------------
(***************************************************************************)
(* Acquiring, and what a commit is                                         *)
(***************************************************************************)

\* A transaction comes by a context in the two ways there are.
LEMMA OnlyByAcquiring ==
  ASSUME IInv, Next, NEW s \in Sessions, Open(s), tx'[s] # NoTransaction,
         tx[s].own.context = None, tx'[s].own.context # None
  PROVE  BindAuthenticatedContext(s) \/ BeginTenantProvisioning(s)
<1>1. SessionOK(s) /\ tx[s] \in Transaction /\ tx[s].own \in Written
  BY OpenType DEF IInv, Own
<1>2. ASSUME tx'[s].own.context = tx[s].own.context PROVE FALSE
  BY <1>2
<1>3. CASE UNCHANGED tx \/ Crash
  BY <1>2, <1>3 DEF Crash
<1>4. CASE GrantPrivilege
  <2>1. tx'[s] = [tx[s] EXCEPT !.overtaken = TRUE]
    BY <1>4 DEF GrantPrivilege
  <2>2. QED
    BY <1>1, <1>2, <2>1 DEF Transaction
<1>5. ASSUME NEW r \in Sessions, NEW t, tx' = [tx EXCEPT ![r] = t] PROVE r = s /\ tx'[s] = t
  BY <1>2, <1>5 DEF IInv, TypeOK
<1>6. ASSUME NEW r \in Sessions, NEW o, EndSavepoint(r, o),
             o = Own(r) \/ o = tx[r].saves[Len(tx[r].saves)]
      PROVE  FALSE
  <2>1. /\ tx' = [tx EXCEPT ![r] = [tx[r] EXCEPT !.own = o, !.saves = SubSeq(@, 1, Len(tx[r].saves) - 1)]]
        /\ tx[r].saves # <<>>
    BY <1>6 DEF EndSavepoint, Changes
  <2>2. r = s /\ tx'[s] = [tx[s] EXCEPT !.own = o, !.saves = SubSeq(@, 1, Len(tx[s].saves) - 1)]
    BY <1>5, <2>1
  <2>3. tx'[s].own = o
    BY <1>1, <2>2 DEF Transaction
  <2>4. tx[s].saves \in Seq(Written) /\ Len(tx[s].saves) \in 1..Len(tx[s].saves)
    BY <1>1, <2>1, <2>2 DEF Transaction
  <2>5. Within(o, Own(s))
    BY <1>1, <1>6, <2>2, <2>4 DEF SessionOK, Nested, Within
  <2>6. QED
    BY <2>3, <2>5 DEF Within, Own
<1>7. ASSUME NEW r \in Sessions, Release(r) \/ RollbackToSavepoint(r) PROVE FALSE
  BY <1>6, <1>7 DEF Release, RollbackToSavepoint, Own
<1>8. ASSUME NEW r \in Sessions, Begin(r) PROVE FALSE
  <2>1. PICK p \in Backends, level \in Level : ~Open(r) /\ tx' = [tx EXCEPT ![r] = Begun(p, level)]
    BY <1>8 DEF Begin, Changes
  <2>2. QED
    BY <1>5, <2>1
<1>9. ASSUME NEW r \in Sessions, CommitTransaction(r) \/ Abort(r) PROVE FALSE
  BY <1>5, <1>9 DEF CommitTransaction, Abort, Changes
<1>10. ASSUME NEW r \in Sessions, Savepoint(r) PROVE FALSE
  <2>1. tx'[s] = [tx[s] EXCEPT !.saves = Append(@, tx[s].own)]
    BY <1>5, <1>10 DEF Savepoint, Changes
  <2>2. QED
    BY <1>1, <1>2, <2>1 DEF Transaction
<1>11. ASSUME NEW r \in Sessions, AssignXid(r) PROVE FALSE
  <2>1. tx'[s] = [tx[s] EXCEPT !.xid = nextXid]
    BY <1>5, <1>11 DEF AssignXid, Changes
  <2>2. QED
    BY <1>1, <1>2, <2>1 DEF Transaction
<1>12. ASSUME NEW r \in Sessions, NEW new, Writes(r, new) PROVE FALSE
  <2>1. tx'[s] = [tx[s] EXCEPT !.own.records = @ \cup new]
    BY <1>5, <1>12 DEF Writes, Changes
  <2>2. tx'[s].own = [tx[s].own EXCEPT !.records = @ \cup new]
    BY <1>1, <2>1 DEF Transaction
  <2>3. QED
    BY <1>1, <1>2, <2>2 DEF Written
<1>13. ASSUME NEW r \in Sessions, BindAuthenticatedContext(r) \/ BeginTenantProvisioning(r) PROVE r = s
  <2>1. PICK who : Acquires(r, who)
    BY <1>13 DEF BindAuthenticatedContext, BeginTenantProvisioning
  <2>2. tx' = [tx EXCEPT ![r] = [tx[r] EXCEPT !.xid = Assigned(r), !.own.context = who]]
    BY <2>1 DEF Acquires, Changes
  <2>3. QED
    BY <1>5, <2>2
<1>14. ASSUME NEW r \in Sessions,
              \/ CreateTenant(r) \/ CreateWorkspace(r) \/ AppendAuditEvent(r)
              \/ RegisterAuthBinding(r) \/ RevokeAuthBinding(r)
       PROVE  FALSE
  BY <1>12, <1>14 DEF CreateTenant, CreateWorkspace, AppendAuditEvent, RegisterAuthBinding, RevokeAuthBinding
<1>15. CASE \E r \in Sessions : Load(r)
  BY <1>3, <1>15 DEF Load
<1>16. CASE TakePrivilegeAway \/ Expire
  BY <1>3, <1>16 DEF TakePrivilegeAway, Expire
<1>17. QED
  BY <1>3, <1>4, <1>7, <1>8, <1>9, <1>10, <1>11, <1>13, <1>14, <1>15, <1>16 DEF Next

LEMMA AcquiredAlive ==
  ASSUME IInv, NEW s \in Sessions, Open(s), BindAuthenticatedContext(s) \/ BeginTenantProvisioning(s)
  PROVE  LET b == tx'[s].own.context.binding
         IN  b # None => b \notin expired /\ \A r \in Kind(book, "revocation") : r.id # b
<1>1. tx[s] \in Transaction /\ tx[s].own \in Written
  BY OpenType DEF IInv, Own
<1>2. ASSUME NEW who, Acquires(s, who) PROVE tx'[s].own.context = who
  <2>1. tx'[s] = [tx[s] EXCEPT !.xid = Assigned(s), !.own.context = who]
    BY <1>2 DEF Acquires, Changes, IInv, TypeOK
  <2>2. tx'[s].own = [tx[s].own EXCEPT !.context = who]
    BY <1>1, <2>1 DEF Transaction
  <2>3. QED
    BY <1>1, <2>2 DEF Written
<1>3. CASE BindAuthenticatedContext(s)
  <2>1. PICK b \in Bindings :
          /\ Authenticates(s, b)
          /\ Acquires(s, [binding |-> b, tenant |-> BindingRow(b, Seen(s)).tenant,
                          scopes |-> BindingRow(b, Seen(s)).scopes])
    BY <1>3 DEF BindAuthenticatedContext
  <2>2. tx'[s].own.context.binding = b /\ Seen(s) = book
    BY <1>2, <2>1, SeenIsBook
  <2>3. QED
    BY <2>1, <2>2 DEF Authenticates
<1>4. CASE BeginTenantProvisioning(s)
  <2>1. PICK t \in Tenants : Acquires(s, [binding |-> None, tenant |-> t, scopes |-> Provisioning])
    BY <1>4 DEF BeginTenantProvisioning
  <2>2. tx'[s].own.context.binding = None
    BY <1>2, <2>1
  <2>3. QED
    BY <2>2
<1>5. QED
  BY <1>3, <1>4

LEMMA CommitIsAnAct ==
  ASSUME IInv, NEW s \in Sessions, CommitTransaction(s)
  PROVE  Promise!Next \/ book' = book
<1>1. Open(s) /\ book' = book \cup Own(s).records
  BY CommitStores
<1>2. SUFFICES ASSUME book' # book PROVE Promise!Next
  OBVIOUS
<1>3. SessionOK(s) /\ \A r \in Own(s).records : Rightful(r, Own(s))
  BY <1>1 DEF IInv, SessionOK, Layer
<1>4. PICK w \in book' \ book : w \in Own(s).records
  BY <1>1, <1>2
<1>5. PICK i : i = Own(s).context
  OBVIOUS
<1>6. i # None /\ w.by = i
  BY <1>3, <1>4, <1>5 DEF Rightful
<1>7. Promise!Genuine(i)
  BY <1>3, <1>5, <1>6 DEF SessionOK, Authentic, Promise!Genuine, Promise!Of, Promise!TenantsOnRecord
<1>8. ASSUME NEW e \in book' \ book
      PROVE  /\ e.by = i /\ e.tenant = i.tenant
             /\ e.kind = "tenant" => i.binding = None
             /\ e.kind = "binding" => Promise!Granted(e, i) /\ \A d \in Promise!Of("binding") : d.id # e.id
             /\ e.kind = "revocation" =>
                  \E d \in Promise!Of("binding") \cup (book' \ book) :
                    d.kind = "binding" /\ d.id = e.id /\ d.tenant = i.tenant
  <2>1. Rightful(e, Own(s))
    BY <1>1, <1>3
  <2>2. e.kind = "binding" => Promise!Granted(e, i) /\ \A d \in Promise!Of("binding") : d.id # e.id
    BY <1>5, <2>1 DEF Rightful, Promise!Granted, Promise!Of, Kind
  <2>3. e.kind = "revocation" =>
          \E d \in Promise!Of("binding") \cup (book' \ book) :
            d.kind = "binding" /\ d.id = e.id /\ d.tenant = i.tenant
    BY <1>1, <1>5, <2>1 DEF Rightful, Promise!Of
  <2>4. QED
    BY <1>5, <2>1, <2>2, <2>3 DEF Rightful
<1>9. Promise!Act(i, book' \ book)
  BY <1>7, <1>8 DEF Promise!Act
<1>10. QED
  BY <1>1, <1>4, <1>6, <1>9 DEF Promise!Next

LEMMA OnlyCommitsWrite ==
  ASSUME Next, book' # book
  PROVE  \E s \in Sessions : CommitTransaction(s)
BY ZenonT(40) DEF Next, Begin, Savepoint, Release, RollbackToSavepoint, EndSavepoint, Abort, BindAuthenticatedContext,
   BeginTenantProvisioning, Acquires, AssignXid, CreateTenant, CreateWorkspace, Load, RegisterAuthBinding,
   RevokeAuthBinding, AppendAuditEvent, Writes, Crash, GrantPrivilege, TakePrivilegeAway, Expire

-----------------------------------------------------------------------------
(***************************************************************************)
(* Theorems                                                                *)
(***************************************************************************)

\* Every table, backend and session has its type.
THEOREM TypeCorrect == Spec => []TypeOK
<1>1. IInv => TypeOK
  BY DEF IInv
<1>2. QED
  BY <1>1, Invariant, PTL

\* No row another transaction left behind ever speaks for a transaction, whatever
\* backends it is given and whatever crashes empty and reuse.
THEOREM ContextsAreOwn == Spec => []NoContextIsInherited
<1>1. IInv => NoContextIsInherited
  BY ContextIsOwn DEF NoContextIsInherited, Own
<1>2. QED
  BY <1>1, Invariant, PTL

\* A session's identity map holds rows of the tenant its transaction acts for.
THEOREM MapsAreTheCallers == Spec => []MapsHoldTheCallersRows
<1>1. IInv => MapsHoldTheCallersRows
  <2> SUFFICES ASSUME IInv, NEW s \in Sessions, NEW t \in map[s]
               PROVE  Open(s) /\ (tx[s].overtaken \/ (Context(s) # None /\ Context(s).tenant = t))
    BY DEF MapsHoldTheCallersRows
  <2>1. Open(s) /\ SessionOK(s)
    BY DEF IInv
  <2>2. QED
    BY <2>1, ContextIsOwn DEF SessionOK, MapIsMine
<1>2. QED
  BY <1>1, Invariant, PTL

\* No credential that is revoked or has expired acquires a context.
THEOREM TheDeadAcquireNothing == Spec => DeadCredentialsAcquireNothing
<1>1. IInv /\ [Next]_vars =>
        [\A s \in Sessions :
          (/\ Open(s) /\ tx'[s] # NoTransaction
           /\ tx[s].own.context = None /\ tx'[s].own.context # None)
          => LET b == tx'[s].own.context.binding
             IN  b # None => b \notin expired /\ \A r \in Kind(book, "revocation") : r.id # b]_vars
  <2> SUFFICES ASSUME IInv, Next, NEW s \in Sessions,
                      Open(s) /\ tx'[s] # NoTransaction,
                      tx[s].own.context = None /\ tx'[s].own.context # None
               PROVE  LET b == tx'[s].own.context.binding
                      IN  b # None => b \notin expired /\ \A r \in Kind(book, "revocation") : r.id # b
    OBVIOUS
  <2>1. BindAuthenticatedContext(s) \/ BeginTenantProvisioning(s)
    BY OnlyByAcquiring
  <2>2. QED
    BY <2>1, AcquiredAlive
<1>2. QED
  BY <1>1, Invariant, PTL DEF Spec, DeadCredentialsAcquireNothing

\* What is committed is committed by whole transactions, each of one genuine identity,
\* in its own tenant, granting what it holds.
THEOREM CommitsAreAuthorized == Spec => ImplementsAuthorityBook
<1>1. IInv /\ [Next]_vars => [Promise!Next]_book
  <2> SUFFICES ASSUME IInv, [Next]_vars PROVE Promise!Next \/ book' = book
    OBVIOUS
  <2>1. QED
    BY OnlyCommitsWrite, CommitIsAnAct DEF vars
<1>2. QED
  BY <1>1, Invariant, PTL DEF Spec, ImplementsAuthorityBook, Promise!Spec
=============================================================================
