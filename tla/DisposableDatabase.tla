-------------------------- MODULE DisposableDatabase --------------------------
(***************************************************************************)
(* testing/bootstrap.py: a process makes a database and its roles on a     *)
(* server it shares, and removes them again, after a failed setup or at    *)
(* teardown, by the same path.  CREATE DATABASE cannot be undone by a      *)
(* rollback, so the setup is a sequence of states, any of which may fail,  *)
(* before or after what it asked for was done.  Others drop what they find *)
(* under these names, and create it anew.                                  *)
(*                                                                         *)
(* The login roles are all alike, so one stands beside the owner; what the *)
(* last step migrates and wires is RoleWiring's.                           *)
(***************************************************************************)
EXTENDS Integers, Sequences, FiniteSets

CONSTANTS
    MaxOids,    \* bound: objects the server creates
    MaxOthers   \* bound: what others do

ASSUME OidsAssumption == MaxOids \in Nat /\ MaxOthers \in Nat

OwnerRole == "owner role"
RoleNames == <<OwnerRole, "application role", "writer role">>
RoleSet == {RoleNames[i] : i \in 1..Len(RoleNames)}
Database == "database"
Names == RoleSet \union {Database}

\* Provenance markers: none, and the one this process writes.
Markers == {"", "ours"}
NoObject == [oid |-> 0]

\* Who owns it is an OID; 0 stands for others.  "uses" are the roles that
\* cannot be dropped while it is there.
Object == [oid: 1..MaxOids, marker: Markers, owner: 0..MaxOids, uses: SUBSET (1..MaxOids)]

\* ObjectIdentity: what was created, and enough to recognise it.
ObjectIdentity == [name: Names, oid: 1..MaxOids, marker: Markers]

VARIABLES
    server,     \* the objects under these names
    lastOid,    \* the last OID given out
    stage,      \* where the process is
    created,    \* the identities it recorded
    target,     \* the role it is dropping
    problems,   \* the names its cleanup reported
    made,       \* history: the OIDs it created
    others      \* acts of others so far

disposableVars == <<server, lastOid, stage, created, target, problems, made, others>>

Setup == {"attest", "roles", "verify", "create", "record", "comment", "reread", "configure",
          "prepare"}
Cleanup == {"clean up", "dispose", "release", "drop database", "drop roles", "rename"}
Stages == (Setup \X {"setup"}) \union (Cleanup \X {"setup", "teardown"})
              \union ({"ready", "failed", "gone", "interrupted"} \X {"end"})
At(s) == stage[1] = s
Goes(s) == stage' = <<s, stage[2]>>

DisposableInit ==
    /\ server \in [Names -> {NoObject}]
    /\ lastOid = 0
    /\ stage = <<"attest", "setup">>
    /\ created = {} /\ target = OwnerRole /\ problems = {} /\ made = {}
    /\ others = 0

There(n) == server[n] # NoObject
OwnerOid == server[OwnerRole].oid   \* 0 when there is none

\* The owner's credential is this process's: nobody else's role takes it.
OwnerLogsIn == There(OwnerRole) /\ OwnerOid \in made
OwnsDatabase ==
    There(OwnerRole) /\ There(Database) /\ server[Database].owner = OwnerOid
Identity(n) == [name |-> n, oid |-> server[n].oid, marker |-> server[n].marker]
Recorded(n) == \E o \in created : o.name = n
RecordOf(n) == CHOOSE o \in created : o.name = n
NewObject(marker, owner) ==
    [oid |-> lastOid + 1, marker |-> marker, owner |-> owner, uses |-> {owner} \ {0}]

-----------------------------------------------------------------------------
(* create_disposable_database. *)

Attest ==
    /\ At("attest")
    /\ Goes("roles")
    /\ UNCHANGED <<server, lastOid, created, target, problems, made, others>>

NextRole == RoleNames[Cardinality(created) + 1]

\* Mutant: the identity is recorded once the commit is known.
RecordOnceAnswered ==
    created' = IF stage'[1] = "clean up" THEN created
               ELSE created \union {[name |-> NextRole, oid |-> lastOid + 1, marker |-> "ours"]}

\* Before the transaction commits.
RecordRole ==
    created' = created \union {[name |-> NextRole, oid |-> lastOid + 1, marker |-> "ours"]}

\* The role, its marker and its identity are one transaction; whether it
\* committed is not always known.
CreateRole ==
    /\ At("roles") /\ ~There(NextRole)
    /\ lastOid < MaxOids /\ lastOid' = lastOid + 1
    /\ \/ /\ server' = [server EXCEPT ![NextRole] = NewObject("ours", 0)]
          /\ made' = made \union {lastOid + 1}
          /\ stage' \in {<<IF NextRole = RoleNames[Len(RoleNames)] THEN "verify" ELSE "roles",
                           "setup">>,
                         <<"clean up", "setup">>}
       \/ Goes("clean up") /\ UNCHANGED <<server, made>>
    /\ RecordRole
    /\ UNCHANGED <<target, problems, others>>

VerifyOwnerAuthority ==
    /\ At("verify") /\ OwnerLogsIn
    /\ Goes("create")
    /\ UNCHANGED <<server, lastOid, created, target, problems, made, others>>

\* Done and answered, or done and the answer lost.
CreateDatabase ==
    /\ At("create") /\ ~There(Database) /\ There(OwnerRole)
    /\ lastOid < MaxOids /\ lastOid' = lastOid + 1
    /\ server' = [server EXCEPT ![Database] = NewObject("", OwnerOid)]
    /\ made' = made \union {lastOid + 1}
    /\ stage' \in {"record", "clean up"} \X {"setup"}
    /\ UNCHANGED <<created, target, problems, others>>

RecordDatabase ==
    /\ At("record") /\ There(Database)
    /\ created' = created \union {Identity(Database)}
    /\ Goes("comment")
    /\ UNCHANGED <<server, lastOid, target, problems, made, others>>

\* COMMENT is committed by itself, and so is every statement of the owner here.
CommentOn ==
    /\ At("comment") /\ OwnerLogsIn /\ OwnsDatabase
    /\ server' = [server EXCEPT ![Database].marker = "ours"]
    /\ stage' \in {"reread", "clean up"} \X {"setup"}
    /\ UNCHANGED <<lastOid, created, target, problems, made, others>>
RereadDatabase ==
    /\ At("reread") /\ There(Database)
    /\ created' = (created \ {RecordOf(Database)})
                      \union {[Identity(Database) EXCEPT !.marker = "ours"]}
    /\ Goes("configure")
    /\ UNCHANGED <<server, lastOid, target, problems, made, others>>

ConfigureDatabase ==
    /\ At("configure") /\ OwnsDatabase
    /\ \A n \in RoleSet : There(n)
    /\ server' = [server EXCEPT ![Database].uses = @ \union {server[n].oid : n \in RoleSet}]
    /\ stage' \in {"prepare", "clean up"} \X {"setup"}
    /\ UNCHANGED <<lastOid, created, target, problems, made, others>>

\* upgrade_to_head and wire_roles: the handle is registered.
Prepare ==
    /\ At("prepare") /\ OwnerLogsIn /\ OwnsDatabase
    /\ stage' = <<"ready", "end">>
    /\ UNCHANGED <<server, lastOid, created, target, problems, made, others>>

\* Any step may raise, its own refusals included.
Raise ==
    /\ stage[1] \in Setup
    /\ Goes("clean up")
    /\ UNCHANGED <<server, lastOid, created, target, problems, made, others>>

\* What "except Exception" does not catch, or a kill.
Interrupt ==
    /\ stage[1] \in Setup \union Cleanup
    /\ stage' = <<"interrupted", "end">>
    /\ UNCHANGED <<server, lastOid, created, target, problems, made, others>>

-----------------------------------------------------------------------------
(* _cleanup. *)

\* drop_disposable_database, as often as it is called.
Teardown ==
    /\ At("ready")
    /\ stage' = <<"clean up", "teardown">>
    /\ problems' = {}
    /\ UNCHANGED <<server, lastOid, created, target, made, others>>

CleanupEnds(reported) ==
    stage' = <<CASE stage[2] = "setup" -> "failed"
                 [] reported = {} -> "gone"
                 [] OTHER -> "ready", "end">>

\* Phase 1: the administrator attests the cluster, or nothing is dropped.
AttestCleanup ==
    /\ At("clean up")
    /\ \/ Goes("dispose") /\ UNCHANGED problems
       \/ problems' = Names /\ CleanupEnds(problems')
    /\ UNCHANGED <<server, lastOid, created, target, made, others>>

\* Mutant: names are identities.
MatchesByName(record) == record.name = Identity(record.name).name

Matches(record) == record = Identity(record.name)

\* Phase 2: whatever changes the database is done as its owner.
CheckDatabase ==
    /\ At("dispose")
    /\ \/ /\ ~Recorded(Database) \/ (OwnerLogsIn /\ ~There(Database))
          /\ Goes("drop roles") /\ UNCHANGED problems
       \/ /\ Recorded(Database) /\ OwnerLogsIn /\ OwnsDatabase /\ Matches(RecordOf(Database))
          /\ Goes("release") /\ UNCHANGED problems
       \/ /\ Recorded(Database)
          /\ problems' = problems \union {Database} /\ Goes("drop roles")
    /\ UNCHANGED <<server, lastOid, created, target, made, others>>

\* A failure here is noted, and the drop tried all the same.
ReleaseConnections ==
    /\ At("release")
    /\ \/ OwnsDatabase /\ server' = [server EXCEPT ![Database].uses = {OwnerOid}]
       \/ UNCHANGED server
    /\ Goes("drop database")
    /\ UNCHANGED <<lastOid, created, target, problems, made, others>>

\* PostgreSQL's own check, on whatever has the name at that instant.
MayDrop == OwnerLogsIn /\ OwnsDatabase

DropDatabase ==
    /\ At("drop database")
    /\ \/ MayDrop /\ server' = [server EXCEPT ![Database] = NoObject] /\ UNCHANGED problems
       \/ problems' = problems \union {Database} /\ UNCHANGED server
    /\ Goes("drop roles")
    /\ UNCHANGED <<lastOid, created, target, made, others>>

\* Phase 3: the roles, in the order they were created, each in a transaction.
RolesRecorded == {o.name : o \in created} \ {Database}
NextTarget(n) == CHOOSE i \in 1..Len(RoleNames) : RoleNames[i] = n
IsLast(n) == \A m \in RolesRecorded : NextTarget(m) <= NextTarget(n)

DropNext(n, reported) ==
    /\ problems' = problems \union reported
    /\ IF IsLast(n) THEN CleanupEnds(problems') /\ target' = OwnerRole
       ELSE /\ target' = RoleNames[NextTarget(n) + 1]
            /\ Goes("drop roles")

NothingToDrop ==
    /\ At("drop roles") /\ RolesRecorded = {}
    /\ CleanupEnds(problems)
    /\ UNCHANGED <<server, lastOid, created, target, problems, made, others>>

CheckRole ==
    /\ At("drop roles") /\ target \in RolesRecorded
    /\ \/ ~There(target) /\ DropNext(target, {})
       \/ There(target) /\ Matches(RecordOf(target)) /\ Goes("rename")
              /\ UNCHANGED <<target, problems>>
       \/ DropNext(target, {target})
    /\ UNCHANGED <<server, lastOid, created, made, others>>

InUse(n) == There(Database) /\ server[n].oid \in server[Database].uses

\* The rename locks the role; its OID is read again under the new name.
StillTheSame(record) == There(record.name) /\ server[record.name].oid = record.oid

RenameAndDrop ==
    /\ At("rename")
    /\ \/ /\ StillTheSame(RecordOf(target)) /\ ~InUse(target)
          /\ server' = [server EXCEPT ![target] = NoObject]
          /\ DropNext(target, {})
       \/ DropNext(target, {target}) /\ UNCHANGED server
    /\ UNCHANGED <<lastOid, created, made, others>>

-----------------------------------------------------------------------------
(* Others. *)

Meddles == others < MaxOthers /\ others' = others + 1

\* A role that is in use cannot be dropped.
Droppable(n) == n # Database => There(n) /\ ~InUse(n)

Remove(n) ==
    /\ Meddles
    /\ There(n) /\ Droppable(n)
    /\ server' = [server EXCEPT ![n] = NoObject]
    /\ UNCHANGED <<lastOid, stage, created, target, problems, made>>

\* An administrator may give the per-run owner a database of that name between
\* setup and teardown; in the instant between a check and its use nobody does,
\* and the names are those of this run.
Take(n) ==
    /\ Meddles
    /\ There(n) => Droppable(n)
    /\ lastOid < MaxOids /\ lastOid' = lastOid + 1
    /\ \E owner \in {0, OwnerOid} :
           /\ owner # 0 => n = Database /\ At("ready")
           /\ server' = [server EXCEPT ![n] = NewObject("", owner)]
    /\ UNCHANGED <<stage, created, target, problems, made>>

DisposableNext ==
    \/ Attest \/ CreateRole \/ VerifyOwnerAuthority \/ CreateDatabase \/ RecordDatabase
    \/ CommentOn \/ RereadDatabase \/ ConfigureDatabase \/ Prepare
    \/ Raise \/ Interrupt
    \/ Teardown \/ AttestCleanup \/ CheckDatabase \/ ReleaseConnections \/ DropDatabase
    \/ NothingToDrop \/ CheckRole \/ RenameAndDrop
    \/ \E n \in Names : Remove(n) \/ Take(n)

DisposableSpec == DisposableInit /\ [][DisposableNext]_disposableVars

-----------------------------------------------------------------------------
(* Properties. *)

DisposableTypeOK ==
    /\ server \in [Names -> Object \union {NoObject}]
    /\ lastOid \in 0..MaxOids
    /\ stage \in Stages
    /\ created \subseteq ObjectIdentity
    /\ target \in RoleSet /\ problems \subseteq Names
    /\ made \subseteq 1..MaxOids /\ others \in 0..MaxOthers

\* Cleanup removes and alters only what this process created, whatever took its
\* name and whenever (_dispose_database_as_owner, _drop_role_atomically).
OnlyOursIsDisposed ==
    [][stage[1] \in Cleanup /\ stage' # stage =>
        \A n \in Names : server'[n] # server[n] => server[n].oid \in made]_disposableVars

\* A failed setup leaves nothing of its own that it does not report, a database
\* with its owner at least; a teardown without problems leaves nothing
\* (create_disposable_database, drop_disposable_database).
NothingIsLeftSilently ==
    \A n \in Names : server[n].oid \in made =>
        /\ ~At("gone")
        /\ At("failed") => n \in problems \/ (n = Database /\ OwnerRole \in problems)

==============================================================================
