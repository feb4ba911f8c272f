---------------------------- MODULE StagingDelivery ----------------------------
(***************************************************************************)
(* Promotion of a published release to staging: the staging-plan and       *)
(* staging-apply workflows, the checks of delivery.py they run, the live   *)
(* security overlay and the human authorization they read from main.       *)
(*                                                                         *)
(* Main is a history of trees: a security stop, an exception and a         *)
(* deployment authorization are entries people merge.  A workflow's job    *)
(* reads the tree of origin/main as its own checkout fetched it.  Plan and *)
(* apply share a concurrency group, so one of them runs at a time, beside  *)
(* a publication.  Time, scan findings, permissions and main go on         *)
(* changing between any two steps.                                         *)
(***************************************************************************)
EXTENDS ReleasePublication

CONSTANTS
    MaxPlans,           \* bound: saved plans
    MaxTime,            \* bound: the clock's last value
    AuthorizationLife,  \* longest life of an authorization (24 hours)
    ExceptionLife,      \* longest life of an exception (30 days)
    MaxPlanAge,         \* STAGING_MAX_PLAN_AGE_HOURS
    TrustChanges,       \* commits whose Terraform changes a human-applied resource
    Departs,            \* commits whose Terraform departs from the ECS contract
    NoRun               \* no plan or apply run

ASSUME DeliveryAssumption ==
    /\ MaxPlans \in Nat \ {0} /\ MaxTime \in Nat
    /\ AuthorizationLife \in Nat \ {0} /\ ExceptionLife \in Nat \ {0} /\ MaxPlanAge \in Nat

VARIABLES
    tree,       \* tree[c]: the delivery files in commit c of main
    now,        \* the clock
    vulnerable, \* images whose scan shows findings over the maxima
    plan,       \* plan[p]: the saved plan objects, immutable once stored
    run,        \* the plan or apply run in progress
    terraform,  \* the Terraform state: its serial and the image the services run
    applied     \* history: the applies that reached Terraform

delivery == <<tree, now, vulnerable, plan, run, terraform, applied>>
deliveryVars == <<publicationVars, delivery>>

Plans == 1..MaxPlans
Times == 0..MaxTime

\* The tuple an apply is dispatched with and an authorization names: a plan
\* object, a release commit, its digest and its record, version and content.
Inputs == [plan: Plans, release: Commits, record: Record]
Authorization == [inputs: Inputs, from: Times, until: Nat]
Exception == [digest: Attempts, from: Times, until: Nat]
Stop == [digest: Attempts, release: Commits]
Tree == [stops: SUBSET Stop, exceptions: SUBSET Exception, authorizations: SUBSET Authorization]

\* A saved plan: the commit it was made from, the release it deploys, when,
\* and the serial of the state it was made against.
Plan == [source: Commits, release: Commits, record: Record, made: Times, serial: Nat]

\* The run in progress: its step, main when it was dispatched and as its job fetched it.
PlanRun == [kind: {"plan"}, at: {"preflight", "checkout", "verify", "plan"},
            dispatched: Commits, fetched: Commits, release: Commits]
ApplyRun == [kind: {"apply"}, dispatched: Commits, fetched: Commits, inputs: Inputs,
             at: {"preflight", "checkout", "authorize", "release", "object", "apply"}]

StagingInit ==
    /\ tree = [c \in 1..main |-> [stops |-> {}, exceptions |-> {}, authorizations |-> {}]]
    /\ now = 0
    /\ vulnerable = {}
    /\ plan = [p \in {} |-> NoRun]
    /\ run = NoRun
    /\ terraform = [serial |-> 0, image |-> NoImage]
    /\ applied = {}
DeliveryInit == PublicationInit /\ StagingInit

-----------------------------------------------------------------------------
(* The checks. *)

\* A deployment authorization: it lasts at most AuthorizationLife.
AuthorizationEntryHolds(a) == a.from < a.until /\ a.until - a.from <= AuthorizationLife

\* Exactly one entry names this plan and this release, and it is in force.
DeploymentAuthorized(t, inputs) ==
    /\ \A a \in t.authorizations : AuthorizationEntryHolds(a)
    /\ \E a \in t.authorizations :
          /\ {b \in t.authorizations : b.inputs = inputs} = {a}
          /\ a.from <= now /\ now < a.until

\* One exception outside its short, started lifetime refuses every admission.
AdmissionPolicyHolds(t) == \A e \in t.exceptions :
    e.from < e.until /\ e.until - e.from <= ExceptionLife /\ e.from <= now
Exempt(t, digest) == \E e \in t.exceptions :
    e.digest = digest /\ e.from <= now /\ now < e.until

\* The overlay admits the digest: no stop of it, and no finding over the
\* maxima but those a live exception of exactly this digest names.
CheckAdmission(t, digest, c) ==
    /\ AdmissionPolicyHolds(t)
    /\ \A s \in t.stops : s.digest # digest /\ s.release # c
    /\ digest \in vulnerable => Exempt(t, digest)

\* The recorded digest is in the registry under its one tag, and is admitted.
CheckReleaseImage(t, digest, c) == tag[c] = digest /\ CheckAdmission(t, digest, c)

VerifyRelease(t, c) ==
    /\ record[c] # NoRecord
    /\ CheckReleaseRecord(record[c], c)
    /\ PullRequestFactsHold(record[c].approval, c)
    /\ VerifyPublishAttempt(record[c].publication, c)
    /\ CheckReleaseImage(t, record[c].digest, c)

\* At apply: it is the very record the dispatch and the authorization name.
VerifyAuthorizedRelease(t, inputs) ==
    /\ record[inputs.release] = inputs.record
    /\ VerifyRelease(t, inputs.release)

\* The object the key names, not older than allowed.
CheckPlanObject(p) == p \in DOMAIN plan /\ now - plan[p].made <= MaxPlanAge

\* The plan deploys the expected image and keeps the ECS contract; at apply
\* it changes nothing a human applies.
PlanNames(p, r) == p.record.digest = r.digest /\ p.source \notin Departs
SummarizePlan(p, r, mode) ==
    PlanNames(p, r) /\ (mode = "apply" => p.source \notin TrustChanges)

-----------------------------------------------------------------------------
(* What people merge, and what else changes by itself. *)

\* A merge carries main's tree on, with at most one entry added or removed.
MergesTree(t) ==
    /\ Merge
    /\ tree' = [c \in 1..main + 1 |-> IF c = main + 1 THEN t ELSE tree[c]]
    /\ UNCHANGED <<now, vulnerable, plan, run, terraform, applied>>

MainTree == tree[main]

MergeCode == MergesTree(MainTree)
MergeStop == \E c \in Commits :
    /\ record[c] # NoRecord
    /\ MergesTree([MainTree EXCEPT !.stops = @ \union
          {[digest |-> record[c].digest, release |-> c]}])
MergeException == \E d \in vulnerable, life \in 1..ExceptionLife + 1 :
    MergesTree([MainTree EXCEPT !.exceptions = @ \union
        {[digest |-> d, from |-> now, until |-> now + life]}])
RemoveException == \E e \in MainTree.exceptions :
    MergesTree([MainTree EXCEPT !.exceptions = @ \ {e}])
MergeAuthorization ==
    \E p \in DOMAIN plan, c \in Commits : \E life \in 1..AuthorizationLife + 1 :
        /\ record[c] # NoRecord
        /\ MergesTree([MainTree EXCEPT !.authorizations = @ \union
              {[inputs |-> [plan |-> p, release |-> c, record |-> record[c]],
                from |-> now, until |-> now + life]}])

Tick ==
    /\ now < MaxTime
    /\ now' = now + 1
    /\ UNCHANGED <<publicationVars, tree, vulnerable, plan, run, terraform, applied>>

\* A rescan finds a vulnerability in a published image.
ScanFinds ==
    /\ \E d \in sbom \ vulnerable : vulnerable' = vulnerable \union {d}
    /\ UNCHANGED <<publicationVars, tree, now, plan, run, terraform, applied>>

Publishes == (Authority \/ PublicationSteps) /\ UNCHANGED delivery

-----------------------------------------------------------------------------
(* staging-plan. *)

RunMoves(kind, from, to) ==
    /\ run # NoRun /\ run.kind = kind
    /\ run.at = from
    /\ run' = [run EXCEPT !.at = to]
    /\ UNCHANGED <<publicationVars, tree, now, vulnerable, plan, terraform, applied>>

DispatchPlan ==
    /\ run = NoRun
    /\ Cardinality(DOMAIN plan) < MaxPlans
    /\ \E c \in Commits :
          run' = [kind |-> "plan", at |-> "preflight", dispatched |-> main, fetched |-> main,
                  release |-> c]
    /\ UNCHANGED <<publicationVars, tree, now, vulnerable, plan, terraform, applied>>

PreflightPlan ==
    /\ RunMoves("plan", "preflight", "checkout")
    /\ ReadinessHolds(run.dispatched, "plan")
    /\ EnvironmentProtected(environment["plan"])
    /\ Approved(run.dispatched)
    /\ Reachable(run.release)

\* The job starts after its reviewer's approval, and its checkout fetches main.
CheckoutForPlan ==
    /\ run # NoRun /\ run.kind = "plan"
    /\ run.at = "checkout"
    /\ run' = [run EXCEPT !.at = "verify", !.fetched = main]
    /\ UNCHANGED <<publicationVars, tree, now, vulnerable, plan, terraform, applied>>

\* Mutant: the overlay in the commit the job has checked out.
SecurityOverlayCheckedOut ==
    IF run.kind = "plan" THEN tree[run.dispatched] ELSE tree[plan[run.inputs.plan].source]

\* The security overlay as the job fetched it from main, never the copy in
\* the commit the job has checked out.
SecurityOverlay == tree[run.fetched]

VerifyForPlan ==
    /\ RunMoves("plan", "verify", "plan")
    /\ VerifyRelease(SecurityOverlay, run.release)

\* Plan against the current state, check the summary and store the plan.
StorePlan ==
    /\ run # NoRun /\ run.kind = "plan"
    /\ run.at = "plan"
    /\ LET p == [source |-> run.dispatched, release |-> run.release,
                 record |-> record[run.release], made |-> now, serial |-> terraform.serial]
           n == Cardinality(DOMAIN plan) + 1
       IN  /\ SummarizePlan(p, record[run.release], "plan")
           /\ plan' = [i \in 1..n |-> IF i = n THEN p ELSE plan[i]]
    /\ run' = NoRun
    /\ UNCHANGED <<publicationVars, tree, now, vulnerable, terraform, applied>>

-----------------------------------------------------------------------------
(* staging-apply. *)

\* A person starts it with the values of a plan summary, or with others.
DispatchApply ==
    /\ run = NoRun
    /\ \E p \in DOMAIN plan, c \in Commits :
          /\ record[c] # NoRecord
          /\ run' = [kind |-> "apply", at |-> "preflight", dispatched |-> main, fetched |-> main,
                     inputs |-> [plan |-> p, release |-> c, record |-> record[c]]]
    /\ UNCHANGED <<publicationVars, tree, now, vulnerable, plan, terraform, applied>>

Source == plan[run.inputs.plan].source

PreflightApply ==
    /\ RunMoves("apply", "preflight", "checkout")
    /\ ReadinessHolds(run.dispatched, "apply")
    /\ EnvironmentProtected(environment["apply"])
    /\ Reachable(run.inputs.release)
    /\ DeploymentAuthorized(MainTree, run.inputs)
    /\ Approved(Source)
    /\ Reachable(Source)

\* The apply job starts after its reviewer's approval: it fetches main, and
\* the commits and the source's approval are checked again.
VerifyCheckout ==
    /\ run # NoRun /\ run.kind = "apply"
    /\ run.at = "checkout"
    /\ run' = [run EXCEPT !.at = "authorize", !.fetched = main]
    /\ Reachable(Source) /\ Reachable(run.inputs.release)
    /\ Approved(Source)
    /\ UNCHANGED <<publicationVars, tree, now, vulnerable, plan, terraform, applied>>

\* Asked again before any credential, on main as the job fetched it.
CheckAuthorization ==
    /\ RunMoves("apply", "authorize", "release")
    /\ DeploymentAuthorized(tree[run.fetched], run.inputs)

ReverifyRelease ==
    /\ RunMoves("apply", "release", "object")
    /\ VerifyAuthorizedRelease(SecurityOverlay, run.inputs)

CheckPlan ==
    /\ RunMoves("apply", "object", "apply")
    /\ CheckPlanObject(run.inputs.plan)
    /\ SummarizePlan(plan[run.inputs.plan], run.inputs.record, "apply")

\* Mutant: the plan is made anew when its state has moved on.
TerraformApplyAnyState ==
    LET p == plan[run.inputs.plan] IN
    /\ run # NoRun /\ run.kind = "apply"
    /\ run.at = "apply"
    /\ run' = NoRun
    /\ \E image \in {p.record.digest, terraform.image} :
          terraform' = [serial |-> terraform.serial + 1, image |-> image]
    /\ applied' = applied \union
          {[inputs |-> run.inputs, fetched |-> run.fetched, serial |-> terraform.serial]}
    /\ UNCHANGED <<publicationVars, tree, now, vulnerable, plan>>

\* Terraform refuses a plan made against another state than the current one.
\* A plan that changes something moves the state, also when it fails halfway.
TerraformApply ==
    LET p == plan[run.inputs.plan] IN
    /\ run # NoRun /\ run.kind = "apply"
    /\ run.at = "apply"
    /\ p.serial = terraform.serial
    /\ run' = NoRun
    /\ \E image \in {p.record.digest, terraform.image} :
          terraform' = [serial |-> terraform.serial + 1, image |-> image]
    /\ applied' = applied \union
          {[inputs |-> run.inputs, fetched |-> run.fetched, serial |-> p.serial]}
    /\ UNCHANGED <<publicationVars, tree, now, vulnerable, plan>>

\* A check refuses, a step fails, or the run is cancelled.
StopRun ==
    /\ run # NoRun
    /\ run' = NoRun
    /\ UNCHANGED <<publicationVars, tree, now, vulnerable, plan, terraform, applied>>

-----------------------------------------------------------------------------

DeliveryNext ==
    \/ MergeCode \/ MergeStop \/ MergeException \/ RemoveException \/ MergeAuthorization
    \/ Tick \/ ScanFinds \/ Publishes
    \/ DispatchPlan \/ PreflightPlan \/ CheckoutForPlan \/ VerifyForPlan \/ StorePlan
    \/ DispatchApply \/ PreflightApply \/ VerifyCheckout \/ CheckAuthorization
    \/ ReverifyRelease \/ CheckPlan \/ TerraformApply \/ StopRun

DeliverySpec == DeliveryInit /\ [][DeliveryNext]_deliveryVars

-----------------------------------------------------------------------------

\* Types of main's trees, the saved plans, the run in progress and Terraform.
DeliveryTypeOK ==
    /\ PublicationTypeOK
    /\ tree \in [1..main -> Tree]
    /\ now \in Times
    /\ vulnerable \subseteq sbom
    /\ \E n \in 0..MaxPlans : plan \in [1..n -> Plan]
    /\ run \in PlanRun \union ApplyRun \union {NoRun}
    /\ terraform \in [serial: Nat, image: 0..MaxAttempts]
    /\ applied \subseteq [inputs: Inputs, fetched: Commits, serial: Nat]

\* Whatever reached Terraform named the plan it ran and that plan's release,
\* held an authorization on the main its job fetched, and was of a published
\* release that this main did not stop, whatever was merged, found or
\* re-dispatched in between.
DeploymentsWereSanctioned ==
    \A d \in applied :
        LET i == d.inputs
            t == tree[d.fetched]
        IN  /\ plan[i.plan].record = i.record
            /\ record[i.release] = i.record
            /\ \E a \in t.authorizations :
                  a.inputs = i /\ a.until - a.from <= AuthorizationLife
            /\ \A s \in t.stops : s.release # i.release /\ s.digest # i.record.digest

\* Within its authorization's life a saved plan changes the environment once:
\* dispatching it again, after a rollback too, does not bring it back.
NoPlanIsAppliedTwice ==
    \A d, e \in applied : d.inputs.plan = e.inputs.plan => d = e

=============================================================================
