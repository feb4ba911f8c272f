------------------------- MODULE MCDeliveryAndContext -------------------------
\* What reaches staging, and who a transaction is there.  The two share no
\* state, so a behaviour is about one and the other stays as it began.
\*
\* The delivery is in one of two situations, each bounded where the other is let
\* go.  In one, nothing is published: two commits, attempts and re-runs of their
\* publication, two reviewers who may lose write, a protection that may be
\* edited.  In the other, two releases are published: plans and applies of them,
\* and main with two more merges to come.
\*
\* The authority begins with one tenant and its credential; another tenant is to
\* be provisioned, and there is a second credential for either.  The caller of
\* one session writes its own SQL, the other has the provisioning role, and they
\* use two backends.
EXTENDS StagingDelivery, AuthContext, TLC

Review1(a, t, s) ==
    [by |-> a, at |-> t, ofHead |-> TRUE, state |-> s, association |-> "MEMBER"]

\* Both reviewers approve every commit; of commit 2 the second one then
\* requests changes.  The author's own review and one after the merge never
\* count.
MCPull == [c \in Commits |->
    [merges |-> 1, author |-> "ada", mergedAt |-> 5,
     reviews |-> {Review1("ben", 2, "APPROVED"), Review1("cyd", 3, "APPROVED"),
                  Review1("ada", 4, "CHANGES_REQUESTED"), Review1("ben", 6, "CHANGES_REQUESTED")}
                 \union IF c = 2 THEN {Review1("cyd", 4, "CHANGES_REQUESTED")} ELSE {}]]
MCAttested == [c \in Commits |->
    WorkflowPrerequisites["publish"] \union IF c = 1 THEN {} ELSE {"first_apply"}]
Protected == [exists |-> TRUE, reviewers |-> {"ben"}, preventSelfReview |-> TRUE,
              adminsBypass |-> FALSE, branches |-> {"main"}]
MCEnvironments == {Protected, [Protected EXCEPT !.adminsBypass = TRUE]}

Approval(c) == [commit |-> c, author |-> "ada", approver |-> "ben", at |-> 2, mergedAt |-> 5,
                ofHead |-> TRUE, association |-> "MEMBER", permission |-> "write"]
Published(c) == [NewAttempt(c, c, c) EXCEPT !.passed = PublishGateJobs,
                    !.evidence = Approval(c), !.published = TRUE, !.completed = TRUE]

\* Commits 1 and 2 were published by attempts 1 and 2, while only "ben" could
\* write; staging was applied once, by a human.
StartsPublished ==
    /\ main = 2
    /\ permission = [a \in Reviewers |-> IF a = "ben" THEN "write" ELSE "read"]
    /\ environment = [w \in Workflows |-> Protected]
    /\ attempt = [c \in 1..2 |-> Published(c)]
    /\ last = 2
    /\ job = Idle
    /\ tag = [c \in Commits |-> IF c <= 2 THEN c ELSE NoImage]
    /\ sbom = 1..2
    /\ record = [c \in Commits |-> IF c > 2 THEN NoRecord ELSE
                    [commit |-> c, approval |-> Approval(c), publication |-> c,
                     digest |-> c, build |-> c, sbom |-> c]]
    /\ tree = [c \in 1..2 |-> [stops |-> {}, exceptions |-> {}, authorizations |-> {}]]
    /\ now = 0 /\ vulnerable = {} /\ plan = [p \in {} |-> NoRun] /\ run = NoRun
    /\ terraform = [serial |-> 1, image |-> NoImage]
    /\ applied = {}

First == [binding |-> None, tenant |-> CHOOSE t \in Tenants : TRUE, scopes |-> Provisioning]
MCScopes == {"tenant:provision", "credential:manage", "workspace:read", "workspace:write", "audit:read"}
MCAsked == {{"workspace:read"}, {"credential:manage", "workspace:write"}, {"audit:read"},
            {"tenant:provision"}}
MCProvisioning == {"tenant:provision", "credential:manage"}
RootBinding == CHOOSE b \in Bindings : TRUE

StartsProvisioned ==
    /\ book = {[kind |-> k, tenant |-> First.tenant, by |-> First,
                id |-> IF k = "binding" THEN RootBinding ELSE None,
                scopes |-> IF k = "binding" THEN
                    {"credential:manage", "workspace:read", "workspace:write"} ELSE {}] :
               k \in {"tenant", "binding"}}
    /\ relation = [p \in Backends |-> NoRow]
    /\ nextXid = 1 /\ durable = 0
    /\ expired = {} /\ privileged = FALSE
    /\ tx = [s \in Sessions |-> NoTransaction]
    /\ map = [s \in Sessions |-> {}]

\* A step is one of the delivery's, or one of the sessions'.
DeliveryNow == StartsProvisioned /\ DeliveryNext /\ UNCHANGED vars
ContextNow == StartsPublished /\ Next /\ UNCHANGED deliveryVars
EitherInit ==
    \/ DeliveryInit /\ StartsProvisioned
    \/ StartsPublished /\ StartsProvisioned
EitherSpec == EitherInit /\ [][DeliveryNow \/ ContextNow]_<<deliveryVars, vars>>

\* The bounds of the delivery's two situations.  While nothing is published, one
\* thing is wrong at a time: a reviewer without write, or an edited protection.
\* In the other situation one more release may be asked for than there is, the
\* second plan is made after a deployment, and the approver loses write only
\* before anything else goes wrong.
NothingPublished == terraform.serial = 0
WithinDelivery ==
    IF NothingPublished
    THEN /\ \A w \in {"plan", "apply"} : environment'[w] = environment[w]
         /\ Cardinality({a \in Reviewers : permission'[a] # "write"})
              + Cardinality({w \in Workflows : environment'[w] # Protected}) <= 1
         /\ main' <= 2 /\ (last' = 0 => main' = 1) /\ now' = 0 /\ vulnerable' = {} /\ run' = NoRun
         /\ \A c \in DOMAIN tree' : \A part \in {"stops", "exceptions", "authorizations"} :
                tree'[c][part] = {}
    ELSE /\ vulnerable' \subseteq {1} /\ last' = last /\ environment' = environment
         /\ permission'["cyd"] = "read"
         /\ permission'["ben"] # "write" => vulnerable' = {} /\ now' = 0
         /\ run' # NoRun /\ run'.kind = "plan" => run'.release <= 3
         /\ Cardinality(DOMAIN plan') = 2 => applied' # {}

\* A transaction that cannot acquire a context takes no savepoint, loads
\* nothing and is over before the role gains privileges; and no credential has
\* expired while it has them.
WithinContexts ==
    /\ \A s \in Sessions : tx'[s] # NoTransaction /\ tx'[s].level # "read committed" =>
          tx'[s].saves = <<>> /\ map'[s] = {} /\ ~tx'[s].overtaken
    /\ privileged' => expired' = {}
Within == WithinDelivery /\ WithinContexts
Symmetry == Permutations(Backends)
===============================================================================
