--------------------------- MODULE ReleaseAuthority ---------------------------
(***************************************************************************)
(* What admits a commit to release and deployment                          *)
(* (infra/delivery/delivery.py): the pull request it merged, the reviews   *)
(* that pull request received, the permission its reviewers hold NOW, the  *)
(* human attestations of readiness.json and the protection of the GitHub   *)
(* environments.                                                           *)
(*                                                                         *)
(* Commits are numbered in the order they are merged to main.  What a      *)
(* commit carries from its review (Pull) never changes; a reviewer's       *)
(* permission and an environment's protection are edited by people at any  *)
(* time, and each check reads them as they are when it runs.               *)
(***************************************************************************)
EXTENDS Integers, FiniteSets

CONSTANTS
    MaxCommits,     \* bound: commits merged to main
    Accounts,       \* GitHub accounts that review and author
    Permissions,    \* permissions an account may be given
    NoEvidence,     \* no approval evidence
    Pull,           \* Pull[c]: the pull request commit c merged
    Attested,       \* Attested[c]: prerequisites readiness.json of commit c attests
    EnvironmentStates  \* protections an administrator may give an environment

Commits == 1..MaxCommits
Workflows == {"publish", "plan", "apply"}

\* A review of a pull request.  "at" orders the reviews and the merge.
Review == [by: Accounts, at: Nat, ofHead: BOOLEAN,
           state: {"APPROVED", "CHANGES_REQUESTED", "DISMISSED", "COMMENTED"},
           association: {"OWNER", "MEMBER", "COLLABORATOR", "NONE"}]
PullRequest == [merges: Nat, author: Accounts, mergedAt: Nat, reviews: SUBSET Review]

\* An environment's protection as the GitHub API shows it.
Environment == [exists: BOOLEAN, reviewers: SUBSET Accounts, preventSelfReview: BOOLEAN,
                adminsBypass: BOOLEAN, branches: SUBSET {"main", "any"}]

ASSUME CommitsAssumption == MaxCommits \in Nat \ {0}
ASSUME PermissionsAssumption ==
    Permissions \subseteq {"admin", "maintain", "write", "read"} /\ "write" \in Permissions
ASSUME EnvironmentAssumption == EnvironmentStates \subseteq Environment
ASSUME PullAssumption == Pull \in [Commits -> PullRequest]
\* A pull request has finitely many reviews: any of them have a latest.
ASSUME ReviewsAssumption == \A c \in Commits : \A S \in (SUBSET Pull[c].reviews) \ {{}} :
    \E r \in S : \A s \in S : s.at <= r.at

VARIABLES
    main,           \* number of commits merged to main: origin/main is commit main
    permission,     \* permission[a]: the permission GitHub reports for a now
    environment     \* environment[w]: the protection of workflow w's environment

\* The contract of schema version 1: the gates of a publish attempt, the
\* associations and the permissions that count.
PublishGateJobs == {"preflight", "verify"}
QualifyingAssociations == {"OWNER", "MEMBER", "COLLABORATOR"}
WritePermissions == {"admin", "maintain", "write"}

\* The attestations each workflow needs.  Publication comes before the first
\* apply by a human, so it does not need that one.
WorkflowPrerequisites == [w \in Workflows |->
    {"bootstrapped", "registry", "publish_environment", "environments",
     "protected_main", "second_reviewer", "image_reviewed"}
    \union IF w = "publish" THEN {} ELSE {"first_apply"}]
ReadinessHolds(c, w) == WorkflowPrerequisites[w] \subseteq Attested[c]

EnvironmentProtected(e) ==
    /\ e.exists
    /\ e.reviewers # {}
    /\ e.preventSelfReview
    /\ ~e.adminsBypass
    /\ e.branches = {"main"}

Reachable(c) == c \in 1..main

-----------------------------------------------------------------------------
(* Approval evidence. *)

Evidence == [commit: Commits, author: Accounts, approver: Accounts, at: Nat, mergedAt: Nat,
             ofHead: BOOLEAN, association: QualifyingAssociations, permission: WritePermissions]

ASSUME NoEvidenceAssumption == NoEvidence \notin Evidence

\* Reviews that count: not the author's, of a deciding state, submitted no
\* later than the merge, from an account associated with the repository.
Considered(c) == {r \in Pull[c].reviews :
    /\ r.by # Pull[c].author
    /\ r.state \in {"APPROVED", "CHANGES_REQUESTED", "DISMISSED"}
    /\ r.at <= Pull[c].mergedAt
    /\ r.association \in QualifyingAssociations}

Reviewers == UNION {{r.by : r \in Considered(c)} : c \in Commits}

\* Of each account its latest, and of those the ones by accounts that can write now.
Latest(c) == {r \in Considered(c) : \A s \in Considered(c) : s.by = r.by => s.at <= r.at}
Qualified(c) == {r \in Latest(c) : permission[r.by] \in WritePermissions}
Approvals(c) == {r \in Qualified(c) : r.state = "APPROVED" /\ r.ofHead}

Approved(c) ==
    /\ Pull[c].merges = 1
    /\ \A r \in Qualified(c) : r.state # "CHANGES_REQUESTED"
    /\ Approvals(c) # {}

\* The evidence frozen for c now: of the approvals, the latest one.
ApprovalEvidence(c) ==
    LET chosen == CHOOSE r \in Approvals(c) : \A s \in Approvals(c) : s.at <= r.at
    IN  [commit |-> c, author |-> Pull[c].author, approver |-> chosen.by, at |-> chosen.at,
         mergedAt |-> Pull[c].mergedAt, ofHead |-> chosen.ofHead,
         association |-> chosen.association, permission |-> permission[chosen.by]]

\* A frozen approval, by its own contract and never by anyone's current permission.
RecordedApprovalHolds(a, c) ==
    /\ a # NoEvidence
    /\ a.commit = c
    /\ a.approver # a.author
    /\ a.ofHead
    /\ a.association \in QualifyingAssociations
    /\ a.permission \in WritePermissions
    /\ a.at <= a.mergedAt

\* The pull request's immutable facts still read as the approval recorded them.
PullRequestFactsHold(a, c) ==
    /\ Pull[c].merges = 1
    /\ a.author = Pull[c].author
    /\ a.mergedAt = Pull[c].mergedAt

-----------------------------------------------------------------------------
(* People change what the checks read. *)

AuthorityInit ==
    /\ main = 1
    /\ permission = [a \in Reviewers |-> "write"]
    /\ environment \in [Workflows -> {e \in EnvironmentStates : EnvironmentProtected(e)}]

ChangePermission ==
    /\ \E a \in Reviewers : \E p \in Permissions \ {permission[a]} :
          permission' = [permission EXCEPT ![a] = p]
    /\ UNCHANGED <<main, environment>>

EditEnvironment ==
    /\ \E w \in Workflows : \E e \in EnvironmentStates \ {environment[w]} :
          environment' = [environment EXCEPT ![w] = e]
    /\ UNCHANGED <<main, permission>>

=============================================================================
