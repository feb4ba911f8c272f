-------------------------- MODULE ReleasePublication --------------------------
(***************************************************************************)
(* The artifact-publish workflow and the checks of delivery.py it runs.    *)
(*                                                                         *)
(* A run is dispatched on the head of main, or one of its attempts is      *)
(* re-run, whole or from its failed jobs; the workflow's concurrency group *)
(* lets one attempt run at a time.  An attempt passes its gate jobs        *)
(* (preflight, verify), waits for the environment's reviewer, checks that  *)
(* the gates succeeded in exactly this attempt, builds an image whose      *)
(* labels name the attempt, and then publishes: the SBOM, one push of      *)
(* git-<commit>, the identity read back from the registry, the record.  It *)
(* may stop at any point (Interrupt), with everything it did remaining.    *)
(*                                                                         *)
(* An image, its digest, its configuration digest and the provenance in    *)
(* its labels are determined by the attempt that built it, whose number    *)
(* stands for all of them.                                                 *)
(***************************************************************************)
EXTENDS ReleaseAuthority

CONSTANTS
    MaxAttempts,    \* bound: attempts of the publication workflow
    NoRecord        \* no release record

ASSUME AttemptsAssumption == MaxAttempts \in Nat \ {0}

VARIABLES
    attempt,    \* attempt[k]: attempt k as the GitHub API reports it
    last,       \* the newest attempt
    job,        \* the running attempt: where it is and the files it holds
    tag,        \* tag[c]: the image git-c names in the registry, by its attempt
    sbom,       \* the images (attempts) whose SBOM is in the release bucket
    record      \* record[c]: the release record of commit c

authority == <<main, permission, environment>>
store == <<tag, sbom, record>>
publication == <<attempt, last, job, tag, sbom, record>>
publicationVars == <<authority, publication>>

Attempts == 1..MaxAttempts
NoImage == 0

Record == [commit: Commits, approval: Evidence, publication: Attempts, digest: Attempts,
           build: Commits, sbom: Attempts]

ASSUME NoRecordAssumption == NoRecord \notin Record

\* An attempt: its commit, its run (the first attempt of it), for each gate
\* job the attempt it is listed under and whether it succeeded, and its
\* publication job.
Attempt == [commit: Commits, run: Attempts, listed: [PublishGateJobs -> Attempts],
            passed: SUBSET PublishGateJobs, evidence: Evidence \union {NoEvidence},
            published: BOOLEAN, completed: BOOLEAN]
NewAttempt(k, c, r) ==
    [commit |-> c, run |-> r, listed |-> [g \in PublishGateJobs |-> k], passed |-> {},
     evidence |-> NoEvidence, published |-> FALSE, completed |-> FALSE]

Stage == {"idle", "preflight", "verify", "waiting", "build", "tag", "sbom", "push",
          "identity", "record"}
Mode == {"unknown", "fresh", "resume"}
Idle == [at |-> "idle", mode |-> "unknown", digest |-> NoImage]

PublicationInit ==
    /\ AuthorityInit
    /\ attempt = [k \in {} |-> NewAttempt(k, 1, 1)]
    /\ last = 0
    /\ job = Idle
    /\ tag = [c \in Commits |-> NoImage]
    /\ sbom = {}
    /\ record = [c \in Commits |-> NoRecord]

-----------------------------------------------------------------------------
(* The checks. *)

\* Each gate job appears under exactly attempt k, and succeeded.
GateJobsSucceeded(k) ==
    \A g \in PublishGateJobs : attempt[k].listed[g] = k /\ g \in attempt[k].passed

\* The predicate promotion applies to the attempt a record names.
VerifyPublishAttempt(k, c) ==
    /\ k \in DOMAIN attempt
    /\ attempt[k].commit = c
    /\ attempt[k].completed
    /\ GateJobsSucceeded(k)
    /\ attempt[k].published

Commit == attempt[last].commit

\* git-c does not exist yet, or an earlier attempt pushed it.
PublicationMode(c) == IF tag[c] = NoImage THEN "fresh" ELSE "resume"

\* What git-c is, proven from the registry: its image was built for c, and a
\* fresh publication finds the image this attempt built.
RegistryIdentityHolds(c, mode, digest) ==
    /\ digest # NoImage
    /\ attempt[digest].commit = c
    /\ mode = "fresh" => digest = last

\* The SBOM is addressed by the image, so an attempt stopped before its push
\* leaves one no record names, never one a later attempt would overwrite.
SbomStored(digest) == digest \in sbom

\* The record the running attempt produces for its commit: provenance, digest
\* and SBOM from the registry, inputs from the commit, approval from its draft.
BuildReleaseRecord(c, digest) ==
    [commit |-> c, approval |-> attempt[last].evidence, publication |-> digest,
     digest |-> digest, build |-> c, sbom |-> digest]

CheckReleaseRecord(r, c) ==
    /\ r # NoRecord
    /\ r.commit = c
    /\ RecordedApprovalHolds(r.approval, c)
    /\ r.sbom = r.digest
    /\ r.build = c

-----------------------------------------------------------------------------
(* Starting an attempt. *)

Starts(k, a, at) ==
    /\ job.at = "idle"
    /\ last < MaxAttempts
    /\ k = last + 1
    /\ last' = k
    /\ attempt' = [i \in 1..k |-> IF i = k THEN a ELSE attempt[i]]
    /\ job' = [Idle EXCEPT !.at = at]
    /\ UNCHANGED <<authority, store>>

\* A person dispatches the workflow: only on main, at its head.
Dispatch == \E k \in Attempts : Starts(k, NewAttempt(k, main, k), "preflight")

LatestOfItsRun(j) == \A i \in DOMAIN attempt : attempt[i].run = attempt[j].run => i <= j

\* "Re-run all jobs": a new attempt of the same run and commit.
RerunAll == \E k \in Attempts, j \in DOMAIN attempt :
    /\ LatestOfItsRun(j)
    /\ Starts(k, NewAttempt(k, attempt[j].commit, attempt[j].run), "preflight")

\* "Re-run failed jobs": gates that succeeded are carried over with their
\* outputs, and stay listed under the attempt they ran in.
RerunFailed == \E k \in Attempts, j \in DOMAIN attempt :
    /\ LatestOfItsRun(j)
    /\ "preflight" \in attempt[j].passed
    /\ LET carried == attempt[j].passed
       IN  Starts(k, [NewAttempt(k, attempt[j].commit, attempt[j].run) EXCEPT
                         !.listed = [g \in PublishGateJobs |->
                                        IF g \in carried THEN attempt[j].listed[g] ELSE k],
                         !.passed = carried, !.evidence = attempt[j].evidence],
                  IF "verify" \in carried THEN "waiting" ELSE "verify")

-----------------------------------------------------------------------------
(* The attempt's jobs and the publication's steps. *)

MovesTo(from, to) == job.at = from /\ job' = [job EXCEPT !.at = to]

PreflightPublish ==
    /\ MovesTo("preflight", "verify")
    /\ ReadinessHolds(Commit, "publish")
    /\ EnvironmentProtected(environment["publish"])
    /\ Approved(Commit)
    /\ Reachable(Commit)
    /\ attempt' = [attempt EXCEPT ![last].passed = @ \union {"preflight"},
                                  ![last].evidence = ApprovalEvidence(Commit)]
    /\ UNCHANGED <<authority, last, store>>

VerifyPasses ==
    /\ MovesTo("verify", "waiting")
    /\ attempt' = [attempt EXCEPT ![last].passed = @ \union {"verify"}]
    /\ UNCHANGED <<authority, last, store>>

\* Mutant: carried-over gates are not looked at.
CheckCurrentPublishAttemptBySuccess ==
    /\ MovesTo("waiting", "build")
    /\ attempt[last].passed = PublishGateJobs
    /\ attempt' = [attempt EXCEPT ![last].published = TRUE]
    /\ UNCHANGED <<authority, last, store>>

\* The publication job starts once the environment's reviewer approves, and
\* first asks for its own attempt's gates.
CheckCurrentPublishAttempt ==
    /\ MovesTo("waiting", "build")
    /\ GateJobsSucceeded(last)
    /\ attempt' = [attempt EXCEPT ![last].published = TRUE]
    /\ UNCHANGED <<authority, last, store>>

\* The image is built, inspected and drafted, before any credential.
ReleaseDraft ==
    /\ MovesTo("build", "tag")
    /\ RecordedApprovalHolds(attempt[last].evidence, Commit)
    /\ UNCHANGED <<authority, attempt, last, store>>

\* Mutant: the SBOM is left to be stored after the push.
DescribeTagPushingFirst ==
    /\ job.at = "tag"
    /\ LET mode == PublicationMode(Commit)
       IN  job' = [job EXCEPT !.mode = mode,
                              !.at = IF mode = "fresh" THEN "push" ELSE "identity"]
    /\ UNCHANGED <<authority, attempt, last, store>>

DescribeTag ==
    /\ job.at = "tag"
    /\ LET mode == PublicationMode(Commit)
       IN  job' = [job EXCEPT !.mode = mode,
                              !.at = IF mode = "fresh" THEN "sbom" ELSE "identity"]
    /\ UNCHANGED <<authority, attempt, last, store>>

\* put_once of the SBOM.
PutSbom ==
    /\ MovesTo("sbom", "push")
    /\ sbom' = sbom \union {last}
    /\ UNCHANGED <<authority, attempt, last, tag, record>>

\* Mutant: the push goes to the tag of main's head.
PushToHead ==
    /\ MovesTo("push", "identity")
    /\ tag' = [tag EXCEPT ![main] = last]
    /\ UNCHANGED <<authority, attempt, last, sbom, record>>

\* The one push; the registry refuses to move a tag that exists.
Push ==
    /\ MovesTo("push", "identity")
    /\ tag[Commit] = NoImage
    /\ tag' = [tag EXCEPT ![Commit] = last]
    /\ UNCHANGED <<authority, attempt, last, sbom, record>>

RegistryIdentity ==
    /\ job.at = "identity"
    /\ RegistryIdentityHolds(Commit, job.mode, tag[Commit])
    /\ SbomStored(tag[Commit])
    /\ CheckReleaseRecord(BuildReleaseRecord(Commit, tag[Commit]), Commit)
    /\ job' = [job EXCEPT !.at = "record", !.digest = tag[Commit]]
    /\ UNCHANGED <<authority, attempt, last, store>>

Completed(k) == [attempt EXCEPT ![k].completed = TRUE]

\* put_once of the record: stored, or already stored with the same bytes.
PutRecord ==
    /\ job.at = "record"
    /\ LET r == BuildReleaseRecord(Commit, job.digest)
       IN  /\ record[Commit] \in {NoRecord, r}
           /\ record' = [record EXCEPT ![Commit] = r]
    /\ attempt' = Completed(last)
    /\ job' = Idle
    /\ UNCHANGED <<authority, last, tag, sbom>>

\* Another record is stored at the key: the publication fails closed.
CompareRefuses ==
    /\ job.at = "record"
    /\ record[Commit] \notin {NoRecord, BuildReleaseRecord(Commit, job.digest)}
    /\ attempt' = Completed(last)
    /\ job' = Idle
    /\ UNCHANGED <<authority, last, store>>

\* A check refuses, a step fails, the runner is lost or the run is cancelled.
\* Stopped while it waits for its reviewer, the publication job is shown as
\* run or as skipped.
Interrupt ==
    /\ job.at # "idle"
    /\ \E ran \in IF job.at = "waiting" THEN BOOLEAN ELSE {attempt[last].published} :
          attempt' = [Completed(last) EXCEPT ![last].published = ran]
    /\ job' = Idle
    /\ UNCHANGED <<authority, last, store>>

-----------------------------------------------------------------------------

Merge ==
    /\ main < MaxCommits
    /\ main' = main + 1
    /\ UNCHANGED <<permission, environment, publication>>

Authority == (ChangePermission \/ EditEnvironment) /\ UNCHANGED publication

PublicationSteps ==
    \/ Dispatch \/ RerunAll \/ RerunFailed
    \/ PreflightPublish \/ VerifyPasses \/ CheckCurrentPublishAttempt \/ ReleaseDraft
    \/ DescribeTag \/ PutSbom \/ Push \/ RegistryIdentity \/ PutRecord \/ CompareRefuses
    \/ Interrupt

PublicationNext == Merge \/ Authority \/ PublicationSteps
PublicationSpec == PublicationInit /\ [][PublicationNext]_publicationVars

-----------------------------------------------------------------------------

\* Types of the registry's, the bucket's and the workflow's state.
PublicationTypeOK ==
    /\ main \in Commits
    /\ permission \in [Reviewers -> Permissions]
    /\ environment \in [Workflows -> EnvironmentStates]
    /\ last \in 0..MaxAttempts
    /\ attempt \in [1..last -> Attempt]
    /\ job \in [at: Stage, mode: Mode, digest: 0..MaxAttempts]
    /\ tag \in [Commits -> 0..last]
    /\ sbom \in SUBSET (1..last)
    /\ record \in [Commits -> Record \union {NoRecord}]

\* Whatever stored it, fresh or resumed, and whatever was re-run since, a
\* release record names an attempt that promotion accepts, the image its tag
\* names and an SBOM that is stored: no release is published that promotion
\* would refuse forever.
EveryRecordCanBePromoted ==
    \A c \in Commits : record[c] # NoRecord =>
        /\ CheckReleaseRecord(record[c], c)
        /\ VerifyPublishAttempt(record[c].publication, c)
        /\ record[c].digest = tag[c]
        /\ SbomStored(record[c].digest)

\* A publication interrupted anywhere can be resumed: an image that reached
\* the registry has its SBOM stored, was built for its tag's commit, and by
\* an attempt whose gates succeeded in it.
EveryImageCanBeResumed ==
    \A c \in Commits : tag[c] # NoImage =>
        /\ SbomStored(tag[c])
        /\ attempt[tag[c]].commit = c
        /\ GateJobsSucceeded(tag[c])

\* The promise of publication: one image and one release per commit, each
\* written once.
Book == INSTANCE ReleaseBook WITH
    image <- tag, released <- {c \in Commits : record[c] # NoRecord}, Images <- Attempts
ImplementsReleaseBook == Book!Spec

=============================================================================
