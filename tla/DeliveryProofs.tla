----------------------------- MODULE DeliveryProofs -----------------------------
(***************************************************************************)
(* Publication and promotion, proved for any number of commits, attempts   *)
(* and plans, any reviews and any lives: what reached the registry can be  *)
(* resumed, what is released can be promoted, publication implements the   *)
(* release book, and what reached Terraform was sanctioned, and once.      *)
(*                                                                         *)
(* The delivery workflows leave publication's state alone, so its          *)
(* invariant (PublicationInv) is proved of its own steps; of publication   *)
(* the delivery invariant (DeliveryInv) uses only that records and main's  *)
(* history are never rewritten and that a tag names one commit's image.    *)
(***************************************************************************)
EXTENDS StagingDelivery, FiniteSetTheorems, TLAPS

\* The running attempt: not completed; once its publication job has started
\* it is shown as run, with gates of its own; it pushes only what it has
\* described, and reaches its record only for an image it may release.
JobInv ==
    /\ job.at # "idle" => last # 0
    /\ \A k \in 1..last : attempt[k].completed \/ (k = last /\ job.at # "idle")
    /\ job.at \in {"build", "tag", "sbom", "push", "identity", "record"} =>
          attempt[last].published /\ GateJobsSucceeded(last)
    /\ job.at = "push" => last \in sbom
    /\ job.at \in {"identity", "record"} => tag[Commit] # NoImage
    /\ job.at = "record" => job.digest = tag[Commit] /\
          CheckReleaseRecord(BuildReleaseRecord(Commit, job.digest), Commit)

\* A tagged image: built for its commit, by an attempt that published, passed
\* its gates and, when it is the running one, has pushed.
ImageInv == \A c \in Commits : tag[c] # NoImage =>
    /\ tag[c] \in sbom
    /\ attempt[tag[c]].commit = c
    /\ GateJobsSucceeded(tag[c])
    /\ attempt[tag[c]].published
    /\ tag[c] = last => job.at \in {"idle", "identity", "record"}

\* A record: of its commit's image, by its own contract, from a completed attempt.
RecordInv == \A c \in Commits : record[c] # NoRecord =>
    /\ CheckReleaseRecord(record[c], c)
    /\ tag[c] # NoImage
    /\ record[c].digest = tag[c]
    /\ record[c].publication = tag[c]
    /\ attempt[tag[c]].completed

PublicationInv == PublicationTypeOK /\ JobInv /\ ImageInv /\ RecordInv

\* Main's tree t authorizes the inputs, and does not stop them.
Authorizes(t, inputs) == \E a \in t.authorizations :
    a.inputs = inputs /\ a.until - a.from <= AuthorizationLife
DoesNotStop(t, inputs) == \A s \in t.stops :
    s.release # inputs.release /\ s.digest # inputs.record.digest

\* A saved plan deploys a release that stands.
PlansInv == \A p \in DOMAIN plan : record[plan[p].release] = plan[p].record

\* The run: what its passed checks established of the main its job fetched.
RunOK(r) ==
    /\ r.fetched \in 1..main
    /\ r.kind = "plan" /\ r.at = "plan" => record[r.release] # NoRecord
    /\ r.kind = "apply" => r.inputs.plan \in DOMAIN plan
    /\ r.kind = "apply" /\ r.at \in {"release", "object", "apply"} =>
          Authorizes(tree[r.fetched], r.inputs)
    /\ r.kind = "apply" /\ r.at \in {"object", "apply"} =>
          /\ record[r.inputs.release] = r.inputs.record
          /\ DoesNotStop(tree[r.fetched], r.inputs)
    /\ r.kind = "apply" /\ r.at = "apply" =>
          plan[r.inputs.plan].record.digest = r.inputs.record.digest
Room(r) == r.kind = "plan" => Cardinality(DOMAIN plan) < MaxPlans
RunInv == run # NoRun => RunOK(run) /\ Room(run)

\* An apply used its plan's serial up.
AppliedOK(d) ==
    /\ d.fetched \in 1..main
    /\ d.inputs.plan \in DOMAIN plan
    /\ plan[d.inputs.plan].record = d.inputs.record
    /\ record[d.inputs.release] = d.inputs.record
    /\ Authorizes(tree[d.fetched], d.inputs)
    /\ DoesNotStop(tree[d.fetched], d.inputs)
    /\ d.serial = plan[d.inputs.plan].serial
    /\ d.serial < terraform.serial
AppliedInv == \A d \in applied : AppliedOK(d)

DeliveryInv ==
    PublicationInv /\ DeliveryTypeOK /\ PlansInv /\ RunInv /\ AppliedInv /\ NoPlanIsAppliedTwice

-----------------------------------------------------------------------------
(***************************************************************************)
(* The evidence and the records                                            *)
(***************************************************************************)

\* The approval frozen for a commit that is approved is evidence.
LEMMA ApprovalIsEvidence ==
  ASSUME PublicationTypeOK, NEW c \in Commits, Approved(c)
  PROVE  ApprovalEvidence(c) \in Evidence
<1>1. Approvals(c) \in (SUBSET Pull[c].reviews) \ {{}}
  BY DEF Approved, Approvals, Qualified, Latest, Considered
<1>2. \E r \in Approvals(c) : \A s \in Approvals(c) : s.at <= r.at
  BY <1>1, ReviewsAssumption
<1> DEFINE r == CHOOSE r \in Approvals(c) : \A s \in Approvals(c) : s.at <= r.at
<1>3. r \in Approvals(c)
  BY <1>2
<1> HIDE DEF r
<1>4. Pull[c] \in PullRequest
  BY PullAssumption
<1>5. /\ r \in Review
      /\ r.association \in QualifyingAssociations
      /\ permission[r.by] \in WritePermissions
  BY <1>3, <1>4 DEF Approvals, Qualified, Latest, Considered, PullRequest
<1>6. QED
  BY <1>4, <1>5 DEF ApprovalEvidence, Evidence, Review, PullRequest, r

\* A record that passes its own check is one.
LEMMA BuiltIsRecord ==
  ASSUME PublicationTypeOK, NEW c \in Commits, NEW d \in 1..last, last # 0,
         CheckReleaseRecord(BuildReleaseRecord(c, d), c)
  PROVE  BuildReleaseRecord(c, d) \in Record
<1>1. last \in 1..MaxAttempts /\ attempt[last] \in Attempt /\ d \in Attempts
  BY AttemptsAssumption DEF PublicationTypeOK, Attempts
<1>2. attempt[last].evidence \in Evidence
  BY <1>1 DEF CheckReleaseRecord, RecordedApprovalHolds, BuildReleaseRecord, Attempt
<1>3. QED
  BY <1>1, <1>2 DEF BuildReleaseRecord, Record

-----------------------------------------------------------------------------
(***************************************************************************)
(* Publication's invariant                                                 *)
(***************************************************************************)

LEMMA InitPublicationInv == PublicationInit => PublicationInv
<1> SUFFICES ASSUME PublicationInit PROVE PublicationInv
  OBVIOUS
<1>1. 1 \in Commits
  BY CommitsAssumption DEF Commits
<1>2. PublicationTypeOK
  <2>1. permission \in [Reviewers -> Permissions]
    BY PermissionsAssumption DEF PublicationInit, AuthorityInit
  <2>2. environment \in [Workflows -> EnvironmentStates]
    BY DEF PublicationInit, AuthorityInit
  <2>3. attempt \in [1..last -> Attempt]
    BY DEF PublicationInit
  <2>4. QED
    BY <1>1, <2>1, <2>2, <2>3, AttemptsAssumption
    DEF PublicationInit, AuthorityInit, PublicationTypeOK, Idle, Stage, Mode, NoImage
<1>3. JobInv /\ ImageInv /\ RecordInv
  BY DEF PublicationInit, JobInv, ImageInv, RecordInv, Idle
<1>4. QED
  BY <1>2, <1>3 DEF PublicationInv

\* A started attempt extends the list; nothing names it yet.
LEMMA StartsKeepsInv ==
  ASSUME PublicationInv, NEW k \in Attempts, NEW a \in Attempt,
         NEW at \in {"preflight", "verify", "waiting"}, Starts(k, a, at)
  PROVE  PublicationInv'
<1> USE DEF PublicationInv
<1>1. /\ k = last + 1 /\ last' = k /\ last \in 0..MaxAttempts
      /\ DOMAIN attempt = 1..last
      /\ attempt' = [i \in 1..k |-> IF i = k THEN a ELSE attempt[i]]
      /\ \A i \in 1..last : attempt'[i] = attempt[i] /\ i # k /\ i \in 1..k
      /\ UNCHANGED <<tag, sbom, record, main, permission, environment>>
      /\ job.at = "idle" /\ job' = [Idle EXCEPT !.at = at]
  BY DEF Starts, PublicationTypeOK, authority, store
<1>2. PublicationTypeOK'
  <2>1. attempt' \in [1..k -> Attempt]
    BY <1>1 DEF PublicationTypeOK
  <2>2. job' \in [at: Stage, mode: Mode, digest: 0..MaxAttempts]
    BY <1>1, AttemptsAssumption DEF Idle, Stage, Mode, NoImage
  <2>3. tag' \in [Commits -> 0..k] /\ sbom' \in SUBSET (1..k)
    BY <1>1 DEF PublicationTypeOK
  <2>4. QED
    BY <1>1, <2>1, <2>2, <2>3 DEF PublicationTypeOK, Attempts
<1>3. JobInv'
  BY <1>1 DEF JobInv, Idle, PublicationTypeOK
<1>4. \A c \in Commits : tag[c] # NoImage => tag[c] \in 1..last /\ tag'[c] = tag[c]
  BY <1>1 DEF PublicationTypeOK, NoImage
<1>5. ImageInv'
  BY <1>1, <1>4 DEF ImageInv, GateJobsSucceeded, NoImage
<1>6. RecordInv'
  BY <1>1, <1>4 DEF RecordInv, CheckReleaseRecord, RecordedApprovalHolds
<1>7. QED
  BY <1>2, <1>3, <1>5, <1>6

LEMMA NewAttemptType ==
  ASSUME NEW k \in Attempts, NEW c \in Commits, NEW r \in Attempts
  PROVE  NewAttempt(k, c, r) \in Attempt
BY DEF NewAttempt, Attempt

LEMMA StartingKeepsInv ==
  ASSUME PublicationInv, Dispatch \/ RerunAll \/ RerunFailed
  PROVE  PublicationInv'
<1>1. main \in Commits /\ DOMAIN attempt \subseteq Attempts
      /\ \A j \in DOMAIN attempt : attempt[j] \in Attempt
  BY AttemptsAssumption DEF PublicationInv, PublicationTypeOK, Attempts
<1>2. CASE Dispatch
  BY <1>1, <1>2, NewAttemptType, StartsKeepsInv DEF Dispatch
<1>3. CASE RerunAll
  <2>1. PICK k \in Attempts, j \in DOMAIN attempt :
            Starts(k, NewAttempt(k, attempt[j].commit, attempt[j].run), "preflight")
    BY <1>3 DEF RerunAll
  <2>2. attempt[j].commit \in Commits /\ attempt[j].run \in Attempts
    BY <1>1 DEF Attempt
  <2>3. QED
    BY <2>1, <2>2, NewAttemptType, StartsKeepsInv
<1>4. CASE RerunFailed
  <2> DEFINE a(k, j) == [NewAttempt(k, attempt[j].commit, attempt[j].run) EXCEPT
                            !.listed = [g \in PublishGateJobs |->
                               IF g \in attempt[j].passed THEN attempt[j].listed[g] ELSE k],
                            !.passed = attempt[j].passed, !.evidence = attempt[j].evidence]
             to(j) == IF "verify" \in attempt[j].passed THEN "waiting" ELSE "verify"
  <2>1. PICK k \in Attempts, j \in DOMAIN attempt : Starts(k, a(k, j), to(j))
    BY <1>4 DEF RerunFailed
  <2>2. attempt[j] \in Attempt
    BY <1>1
  <2>3. a(k, j) \in Attempt
    BY <2>2 DEF Attempt, NewAttempt
  <2>4. to(j) \in {"preflight", "verify", "waiting"}
    OBVIOUS
  <2> HIDE DEF a, to
  <2>5. QED
    BY <2>1, <2>3, <2>4, StartsKeepsInv
<1>5. QED
  BY <1>2, <1>3, <1>4

\* The gates and the start of the publication job report on the running
\* attempt, which no tag names yet.
LEMMA ReportKeepsInv ==
  ASSUME PublicationInv, NEW a \in Attempt, NEW to \in {"verify", "waiting", "build"},
         job.at \in {"preflight", "verify", "waiting"}, job' = [job EXCEPT !.at = to],
         attempt' = [attempt EXCEPT ![last] = a],
         a.commit = Commit, to = "build" => a.published /\ GateJobsSucceeded(last)',
         UNCHANGED <<authority, last, store>>
  PROVE  PublicationInv'
<1> USE DEF PublicationInv
<1>1. /\ last \in 1..MaxAttempts
      /\ UNCHANGED <<tag, sbom, record, main, permission, environment>>
      /\ attempt'[last] = a
      /\ \A i \in 1..last : i # last => attempt'[i] = attempt[i]
      /\ job'.at = to
  BY AttemptsAssumption DEF PublicationTypeOK, JobInv, authority, store
<1>2. \A c \in Commits : tag[c] # NoImage =>
          tag[c] \in 1..last /\ tag[c] # last /\ attempt'[tag[c]] = attempt[tag[c]]
  BY <1>1 DEF PublicationTypeOK, ImageInv, NoImage
<1>3. PublicationTypeOK'
  BY <1>1 DEF PublicationTypeOK, Stage
<1>4. JobInv'
  BY <1>1 DEF JobInv
<1>5. ImageInv'
  BY <1>1, <1>2 DEF ImageInv, GateJobsSucceeded
<1>6. RecordInv'
  BY <1>1, <1>2 DEF RecordInv, CheckReleaseRecord, RecordedApprovalHolds
<1>7. QED
  BY <1>3, <1>4, <1>5, <1>6

LEMMA GatesKeepInv ==
  ASSUME PublicationInv, PreflightPublish \/ VerifyPasses \/ CheckCurrentPublishAttempt
  PROVE  PublicationInv'
<1> USE DEF MovesTo
<1>1. last \in 1..MaxAttempts /\ attempt[last] \in Attempt /\ DOMAIN attempt = 1..last
      /\ Commit \in Commits
  <2>1. last \in 1..MaxAttempts
    BY AttemptsAssumption
    DEF PublicationInv, PublicationTypeOK, JobInv, PreflightPublish, VerifyPasses, CheckCurrentPublishAttempt
  <2>2. QED
    BY <2>1 DEF PublicationInv, PublicationTypeOK, Commit, Attempt
<1>2. CASE PreflightPublish
  <2> DEFINE a == [attempt[last] EXCEPT !.passed = @ \union {"preflight"},
                                        !.evidence = ApprovalEvidence(Commit)]
  <2>1. ApprovalEvidence(Commit) \in Evidence
    BY <1>1, <1>2, ApprovalIsEvidence DEF PreflightPublish, PublicationInv
  <2>2. a \in Attempt /\ a.commit = Commit
    BY <1>1, <2>1 DEF Attempt, PublishGateJobs, Commit
  <2>3. attempt' = [attempt EXCEPT ![last] = a]
    BY <1>1, <1>2 DEF PreflightPublish, Attempt
  <2> HIDE DEF a
  <2>4. QED
    BY <1>2, <2>2, <2>3, ReportKeepsInv DEF PreflightPublish
<1>3. CASE VerifyPasses
  <2> DEFINE a == [attempt[last] EXCEPT !.passed = @ \union {"verify"}]
  <2>1. a \in Attempt /\ a.commit = Commit
    BY <1>1 DEF Attempt, PublishGateJobs, Commit
  <2>2. attempt' = [attempt EXCEPT ![last] = a]
    BY <1>1, <1>3 DEF VerifyPasses, Attempt
  <2> HIDE DEF a
  <2>3. QED
    BY <1>3, <2>1, <2>2, ReportKeepsInv DEF VerifyPasses
<1>4. CASE CheckCurrentPublishAttempt
  <2> DEFINE a == [attempt[last] EXCEPT !.published = TRUE]
  <2>1. a \in Attempt /\ a.commit = Commit /\ a.published
        /\ a.listed = attempt[last].listed /\ a.passed = attempt[last].passed
    BY <1>1 DEF Attempt, Commit
  <2>2. attempt' = [attempt EXCEPT ![last] = a]
    BY <1>1, <1>4 DEF CheckCurrentPublishAttempt, Attempt
  <2> HIDE DEF a
  <2>3. GateJobsSucceeded(last)'
    BY <1>1, <1>4, <2>1, <2>2 DEF CheckCurrentPublishAttempt, GateJobsSucceeded
  <2>4. QED
    BY <1>4, <2>1, <2>2, <2>3, ReportKeepsInv DEF CheckCurrentPublishAttempt
<1>5. QED
  BY <1>2, <1>3, <1>4

\* The publication's own steps up to its record write the SBOM and the tag.
LEMMA WritingKeepsInv ==
  ASSUME PublicationInv, ReleaseDraft \/ DescribeTag \/ PutSbom \/ Push \/ RegistryIdentity
  PROVE  PublicationInv'
<1> USE DEF PublicationInv, MovesTo
<1>1. job.at \in {"build", "tag", "sbom", "push", "identity"}
  BY DEF ReleaseDraft, DescribeTag, PutSbom, Push, RegistryIdentity
<1>2. UNCHANGED <<authority, attempt, last, record>>
  BY DEF ReleaseDraft, DescribeTag, PutSbom, Push, RegistryIdentity, store
<1>3. last \in 1..MaxAttempts /\ Commit \in Commits /\ Commit' = Commit
      /\ attempt[last].published /\ GateJobsSucceeded(last)
  BY <1>1, <1>2, AttemptsAssumption DEF PublicationTypeOK, JobInv, Commit, Attempt
<1>0. job \in [at: Stage, mode: Mode, digest: 0..MaxAttempts] /\ tag \in [Commits -> 0..last]
      /\ sbom \in SUBSET (1..last)
  BY DEF PublicationTypeOK
<1>a. ASSUME job' \in [at: Stage, mode: Mode, digest: 0..MaxAttempts], tag' \in [Commits -> 0..last],
             sbom' \in SUBSET (1..last)
      PROVE  PublicationTypeOK'
  BY <1>2, <1>a DEF PublicationTypeOK, authority
<1>b. ASSUME UNCHANGED tag, sbom \subseteq sbom',
             job'.at \notin {"idle", "identity", "record"} => job.at \notin {"idle", "identity", "record"}
      PROVE  ImageInv' /\ RecordInv'
  BY <1>2, <1>b DEF ImageInv, RecordInv, GateJobsSucceeded, CheckReleaseRecord, RecordedApprovalHolds
<1>4. CASE ReleaseDraft
  <2>1. UNCHANGED <<tag, sbom>> /\ job' = [job EXCEPT !.at = "tag"] /\ job.at = "build"
    BY <1>4 DEF ReleaseDraft, store
  <2>2. job' \in [at: Stage, mode: Mode, digest: 0..MaxAttempts] /\ job'.at = "tag"
    BY <1>0, <2>1 DEF Stage
  <2>3. PublicationTypeOK' /\ ImageInv' /\ RecordInv'
    BY <1>0, <1>a, <1>b, <2>1, <2>2
  <2>4. JobInv'
    BY <1>2, <1>3, <2>1, <2>2 DEF JobInv, GateJobsSucceeded
  <2>5. QED
    BY <2>3, <2>4
<1>5. CASE DescribeTag
  <2>1. UNCHANGED <<tag, sbom>> /\ job.at = "tag" /\ (tag[Commit] = NoImage \/ job'.at = "identity")
    BY <1>0, <1>5 DEF DescribeTag, store, PublicationMode
  <2>2. job' \in [at: Stage, mode: Mode, digest: 0..MaxAttempts] /\ job'.at \in {"sbom", "identity"}
        /\ (job'.at = "identity" => tag[Commit] # NoImage)
    BY <1>0, <1>5 DEF DescribeTag, Stage, Mode, PublicationMode
  <2>3. PublicationTypeOK' /\ ImageInv' /\ RecordInv'
    BY <1>0, <1>a, <1>b, <2>1, <2>2
  <2>4. JobInv'
    BY <1>2, <1>3, <2>1, <2>2 DEF JobInv, GateJobsSucceeded
  <2>5. QED
    BY <2>3, <2>4
<1>6. CASE PutSbom
  <2>1. UNCHANGED tag /\ sbom' = sbom \union {last} /\ job' = [job EXCEPT !.at = "push"] /\ job.at = "sbom"
    BY <1>6 DEF PutSbom
  <2>2. job' \in [at: Stage, mode: Mode, digest: 0..MaxAttempts] /\ job'.at = "push"
        /\ sbom' \in SUBSET (1..last)
    BY <1>0, <1>3, <2>1 DEF Stage
  <2>3. PublicationTypeOK' /\ ImageInv' /\ RecordInv'
    BY <1>0, <1>a, <1>b, <2>1, <2>2
  <2>4. JobInv'
    BY <1>2, <1>3, <2>1, <2>2 DEF JobInv, GateJobsSucceeded
  <2>5. QED
    BY <2>3, <2>4
<1>7. CASE Push
  <2>1. tag' = [tag EXCEPT ![Commit] = last] /\ UNCHANGED sbom /\ last \in sbom
        /\ tag[Commit] = NoImage /\ job' = [job EXCEPT !.at = "identity"]
    BY <1>7 DEF Push, JobInv
  <2>2. PublicationTypeOK'
    <3>1. job' \in [at: Stage, mode: Mode, digest: 0..MaxAttempts] /\ tag' \in [Commits -> 0..last]
      BY <1>0, <1>3, <2>1 DEF Stage
    <3>2. QED
      BY <1>0, <1>a, <2>1, <3>1
  <2>3. JobInv'
    BY <1>2, <1>3, <2>1 DEF JobInv, PublicationTypeOK, NoImage, GateJobsSucceeded
  <2>4. ImageInv'
    BY <1>2, <1>3, <2>1 DEF ImageInv, PublicationTypeOK, GateJobsSucceeded, Commit
  <2>5. RecordInv'
    BY <1>2, <1>3, <2>1 DEF RecordInv, PublicationTypeOK, CheckReleaseRecord, RecordedApprovalHolds
  <2>6. QED
    BY <2>2, <2>3, <2>4, <2>5
<1>8. CASE RegistryIdentity
  <2>1. UNCHANGED <<tag, sbom>> /\ job' = [job EXCEPT !.at = "record", !.digest = tag[Commit]]
        /\ CheckReleaseRecord(BuildReleaseRecord(Commit, tag[Commit]), Commit)
    BY <1>8 DEF RegistryIdentity, store
  <2>2. PublicationTypeOK'
    <3>1. tag[Commit] \in 0..MaxAttempts
      BY <1>0, <1>3, AttemptsAssumption
    <3>2. job' \in [at: Stage, mode: Mode, digest: 0..MaxAttempts]
      BY <1>0, <2>1, <3>1 DEF Stage
    <3>3. QED
      BY <1>0, <1>a, <2>1, <3>2
  <2>3. job'.at = "record" /\ job'.digest = tag[Commit]
    BY <2>1 DEF PublicationTypeOK
  <2>4. CheckReleaseRecord(BuildReleaseRecord(Commit, job.digest), Commit)'
    BY <1>2, <1>3, <2>1, <2>3 DEF CheckReleaseRecord, RecordedApprovalHolds, BuildReleaseRecord
  <2>5. JobInv'
    BY <1>2, <1>3, <1>8, <2>1, <2>3, <2>4 DEF JobInv, RegistryIdentity, GateJobsSucceeded
  <2>6. ImageInv' /\ RecordInv'
    BY <1>2, <2>1, <2>3 DEF ImageInv, RecordInv, GateJobsSucceeded, CheckReleaseRecord, RecordedApprovalHolds
  <2>7. QED
    BY <2>2, <2>5, <2>6
<1>9. QED
  BY <1>4, <1>5, <1>6, <1>7, <1>8

\* The attempt that ends: completed, its publication job shown as run or not.
Ended(ran) == [attempt[last] EXCEPT !.completed = TRUE, !.published = ran]

LEMMA EndedIsAttempt ==
  ASSUME PublicationTypeOK, last # 0, NEW ran \in BOOLEAN
  PROVE  /\ last \in 1..MaxAttempts /\ attempt[last] \in Attempt /\ attempt \in [1..last -> Attempt]
         /\ Commit \in Commits
         /\ Ended(ran) \in Attempt
         /\ Ended(ran).completed /\ Ended(ran).published = ran
         /\ Ended(ran).commit = attempt[last].commit
         /\ Ended(ran).listed = attempt[last].listed
         /\ Ended(ran).passed = attempt[last].passed
         /\ [Completed(last) EXCEPT ![last].published = ran] = [attempt EXCEPT ![last] = Ended(ran)]
         /\ ran = attempt[last].published =>
               Completed(last) = [attempt EXCEPT ![last] = Ended(ran)]
<1>1. last \in 1..MaxAttempts /\ attempt[last] \in Attempt /\ attempt \in [1..last -> Attempt]
  BY AttemptsAssumption DEF PublicationTypeOK
<1> DEFINE b == [attempt[last] EXCEPT !.completed = TRUE]
<1>2. b \in Attempt /\ Completed(last) = [attempt EXCEPT ![last] = b]
  BY <1>1 DEF Completed, Attempt
<1>3. Ended(ran) = [b EXCEPT !.published = ran]
  BY DEF Ended
<1>4. ran = b.published => [b EXCEPT !.published = ran] = b
  BY <1>2 DEF Attempt
<1>5. b.published = attempt[last].published /\ b.commit = attempt[last].commit
      /\ b.listed = attempt[last].listed /\ b.passed = attempt[last].passed /\ b.completed
  BY <1>1 DEF Attempt
<1> HIDE DEF b
<1>6. /\ Ended(ran) \in Attempt
      /\ Ended(ran).completed /\ Ended(ran).published = ran
      /\ Ended(ran).commit = attempt[last].commit
      /\ Ended(ran).listed = attempt[last].listed
      /\ Ended(ran).passed = attempt[last].passed
  BY <1>2, <1>3, <1>5 DEF Attempt
<1>7. [Completed(last) EXCEPT ![last].published = ran] = [attempt EXCEPT ![last] = Ended(ran)]
  BY <1>1, <1>2, <1>3
<1>8. ran = attempt[last].published => Completed(last) = [attempt EXCEPT ![last] = Ended(ran)]
  BY <1>2, <1>3, <1>4, <1>5
<1>9. Commit \in Commits
  BY <1>1 DEF Commit, Attempt
<1>10. QED
  BY <1>1, <1>6, <1>7, <1>8, <1>9

\* An attempt that ends keeps its gates, and past its gates it keeps showing
\* its publication job as run; a record it stores is its commit's image's.
LEMMA EndKeepsInv ==
  ASSUME PublicationInv, job.at # "idle", NEW ran \in BOOLEAN,
         job.at # "waiting" => ran = attempt[last].published,
         attempt' = [attempt EXCEPT ![last] = Ended(ran)],
         job' = Idle, UNCHANGED <<authority, last, tag, sbom>>,
         record' \in [Commits -> Record \union {NoRecord}],
         \A c \in Commits : record'[c] = record[c] \/
            /\ CheckReleaseRecord(record'[c], c)
            /\ record'[c].digest = tag[c]
            /\ record'[c].publication = tag[c]
            /\ tag[c] # NoImage
  PROVE  PublicationInv'
<1> USE DEF PublicationInv
<1>1. last \in 1..MaxAttempts /\ attempt[last] \in Attempt /\ Commit \in Commits
      /\ attempt \in [1..last -> Attempt] /\ UNCHANGED <<main, permission, environment>>
      /\ last # 0
  BY AttemptsAssumption DEF PublicationTypeOK, JobInv, Commit, Attempt, authority
<1>a. last \in 1..last
  BY <1>1, AttemptsAssumption
<1>b. Ended(ran) \in Attempt
  BY <1>1, EndedIsAttempt, Zenon
<1>2. /\ attempt' \in [1..last -> Attempt]
      /\ \A k \in 1..last : k # last => attempt'[k] = attempt[k]
      /\ attempt'[last] = Ended(ran)
  BY <1>1, <1>a, <1>b
<1>3. /\ attempt'[last].completed /\ attempt'[last].published = ran
      /\ attempt'[last].commit = attempt[last].commit
      /\ attempt'[last].listed = attempt[last].listed /\ attempt'[last].passed = attempt[last].passed
  BY ZenonT(40), <1>1, <1>2, EndedIsAttempt
<1>4. \A c \in Commits : tag[c] # NoImage =>
          /\ tag[c] \in 1..last
          /\ tag[c] # last => attempt'[tag[c]] = attempt[tag[c]]
          /\ tag[c] = last => ran = attempt[last].published
  BY <1>1, <1>2 DEF PublicationTypeOK, ImageInv, NoImage
<1>5. PublicationTypeOK'
  <2>1. job' \in [at: Stage, mode: Mode, digest: 0..MaxAttempts]
    BY AttemptsAssumption DEF Idle, Stage, Mode, NoImage
  <2>2. QED
    BY <1>1, <1>2, <2>1 DEF PublicationTypeOK
<1>6. JobInv'
  BY <1>1, <1>2, <1>3 DEF JobInv, Idle
<1>7. ImageInv'
  BY <1>1, <1>3, <1>4 DEF ImageInv, GateJobsSucceeded, Idle
<1>8. RecordInv'
  <2> SUFFICES ASSUME NEW c \in Commits, record'[c] # NoRecord
               PROVE  /\ CheckReleaseRecord(record'[c], c)
                      /\ tag[c] # NoImage
                      /\ record'[c].digest = tag[c]
                      /\ record'[c].publication = tag[c]
                      /\ attempt'[tag[c]].completed
    BY DEF RecordInv, CheckReleaseRecord, RecordedApprovalHolds
  <2>1. CASE record'[c] = record[c]
    BY <1>3, <1>4, <2>1 DEF RecordInv
  <2>2. CASE record'[c] # record[c]
    <3>1. tag[c] \in 1..last /\ (tag[c] # last => attempt[tag[c]].completed)
      BY <1>4, <2>2 DEF JobInv
    <3>2. QED
      BY <1>3, <1>4, <2>2, <3>1
  <2>3. QED
    BY <2>1, <2>2
<1>9. QED
  BY <1>5, <1>6, <1>7, <1>8

\* What the record step stores: the record of its commit's image.
LEMMA PutRecordStores ==
  ASSUME PublicationInv, PutRecord
  PROVE  LET r == BuildReleaseRecord(Commit, tag[Commit])
         IN  /\ Commit \in Commits
             /\ r \in Record
             /\ record' = [record EXCEPT ![Commit] = r]
             /\ record[Commit] \in {NoRecord, r}
             /\ CheckReleaseRecord(r, Commit)
             /\ tag[Commit] # NoImage
<1> USE DEF PublicationInv
<1>1. last \in 1..MaxAttempts /\ Commit \in Commits
  BY AttemptsAssumption DEF PutRecord, PublicationTypeOK, JobInv, Commit, Attempt
<1>2. /\ tag[Commit] # NoImage
      /\ job.digest = tag[Commit]
      /\ CheckReleaseRecord(BuildReleaseRecord(Commit, tag[Commit]), Commit)
  BY DEF PutRecord, JobInv
<1>3. tag[Commit] \in 1..last
  BY <1>1, <1>2 DEF PublicationTypeOK, NoImage
<1>4. BuildReleaseRecord(Commit, tag[Commit]) \in Record
  BY <1>1, <1>2, <1>3, BuiltIsRecord
<1>5. QED
  BY <1>1, <1>2, <1>4 DEF PutRecord

LEMMA EndingKeepsInv ==
  ASSUME PublicationInv, PutRecord \/ CompareRefuses \/ Interrupt
  PROVE  PublicationInv'
<1>1. PublicationTypeOK /\ job.at # "idle" /\ last # 0 /\ last \in 1..MaxAttempts
      /\ record \in [Commits -> Record \union {NoRecord}]
  BY AttemptsAssumption
  DEF PublicationInv, PublicationTypeOK, JobInv, PutRecord, CompareRefuses, Interrupt
<1>2. attempt[last].published \in BOOLEAN
  BY <1>1 DEF PublicationTypeOK, Attempt
<1>3. CASE PutRecord
  <2> DEFINE r == BuildReleaseRecord(Commit, tag[Commit])
  <2>1. /\ r \in Record /\ record' = [record EXCEPT ![Commit] = r] /\ Commit \in Commits
        /\ CheckReleaseRecord(r, Commit) /\ tag[Commit] # NoImage
        /\ r.digest = tag[Commit] /\ r.publication = tag[Commit]
    BY <1>3, PutRecordStores DEF BuildReleaseRecord
  <2>2. attempt' = Completed(last) /\ job' = Idle /\ UNCHANGED <<authority, last, tag, sbom>>
        /\ job.at = "record"
    BY <1>3 DEF PutRecord
  <2> HIDE DEF r
  <2>3. attempt' = [attempt EXCEPT ![last] = Ended(attempt[last].published)]
    BY <1>1, <1>2, <2>2, EndedIsAttempt
  <2>4. /\ record' \in [Commits -> Record \union {NoRecord}]
        /\ \A c \in Commits : record'[c] = record[c] \/ (c = Commit /\ record'[c] = r)
    BY <1>1, <2>1
  <2>5. QED
    BY <1>2, <2>1, <2>2, <2>3, <2>4, EndKeepsInv
<1>4. CASE CompareRefuses
  <2>1. /\ attempt' = Completed(last) /\ job' = Idle /\ record' = record /\ job.at = "record"
        /\ UNCHANGED <<authority, last, tag, sbom>>
    BY <1>4 DEF CompareRefuses, store
  <2>2. attempt' = [attempt EXCEPT ![last] = Ended(attempt[last].published)]
    BY <1>1, <1>2, <2>1, EndedIsAttempt
  <2>3. QED
    BY <1>1, <1>2, <2>1, <2>2, EndKeepsInv
<1>5. CASE Interrupt
  <2>1. PICK ran \in IF job.at = "waiting" THEN BOOLEAN ELSE {attempt[last].published} :
            attempt' = [Completed(last) EXCEPT ![last].published = ran]
    BY <1>5 DEF Interrupt
  <2>2. ran \in BOOLEAN /\ (job.at # "waiting" => ran = attempt[last].published)
    BY <1>2
  <2>3. attempt' = [attempt EXCEPT ![last] = Ended(ran)]
    BY <1>1, <2>1, <2>2, EndedIsAttempt
  <2>4. job' = Idle /\ record' = record /\ UNCHANGED <<authority, last, tag, sbom>>
    BY <1>5 DEF Interrupt, store
  <2>5. QED
    BY <1>1, <2>2, <2>3, <2>4, EndKeepsInv
<1>6. QED
  BY <1>3, <1>4, <1>5

\* People edit what the checks read; what they froze stays.
LEMMA AuthorityKeepsInv ==
  ASSUME PublicationInv, Merge \/ Authority
  PROVE  PublicationInv'
<1> USE DEF PublicationInv
<1>1. UNCHANGED <<attempt, last, job, tag, sbom, record>>
  BY DEF Merge, Authority, publication
<1>2. main' \in Commits
  BY CommitsAssumption
  DEF Merge, Authority, ChangePermission, EditEnvironment, PublicationTypeOK, Commits
<1>3. permission' \in [Reviewers -> Permissions] /\ environment' \in [Workflows -> EnvironmentStates]
  BY DEF Merge, Authority, ChangePermission, EditEnvironment, PublicationTypeOK
<1>4. PublicationTypeOK'
  BY <1>1, <1>2, <1>3 DEF PublicationTypeOK
<1>5. JobInv' /\ ImageInv' /\ RecordInv'
  BY <1>1 DEF JobInv, ImageInv, RecordInv, GateJobsSucceeded, CheckReleaseRecord,
     RecordedApprovalHolds, BuildReleaseRecord, Commit
<1>6. QED
  BY <1>4, <1>5

LEMMA PublicationStep == PublicationInv /\ [PublicationNext]_publicationVars => PublicationInv'
<1>1. ASSUME PublicationInv, PublicationNext PROVE PublicationInv'
  BY <1>1, AuthorityKeepsInv, StartingKeepsInv, GatesKeepInv, WritingKeepsInv, EndingKeepsInv
  DEF PublicationNext, PublicationSteps
<1>2. ASSUME PublicationInv, UNCHANGED publicationVars PROVE PublicationInv'
  BY <1>2 DEF publicationVars, publication, authority, PublicationInv, PublicationTypeOK, JobInv,
     ImageInv, RecordInv, GateJobsSucceeded, CheckReleaseRecord, RecordedApprovalHolds,
     BuildReleaseRecord, Commit
<1>3. QED
  BY <1>1, <1>2

\* Main's history grows, and a record once stored is never rewritten.
LEMMA RecordsStay ==
  ASSUME PublicationInv, [PublicationNext]_publicationVars
  PROVE  /\ main' \in {main, main + 1} /\ main \in Nat \ {0}
         /\ \A c \in Commits : record[c] # NoRecord => record'[c] = record[c]
<1>1. main \in Nat \ {0}
  BY DEF PublicationInv, PublicationTypeOK, Commits
<1>2. main' \in {main, main + 1}
  BY DEF PublicationNext, PublicationSteps, publicationVars, authority, Merge, Authority, ChangePermission,
     EditEnvironment, Dispatch, RerunAll, RerunFailed, Starts, PreflightPublish, VerifyPasses,
     CheckCurrentPublishAttempt, ReleaseDraft, DescribeTag, PutSbom, Push, RegistryIdentity,
     PutRecord, CompareRefuses, Interrupt
<1>3. CASE PutRecord
  BY <1>1, <1>2, <1>3, PutRecordStores DEF PublicationInv, PublicationTypeOK
<1>4. CASE ~PutRecord
  <2>1. UNCHANGED record
    BY <1>4 DEF PublicationNext, PublicationSteps, publicationVars, publication, store, Merge,
       Authority, Dispatch, RerunAll, RerunFailed, Starts, PreflightPublish, VerifyPasses,
       CheckCurrentPublishAttempt, ReleaseDraft, DescribeTag, PutSbom, Push, RegistryIdentity,
       CompareRefuses, Interrupt
  <2>2. QED
    BY <1>1, <1>2, <2>1
<1>5. QED
  BY <1>3, <1>4

\* Delivery leaves publication to publish: it implements publication's specification.
LEMMA DeliveryPublishes == [DeliveryNext]_deliveryVars => [PublicationNext]_publicationVars
<1> USE DEF PublicationNext
<1>1. ASSUME NEW t, MergesTree(t) PROVE Merge
  BY <1>1 DEF MergesTree
<1>2. CASE MergeCode \/ MergeStop \/ MergeException \/ RemoveException \/ MergeAuthorization
  BY <1>1, <1>2 DEF MergeCode, MergeStop, MergeException, RemoveException, MergeAuthorization
<1>3. CASE Publishes
  BY <1>3 DEF Publishes
<1>4. CASE Tick \/ ScanFinds \/ UNCHANGED deliveryVars
  BY <1>4 DEF Tick, ScanFinds, deliveryVars
<1>5. CASE \/ DispatchPlan \/ PreflightPlan \/ CheckoutForPlan \/ VerifyForPlan \/ StorePlan
  BY <1>5 DEF DispatchPlan, PreflightPlan, CheckoutForPlan, VerifyForPlan, StorePlan, RunMoves
<1>6. CASE \/ DispatchApply \/ PreflightApply \/ VerifyCheckout \/ CheckAuthorization
           \/ ReverifyRelease \/ CheckPlan \/ TerraformApply \/ StopRun
  BY <1>6 DEF DispatchApply, PreflightApply, VerifyCheckout, CheckAuthorization,
     ReverifyRelease, CheckPlan, TerraformApply, StopRun, RunMoves
<1>7. QED
  BY <1>2, <1>3, <1>4, <1>5, <1>6 DEF DeliveryNext

-----------------------------------------------------------------------------
(***************************************************************************)
(* Promotion's invariant                                                   *)
(***************************************************************************)

LEMMA InitDeliveryInv == DeliveryInit => DeliveryInv
<1> SUFFICES ASSUME DeliveryInit PROVE DeliveryInv
  OBVIOUS
<1>1. PublicationInv /\ main = 1
  BY InitPublicationInv DEF DeliveryInit, PublicationInit, AuthorityInit
<1>2. DeliveryTypeOK
  <2>1. plan \in [1..0 -> Plan] /\ 0 \in 0..MaxPlans
    BY DeliveryAssumption DEF DeliveryInit, StagingInit
  <2>2. tree \in [1..main -> Tree]
    BY <1>1 DEF DeliveryInit, StagingInit, Tree
  <2>3. now \in Times /\ terraform \in [serial: Nat, image: 0..MaxAttempts]
    BY AttemptsAssumption, DeliveryAssumption DEF DeliveryInit, StagingInit, Times, NoImage
  <2>4. QED
    BY <1>1, <2>1, <2>2, <2>3 DEF DeliveryInit, StagingInit, DeliveryTypeOK, PublicationInv
<1>3. PlansInv /\ RunInv /\ AppliedInv /\ NoPlanIsAppliedTwice
  BY DEF DeliveryInit, StagingInit, PlansInv, RunInv, AppliedInv, NoPlanIsAppliedTwice
<1>4. QED
  BY <1>1, <1>2, <1>3 DEF DeliveryInv

\* What the run and the applies rest on stays: trees, plans and records.
LEMMA GroundStays ==
  ASSUME DeliveryInv, PublicationInv', [PublicationNext]_publicationVars,
         \A c \in 1..main : tree'[c] = tree[c],
         \A p \in DOMAIN plan : p \in DOMAIN plan' /\ plan'[p] = plan[p],
         terraform.serial <= terraform'.serial, terraform'.serial \in Nat
  PROVE  /\ \A r \in PlanRun \union ApplyRun : RunOK(r) => RunOK(r)'
         /\ \A d \in applied : AppliedOK(d)'
         /\ \A p \in DOMAIN plan : record'[plan[p].release] = plan[p].record
<1>1. /\ main' \in {main, main + 1} /\ main \in Nat \ {0}
      /\ \A c \in Commits : record[c] # NoRecord => record'[c] = record[c]
  BY RecordsStay DEF DeliveryInv
<1>2. \A c \in 1..main : c \in 1..main'
  BY <1>1
<1>3. ASSUME NEW r \in PlanRun \union ApplyRun, RunOK(r) PROVE RunOK(r)'
  <2>1. r.fetched \in 1..main' /\ tree'[r.fetched] = tree[r.fetched]
    BY <1>2, <1>3 DEF RunOK
  <2>2. CASE r \in PlanRun
    <3>1. r.release \in Commits /\ r.kind = "plan"
      BY <2>2 DEF PlanRun
    <3>2. QED
      BY <1>1, <1>3, <2>1, <3>1 DEF RunOK, Authorizes, DoesNotStop
  <2>3. CASE r \in ApplyRun
    <3>1. r.inputs.release \in Commits /\ r.kind = "apply" /\ r.inputs.record # NoRecord
      BY <2>3, NoRecordAssumption DEF ApplyRun, Inputs
    <3>2. record[r.inputs.release] = r.inputs.record => record'[r.inputs.release] = r.inputs.record
      BY <1>1, <3>1
    <3>3. QED
      BY <1>3, <2>1, <3>1, <3>2 DEF RunOK, Authorizes, DoesNotStop
  <2>4. QED
    BY <2>2, <2>3
<1>4. ASSUME NEW d \in applied PROVE AppliedOK(d)'
  <2>1. AppliedOK(d) /\ d \in [inputs: Inputs, fetched: Commits, serial: Nat]
    BY DEF DeliveryInv, AppliedInv, DeliveryTypeOK
  <2>2. d.inputs.release \in Commits /\ d.inputs.record # NoRecord /\ d.serial \in Nat
    BY <2>1, NoRecordAssumption DEF Inputs
  <2>3. record'[d.inputs.release] = d.inputs.record
    BY <1>1, <2>1, <2>2 DEF AppliedOK
  <2>4. terraform.serial \in Nat
    BY DEF DeliveryInv, DeliveryTypeOK
  <2>5. QED
    BY <1>2, <2>1, <2>2, <2>3, <2>4 DEF AppliedOK, Authorizes, DoesNotStop
<1>5. ASSUME NEW p \in DOMAIN plan PROVE record'[plan[p].release] = plan[p].record
  <2>1. plan[p] \in Plan
    BY DEF DeliveryInv, DeliveryTypeOK
  <2>2. plan[p].release \in Commits /\ plan[p].record # NoRecord
    BY <2>1, NoRecordAssumption DEF Plan
  <2>3. QED
    BY <1>1, <2>2 DEF DeliveryInv, PlansInv
<1>6. QED
  BY <1>3, <1>4, <1>5

\* The world moves on under the run: only the typing of what changed is left to show.
LEMMA WorldKeepsInv ==
  ASSUME DeliveryInv, PublicationInv', [PublicationNext]_publicationVars,
         \A c \in 1..main : tree'[c] = tree[c], UNCHANGED <<plan, run, terraform, applied>>,
         tree' \in [1..main' -> Tree], now' \in Times, vulnerable' \subseteq sbom'
  PROVE  DeliveryInv'
<1>1. DeliveryTypeOK'
  BY DEF DeliveryInv, DeliveryTypeOK, PublicationInv
<1>2. terraform.serial \in Nat /\ run \in PlanRun \union ApplyRun \union {NoRun}
  BY DEF DeliveryInv, DeliveryTypeOK
<1>3. /\ \A r \in PlanRun \union ApplyRun : RunOK(r) => RunOK(r)'
      /\ \A d \in applied : AppliedOK(d)'
      /\ \A p \in DOMAIN plan : record'[plan[p].release] = plan[p].record
  BY <1>2, GroundStays
<1>4. RunInv'
  BY <1>2, <1>3 DEF DeliveryInv, RunInv, Room
<1>5. QED
  BY <1>1, <1>3, <1>4 DEF DeliveryInv, AppliedInv, PlansInv, NoPlanIsAppliedTwice

\* A merge carries main's tree on.
LEMMA MergesKeepInv ==
  ASSUME DeliveryInv, PublicationInv',
         MergeCode \/ MergeStop \/ MergeException \/ RemoveException \/ MergeAuthorization
  PROVE  DeliveryInv'
<1>1. /\ main \in Commits /\ main \in 1..main /\ MainTree \in Tree /\ tree \in [1..main -> Tree]
      /\ record \in [Commits -> Record \union {NoRecord}]
      /\ now \in Times /\ vulnerable \subseteq sbom /\ sbom \subseteq Attempts
      /\ \A p \in DOMAIN plan : p \in Plans
  <2>1. main \in 1..main
    BY DEF DeliveryInv, PublicationInv, PublicationTypeOK, Commits
  <2>2. \A p \in DOMAIN plan : p \in Plans
    BY DeliveryAssumption DEF DeliveryInv, DeliveryTypeOK, Plans
  <2>3. sbom \subseteq Attempts
    BY AttemptsAssumption DEF DeliveryInv, PublicationInv, PublicationTypeOK, Attempts
  <2>4. QED
    BY <2>1, <2>2, <2>3 DEF DeliveryInv, DeliveryTypeOK, PublicationInv, PublicationTypeOK, MainTree
<1>2. ASSUME NEW t \in Tree, MergesTree(t) PROVE DeliveryInv'
  <2>1. /\ main' = main + 1 /\ [PublicationNext]_publicationVars /\ UNCHANGED sbom
        /\ tree' = [c \in 1..main + 1 |-> IF c = main + 1 THEN t ELSE tree[c]]
        /\ UNCHANGED <<now, vulnerable, plan, run, terraform, applied>>
    BY <1>2 DEF MergesTree, Merge, publication, PublicationNext
  <2>2. tree' \in [1..main' -> Tree] /\ \A c \in 1..main : tree'[c] = tree[c]
    BY <1>1, <2>1 DEF Commits
  <2>3. QED
    BY <1>1, <2>1, <2>2, WorldKeepsInv
<1>3. CASE MergeCode
  BY <1>1, <1>2, <1>3 DEF MergeCode
<1>4. CASE MergeStop
  <2>1. PICK c \in Commits :
          /\ record[c] # NoRecord
          /\ MergesTree([MainTree EXCEPT !.stops = @ \union {[digest |-> record[c].digest, release |-> c]}])
    BY <1>4 DEF MergeStop
  <2>2. [digest |-> record[c].digest, release |-> c] \in Stop
    BY <1>1, <2>1 DEF Stop, Record
  <2>3. QED
    BY <1>1, <1>2, <2>1, <2>2 DEF Tree
<1>5. CASE MergeException
  <2>1. PICK d \in vulnerable, life \in 1..ExceptionLife + 1 :
          MergesTree([MainTree EXCEPT !.exceptions = @ \union
              {[digest |-> d, from |-> now, until |-> now + life]}])
    BY <1>5 DEF MergeException
  <2>2. [digest |-> d, from |-> now, until |-> now + life] \in Exception
    BY <1>1, DeliveryAssumption DEF Exception, Times
  <2>3. QED
    BY <1>1, <1>2, <2>1, <2>2 DEF Tree
<1>6. CASE RemoveException
  BY <1>1, <1>2, <1>6 DEF RemoveException, Tree
<1>7. CASE MergeAuthorization
  <2>1. PICK p \in DOMAIN plan, c \in Commits, life \in 1..AuthorizationLife + 1 :
          /\ record[c] # NoRecord
          /\ MergesTree([MainTree EXCEPT !.authorizations = @ \union
                {[inputs |-> [plan |-> p, release |-> c, record |-> record[c]],
                  from |-> now, until |-> now + life]}])
    BY <1>7 DEF MergeAuthorization
  <2> DEFINE a == [inputs |-> [plan |-> p, release |-> c, record |-> record[c]],
                   from |-> now, until |-> now + life]
  <2>2. now + life \in Nat
    BY <1>1, DeliveryAssumption DEF Times
  <2>3. a \in Authorization
    BY <1>1, <2>1, <2>2 DEF Authorization, Inputs
  <2>4. QED
    BY <1>1, <1>2, <2>1, <2>3 DEF Tree
<1>8. QED
  BY <1>3, <1>4, <1>5, <1>6, <1>7

\* Time, scans and publication go on.
LEMMA OthersKeepInv ==
  ASSUME DeliveryInv, PublicationInv', [PublicationNext]_publicationVars,
         Tick \/ ScanFinds \/ Publishes \/ UNCHANGED deliveryVars
  PROVE  DeliveryInv'
<1>1. UNCHANGED <<tree, plan, run, terraform, applied>>
  BY DEF Tick, ScanFinds, Publishes, deliveryVars, delivery
<1>2. main' = main
  BY DEF Tick, ScanFinds, Publishes, deliveryVars, publicationVars, authority, Authority,
     ChangePermission, EditEnvironment, PublicationSteps, Dispatch, RerunAll, RerunFailed, Starts,
     PreflightPublish, VerifyPasses, CheckCurrentPublishAttempt, ReleaseDraft, DescribeTag, PutSbom,
     Push, RegistryIdentity, PutRecord, CompareRefuses, Interrupt
<1>3. sbom \subseteq sbom'
  BY DEF Tick, ScanFinds, Publishes, deliveryVars, publicationVars, publication, store, Authority,
     PublicationSteps, Dispatch, RerunAll, RerunFailed, Starts, PreflightPublish, VerifyPasses,
     CheckCurrentPublishAttempt, ReleaseDraft, DescribeTag, PutSbom, Push, RegistryIdentity,
     PutRecord, CompareRefuses, Interrupt
<1>4. now \in Times /\ vulnerable \subseteq sbom /\ tree \in [1..main -> Tree]
  BY DEF DeliveryInv, DeliveryTypeOK
<1>5. now' \in Times
  BY <1>4, DeliveryAssumption DEF Tick, ScanFinds, Publishes, deliveryVars, delivery, Times
<1>6. vulnerable' \subseteq sbom'
  BY <1>3, <1>4 DEF Tick, ScanFinds, Publishes, deliveryVars, delivery, publicationVars, publication
<1>7. QED
  BY <1>1, <1>2, <1>4, <1>5, <1>6, WorldKeepsInv

\* The run takes a step, and everything else stays.
LEMMA RunKeepsInv ==
  ASSUME DeliveryInv,
         run' = NoRun \/ (run' \in PlanRun \union ApplyRun /\ RunOK(run') /\ Room(run')),
         UNCHANGED <<publicationVars, tree, now, vulnerable, plan, terraform, applied>>
  PROVE  DeliveryInv'
<1>1. [PublicationNext]_publicationVars
      /\ UNCHANGED <<main, permission, environment, attempt, last, job, tag, sbom, record>>
  BY DEF publicationVars, authority, publication
<1>2. PublicationInv' /\ DeliveryTypeOK'
  <2>1. PublicationInv'
    BY <1>1, PublicationStep DEF DeliveryInv
  <2>2. QED
    BY <1>1, <2>1 DEF DeliveryInv, DeliveryTypeOK, PublicationInv
<1>3. RunInv'
  BY <1>1 DEF RunInv, RunOK, Room, Authorizes, DoesNotStop
<1>4. PlansInv' /\ AppliedInv' /\ NoPlanIsAppliedTwice'
  BY <1>1 DEF DeliveryInv, PlansInv, AppliedInv, AppliedOK, Authorizes, DoesNotStop, NoPlanIsAppliedTwice
<1>5. QED
  BY <1>2, <1>3, <1>4 DEF DeliveryInv

\* The steps of staging-plan up to its plan.
LEMMA PlanStepsKeepInv ==
  ASSUME DeliveryInv, DispatchPlan \/ PreflightPlan \/ CheckoutForPlan \/ VerifyForPlan
  PROVE  DeliveryInv'
<1>1. /\ main \in 1..main /\ main \in Commits
      /\ run # NoRun => run \in PlanRun \union ApplyRun /\ RunOK(run) /\ Room(run)
  BY DEF DeliveryInv, PublicationInv, PublicationTypeOK, DeliveryTypeOK, RunInv, Commits
<1>2. UNCHANGED <<publicationVars, tree, now, vulnerable, plan, terraform, applied>>
  BY DEF DispatchPlan, PreflightPlan, CheckoutForPlan, VerifyForPlan, RunMoves
<1>3. CASE DispatchPlan
  <2>1. run' \in PlanRun /\ run'.fetched = main /\ run'.kind = "plan" /\ run'.at = "preflight"
    BY <1>1, <1>3 DEF DispatchPlan, PlanRun
  <2>2. QED
    BY <1>1, <1>2, <1>3, <2>1, RunKeepsInv DEF RunOK, Room, DispatchPlan
<1>4. CASE ~DispatchPlan
  <2>1. run \in PlanRun /\ RunOK(run) /\ Room(run)
    <3>1. run # NoRun /\ run.kind = "plan"
      BY <1>4 DEF PreflightPlan, CheckoutForPlan, VerifyForPlan, RunMoves
    <3>2. QED
      BY <1>1, <3>1 DEF ApplyRun
  <2>2. CASE PreflightPlan
    BY <1>2, <2>1, <2>2, RunKeepsInv DEF PreflightPlan, RunMoves, RunOK, Room, PlanRun
  <2>3. CASE CheckoutForPlan
    BY <1>1, <1>2, <2>1, <2>3, RunKeepsInv DEF CheckoutForPlan, RunOK, Room, PlanRun
  <2>4. CASE VerifyForPlan
    BY <1>2, <2>1, <2>4, RunKeepsInv DEF VerifyForPlan, VerifyRelease, RunMoves, RunOK, Room, PlanRun
  <2>5. QED
    BY <1>4, <2>2, <2>3, <2>4
<1>5. QED
  BY <1>3, <1>4

LEMMA StorePlanKeepsInv ==
  ASSUME DeliveryInv, StorePlan
  PROVE  DeliveryInv'
<1>1. PICK n \in 0..MaxPlans : plan \in [1..n -> Plan]
  BY DEF DeliveryInv, DeliveryTypeOK
<1>2. Cardinality(DOMAIN plan) = n
  BY <1>1, FS_Interval
<1>3. /\ run \in PlanRun /\ RunOK(run) /\ run.at = "plan" /\ run' = NoRun /\ n < MaxPlans
      /\ UNCHANGED <<publicationVars, tree, now, vulnerable, terraform, applied>>
  BY <1>2 DEF StorePlan, DeliveryInv, DeliveryTypeOK, RunInv, Room, PlanRun, ApplyRun
<1> DEFINE p == [source |-> run.dispatched, release |-> run.release,
                 record |-> record[run.release], made |-> now, serial |-> terraform.serial]
<1>4. p \in Plan /\ record[p.release] = p.record
  <2>1. run.dispatched \in Commits /\ run.release \in Commits /\ record[run.release] # NoRecord
    BY <1>3 DEF PlanRun, RunOK
  <2>2. QED
    BY <2>1 DEF DeliveryInv, DeliveryTypeOK, PublicationInv, PublicationTypeOK, Plan
<1>5. plan' = [i \in 1..n + 1 |-> IF i = n + 1 THEN p ELSE plan[i]]
  BY <1>2 DEF StorePlan
<1> HIDE DEF p
<1>6. /\ plan' \in [1..n + 1 -> Plan] /\ n + 1 \in 0..MaxPlans
      /\ \A i \in DOMAIN plan : i \in DOMAIN plan' /\ plan'[i] = plan[i]
      /\ DOMAIN plan' = DOMAIN plan \union {n + 1} /\ plan'[n + 1] = p
  BY <1>1, <1>3, <1>4, <1>5, DeliveryAssumption
<1>7. /\ [PublicationNext]_publicationVars
      /\ UNCHANGED <<main, permission, environment, attempt, last, job, tag, sbom, record>>
      /\ PublicationInv'
  BY <1>3, PublicationStep DEF publicationVars, authority, publication, DeliveryInv
<1>8. DeliveryTypeOK'
  BY <1>3, <1>6, <1>7 DEF DeliveryInv, DeliveryTypeOK, PublicationInv
<1>9. /\ \A d \in applied : AppliedOK(d)'
      /\ \A i \in DOMAIN plan : record'[plan[i].release] = plan[i].record
  BY <1>3, <1>6, <1>7, GroundStays DEF DeliveryInv, DeliveryTypeOK
<1>10. PlansInv'
  BY <1>4, <1>6, <1>7, <1>9 DEF PlansInv
<1>11. QED
  BY <1>3, <1>7, <1>8, <1>9, <1>10 DEF DeliveryInv, AppliedInv, RunInv, NoPlanIsAppliedTwice

\* The steps of staging-apply up to Terraform.
LEMMA ApplyStepsKeepInv ==
  ASSUME DeliveryInv,
         \/ DispatchApply \/ PreflightApply \/ VerifyCheckout \/ CheckAuthorization
         \/ ReverifyRelease \/ CheckPlan \/ StopRun
  PROVE  DeliveryInv'
<1>1. /\ main \in 1..main /\ main \in Commits
      /\ run # NoRun => run \in PlanRun \union ApplyRun /\ RunOK(run)
      /\ \A p \in DOMAIN plan : p \in Plans
      /\ record \in [Commits -> Record \union {NoRecord}]
  BY DeliveryAssumption
  DEF DeliveryInv, PublicationInv, PublicationTypeOK, DeliveryTypeOK, RunInv, Commits, Plans
<1>2. UNCHANGED <<publicationVars, tree, now, vulnerable, plan, terraform, applied>>
  BY DEF DispatchApply, PreflightApply, VerifyCheckout, CheckAuthorization, ReverifyRelease,
     CheckPlan, StopRun, RunMoves
<1>3. CASE DispatchApply
  <2>1. /\ run' \in ApplyRun /\ run'.fetched = main /\ run'.kind = "apply" /\ run'.at = "preflight"
        /\ run'.inputs.plan \in DOMAIN plan
    BY <1>1, <1>3 DEF DispatchApply, ApplyRun, Inputs
  <2>2. QED
    BY <1>1, <1>2, <2>1, RunKeepsInv DEF RunOK, Room
<1>4. CASE StopRun
  BY <1>2, <1>4, RunKeepsInv DEF StopRun
<1>5. CASE ~DispatchApply /\ ~StopRun
  <2>1. run \in ApplyRun /\ RunOK(run)
    <3>1. run # NoRun /\ run.kind = "apply"
      BY <1>5 DEF PreflightApply, VerifyCheckout, CheckAuthorization, ReverifyRelease, CheckPlan, RunMoves
    <3>2. QED
      BY <1>1, <3>1 DEF PlanRun
  <2>2. CASE PreflightApply
    BY <1>2, <2>1, <2>2, RunKeepsInv DEF PreflightApply, RunMoves, RunOK, Room, ApplyRun
  <2>3. CASE VerifyCheckout
    BY <1>1, <1>2, <2>1, <2>3, RunKeepsInv DEF VerifyCheckout, RunOK, Room, ApplyRun
  <2>4. CASE CheckAuthorization
    <3>1. Authorizes(tree[run.fetched], run.inputs)
      BY <2>4 DEF CheckAuthorization, DeploymentAuthorized, AuthorizationEntryHolds, Authorizes
    <3>2. QED
      BY <1>2, <2>1, <2>4, <3>1, RunKeepsInv DEF CheckAuthorization, RunMoves, RunOK, Room, ApplyRun
  <2>5. CASE ReverifyRelease
    <3>1. record[run.inputs.release] = run.inputs.record
      BY <2>5 DEF ReverifyRelease, VerifyAuthorizedRelease
    <3>2. DoesNotStop(tree[run.fetched], run.inputs)
      BY <2>5, <3>1 DEF ReverifyRelease, VerifyAuthorizedRelease, VerifyRelease, CheckReleaseImage,
         CheckAdmission, SecurityOverlay, DoesNotStop
    <3>3. QED
      BY <1>2, <2>1, <2>5, <3>1, <3>2, RunKeepsInv DEF ReverifyRelease, RunMoves, RunOK, Room, ApplyRun
  <2>6. CASE CheckPlan
    <3>1. plan[run.inputs.plan].record.digest = run.inputs.record.digest
      BY <2>6 DEF CheckPlan, SummarizePlan, PlanNames
    <3>2. QED
      BY <1>2, <2>1, <2>6, <3>1, RunKeepsInv DEF CheckPlan, RunMoves, RunOK, Room, ApplyRun
  <2>7. QED
    BY <1>5, <2>2, <2>3, <2>4, <2>5, <2>6
<1>6. QED
  BY <1>3, <1>4, <1>5

\* The digest is the link: a plan checked to deploy the named digest deploys
\* the named record, for a digest is tagged for one commit and that commit's
\* record is never rewritten.
LEMMA SameDigestSameRecord ==
  ASSUME PublicationInv, NEW c \in Commits, NEW d \in Commits,
         record[c] # NoRecord, record[d] # NoRecord, record[c].digest = record[d].digest
  PROVE  c = d
BY DEF PublicationInv, RecordInv, ImageInv

\* Terraform applies a checked plan, against the state it was made for.
LEMMA TerraformApplyKeepsInv ==
  ASSUME DeliveryInv, TerraformApply
  PROVE  DeliveryInv'
<1> DEFINE p == plan[run.inputs.plan]
           d == [inputs |-> run.inputs, fetched |-> run.fetched, serial |-> p.serial]
<1>1. /\ run \in ApplyRun /\ RunOK(run) /\ run.at = "apply" /\ run' = NoRun
      /\ p.serial = terraform.serial
      /\ applied' = applied \union {d}
      /\ UNCHANGED <<publicationVars, tree, now, vulnerable, plan>>
  BY DEF TerraformApply, DeliveryInv, DeliveryTypeOK, RunInv, PlanRun
<1>2. run.inputs \in Inputs /\ run.fetched \in Commits /\ run.inputs.plan \in DOMAIN plan /\ p \in Plan
  BY <1>1 DEF ApplyRun, RunOK, DeliveryInv, DeliveryTypeOK
<1>3. p.record = run.inputs.record
  <2>1. record[p.release] = p.record /\ record[run.inputs.release] = run.inputs.record
    BY <1>1, <1>2 DEF DeliveryInv, PlansInv, RunOK, ApplyRun
  <2>2. p.record.digest = run.inputs.record.digest
    BY <1>1 DEF RunOK, ApplyRun
  <2>3. p.release \in Commits /\ run.inputs.release \in Commits
        /\ p.record # NoRecord /\ run.inputs.record # NoRecord
    BY <1>2, NoRecordAssumption DEF Plan, Inputs
  <2>4. QED
    BY <2>1, <2>2, <2>3, SameDigestSameRecord DEF DeliveryInv
<1>4. terraform' \in [serial: Nat, image: 0..MaxAttempts] /\ terraform'.serial = terraform.serial + 1
  <2>1. terraform.serial \in Nat /\ terraform.image \in 0..MaxAttempts
    BY DEF DeliveryInv, DeliveryTypeOK
  <2>2. p.record.digest \in 0..MaxAttempts
    BY <1>2, AttemptsAssumption DEF Plan, Record, Attempts
  <2>3. QED
    BY <2>1, <2>2 DEF TerraformApply
<1>5. /\ [PublicationNext]_publicationVars
      /\ UNCHANGED <<main, permission, environment, attempt, last, job, tag, sbom, record>>
      /\ PublicationInv'
  BY <1>1, PublicationStep DEF publicationVars, authority, publication, DeliveryInv
<1>6. d \in [inputs: Inputs, fetched: Commits, serial: Nat]
  BY <1>2 DEF Plan
<1>7. DeliveryTypeOK'
  BY <1>1, <1>4, <1>5, <1>6 DEF DeliveryInv, DeliveryTypeOK, PublicationInv
<1>8. /\ \A e \in applied : AppliedOK(e)'
      /\ \A i \in DOMAIN plan : record'[plan[i].release] = plan[i].record
  BY <1>1, <1>4, <1>5, GroundStays DEF DeliveryInv, DeliveryTypeOK
<1>9. ASSUME NEW e, e = d PROVE AppliedOK(e)'
  <2>1. terraform.serial < terraform'.serial
    BY <1>4 DEF DeliveryInv, DeliveryTypeOK
  <2>2. e.inputs = run.inputs /\ e.fetched = run.fetched /\ e.serial = p.serial
    BY <1>9
  <2>3. /\ run.kind = "apply" /\ run.fetched \in 1..main
        /\ Authorizes(tree[run.fetched], run.inputs) /\ DoesNotStop(tree[run.fetched], run.inputs)
        /\ record[run.inputs.release] = run.inputs.record
    BY <1>1 DEF RunOK, ApplyRun
  <2>4. QED
    BY <1>1, <1>2, <1>3, <1>5, <2>1, <2>2, <2>3 DEF AppliedOK, Authorizes, DoesNotStop
<1>10. NoPlanIsAppliedTwice'
  <2>1. \A e \in applied : e.inputs.plan # d.inputs.plan
    <3>1. \A e \in applied : e.serial = plan[e.inputs.plan].serial /\ e.serial < terraform.serial
      BY DEF DeliveryInv, AppliedInv, AppliedOK
    <3>2. terraform.serial \in Nat
      BY DEF DeliveryInv, DeliveryTypeOK
    <3>3. QED
      BY <1>1, <3>1, <3>2
  <2>2. QED
    BY <1>1, <2>1 DEF DeliveryInv, NoPlanIsAppliedTwice
<1>11. AppliedInv'
  BY <1>1, <1>8, <1>9 DEF AppliedInv
<1>12. PlansInv' /\ RunInv'
  BY <1>1, <1>8 DEF PlansInv, RunInv
<1>13. QED
  BY <1>5, <1>7, <1>10, <1>11, <1>12 DEF DeliveryInv

LEMMA DeliveryStep == DeliveryInv /\ [DeliveryNext]_deliveryVars => DeliveryInv'
<1> SUFFICES ASSUME DeliveryInv, [DeliveryNext]_deliveryVars PROVE DeliveryInv'
  OBVIOUS
<1>1. [PublicationNext]_publicationVars /\ PublicationInv'
  BY DeliveryPublishes, PublicationStep DEF DeliveryInv
<1>2. CASE MergeCode \/ MergeStop \/ MergeException \/ RemoveException \/ MergeAuthorization
  BY <1>1, <1>2, MergesKeepInv
<1>3. CASE Tick \/ ScanFinds \/ Publishes \/ UNCHANGED deliveryVars
  BY <1>1, <1>3, OthersKeepInv
<1>4. CASE DispatchPlan \/ PreflightPlan \/ CheckoutForPlan \/ VerifyForPlan
  BY <1>4, PlanStepsKeepInv
<1>5. CASE StorePlan
  BY <1>5, StorePlanKeepsInv
<1>6. CASE \/ DispatchApply \/ PreflightApply \/ VerifyCheckout \/ CheckAuthorization
           \/ ReverifyRelease \/ CheckPlan \/ StopRun
  BY <1>6, ApplyStepsKeepInv
<1>7. CASE TerraformApply
  BY <1>7, TerraformApplyKeepsInv
<1>8. QED
  BY <1>2, <1>3, <1>4, <1>5, <1>6, <1>7 DEF DeliveryNext

LEMMA DeliveryInvariant == DeliverySpec => []DeliveryInv
<1>1. QED
  BY InitDeliveryInv, DeliveryStep, PTL DEF DeliverySpec

\* Publication's steps are the book's: one push per commit, then its release.
LEMMA BookStep ==
  ASSUME PublicationInv, [PublicationNext]_publicationVars
  PROVE  [Book!Next]_<<tag, {c \in Commits : record[c] # NoRecord}>>
<1> DEFINE released == {c \in Commits : record[c] # NoRecord}
<1>1. CASE Push
  <2>1. /\ tag[Commit] = NoImage /\ tag' = [tag EXCEPT ![Commit] = last] /\ UNCHANGED record
        /\ job.at = "push"
    BY <1>1 DEF Push, MovesTo
  <2>2. last \in Attempts /\ Commit \in Commits
    BY <2>1, AttemptsAssumption
    DEF PublicationInv, PublicationTypeOK, JobInv, Commit, Attempt, Attempts
  <2>3. \A c \in Commits : tag[c] # last
    BY <2>1, <2>2 DEF PublicationInv, ImageInv, NoImage, Attempts
  <2>4. Book!Push(Commit)
    BY <2>1, <2>2, <2>3 DEF Book!Push
  <2>5. QED
    BY <2>2, <2>4 DEF Book!Next
<1>2. CASE PutRecord
  <2> DEFINE r == BuildReleaseRecord(Commit, tag[Commit])
  <2>1. /\ Commit \in Commits /\ record' = [record EXCEPT ![Commit] = r] /\ r # NoRecord
        /\ tag[Commit] # NoImage /\ UNCHANGED tag
    BY <1>2, PutRecordStores, NoRecordAssumption DEF PutRecord
  <2> HIDE DEF r
  <2>2. released' = released \union {Commit}
    BY <2>1 DEF PublicationInv, PublicationTypeOK
  <2>3. \E c \in Commits : Book!Release(c)
    BY <2>1, <2>2 DEF Book!Release
  <2>4. QED
    BY <2>3 DEF Book!Next
<1>3. CASE ~Push /\ ~PutRecord
  <2>1. UNCHANGED <<tag, record>>
    BY <1>3 DEF PublicationNext, PublicationSteps, publicationVars, publication, store, Merge,
       Authority, Dispatch, RerunAll, RerunFailed, Starts, PreflightPublish, VerifyPasses,
       CheckCurrentPublishAttempt, ReleaseDraft, DescribeTag, PutSbom, RegistryIdentity,
       CompareRefuses, Interrupt
  <2>2. QED
    BY <2>1
<1>4. QED
  BY <1>1, <1>2, <1>3

-----------------------------------------------------------------------------
(***************************************************************************)
(* Theorems                                                                *)
(***************************************************************************)

\* The registry, the workflows, main's trees, the plans and Terraform have their types.
THEOREM TypeCorrect == DeliverySpec => []DeliveryTypeOK
<1>1. DeliveryInv => DeliveryTypeOK
  BY DEF DeliveryInv
<1>2. QED
  BY <1>1, DeliveryInvariant, PTL

\* Wherever a publication is interrupted, its image can be resumed.
THEOREM ImagesResume == DeliverySpec => []EveryImageCanBeResumed
<1>1. DeliveryInv => EveryImageCanBeResumed
  BY DEF DeliveryInv, PublicationInv, ImageInv, EveryImageCanBeResumed, SbomStored
<1>2. QED
  BY <1>1, DeliveryInvariant, PTL

\* No release record is published that promotion would refuse forever.
THEOREM RecordsPromote == DeliverySpec => []EveryRecordCanBePromoted
<1>1. DeliveryInv => EveryRecordCanBePromoted
  <2> SUFFICES ASSUME DeliveryInv, NEW c \in Commits, record[c] # NoRecord
               PROVE  /\ CheckReleaseRecord(record[c], c)
                      /\ VerifyPublishAttempt(record[c].publication, c)
                      /\ record[c].digest = tag[c]
                      /\ SbomStored(record[c].digest)
    BY DEF EveryRecordCanBePromoted
  <2>1. RecordInv /\ ImageInv /\ PublicationTypeOK
    BY DEF DeliveryInv, PublicationInv
  <2>2. tag[c] # NoImage /\ tag[c] \in DOMAIN attempt
    BY <2>1 DEF RecordInv, PublicationTypeOK, NoImage
  <2>3. QED
    BY <2>1, <2>2 DEF RecordInv, ImageInv, VerifyPublishAttempt, SbomStored
<1>2. QED
  BY <1>1, DeliveryInvariant, PTL

\* One image and one release per commit, each written once, whatever is re-run.
THEOREM PublicationKeepsTheBook == DeliverySpec => ImplementsReleaseBook
<1>1. DeliveryInit => Book!Init
  BY DEF DeliveryInit, PublicationInit, Book!Init
<1>2. DeliveryInv /\ [DeliveryNext]_deliveryVars =>
        [Book!Next]_<<tag, {c \in Commits : record[c] # NoRecord}>>
  BY DeliveryPublishes, BookStep DEF DeliveryInv
<1>3. QED
  BY <1>1, <1>2, DeliveryInvariant, PTL DEF DeliverySpec, ImplementsReleaseBook, Book!Spec

\* What reached Terraform was authorized, and not stopped, by the main its job
\* fetched, and was the plan and the release it was dispatched with.
THEOREM AppliesAreSanctioned == DeliverySpec => []DeploymentsWereSanctioned
<1>1. DeliveryInv => DeploymentsWereSanctioned
  BY DEF DeliveryInv, AppliedInv, AppliedOK, Authorizes, DoesNotStop, DeploymentsWereSanctioned
<1>2. QED
  BY <1>1, DeliveryInvariant, PTL

\* Dispatching a saved plan again never applies it again.
THEOREM PlansApplyOnce == DeliverySpec => []NoPlanIsAppliedTwice
<1>1. DeliveryInv => NoPlanIsAppliedTwice
  BY DEF DeliveryInv
<1>2. QED
  BY <1>1, DeliveryInvariant, PTL
=============================================================================
