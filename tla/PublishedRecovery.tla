------------------------- MODULE PublishedRecovery -------------------------
(***************************************************************************)
(* The recovery of a release that was published but never qualified        *)
(* (ops/release/validation_recovery.py, the recovery half of               *)
(* platform_approval.py, approved_deployment_continuation.py): the release *)
(* commit cannot change and its required check failed, so a chain of       *)
(* reviewed repairs is merged onto main, a recovery run publishes the      *)
(* check, a readiness record is posted and, once the synchronization       *)
(* branch had to be updated, superseded by a second one, and the owner's   *)
(* merge is authorized from those records and from what GitHub still says  *)
(* of every run, check and commit they name.                               *)
(*                                                                         *)
(* A tree is the set of the commits whose content it holds; a commit that  *)
(* only merges adds nothing.  contract is what the reviewed contract of    *)
(* main fixes at its stage.  A check that GitHub does not list yet is      *)
(* waited for or fails the run, which may fail at any time anyway.         *)
(***************************************************************************)
EXTENDS Integers, Sequences, FiniteSets

CONSTANTS
  MaxRuns,    \* bound of the recovery runs dispatched
  MaxEvents   \* bound of what happens besides: unreviewed content, checks, tests
              \* and deployments repeated, comments added or deleted, expiry

ASSUME BoundsAssumption == {MaxRuns, MaxEvents} \subseteq Nat

VARIABLES
  commits, main, sync, \* the commits, and where the two branches are
  request,             \* its merge commit, and the comments there were before it
  checks,              \* required checks of the release commit, in their order
  tests,               \* Validate PR runs of other commits, in their order
  comments,
  retained,            \* the artifacts are kept and no failed run is run again
  contract,
  runs,                \* recovery runs, one at a time
  deployments,         \* the run of the merge, then the dispatched continuations
  sent,                \* which of them reached the server, in their order
  events

repository == <<commits, main, sync, request>>
evidence == <<checks, tests, comments, retained>>
vars == <<repository, evidence, contract, runs, deployments, sent, events>>

None == 0
Source == 1
Release == 2
Nothing == ""
Reviewed == {"activation", "continuation", "repair", "publication", "sync", "association"}
Later == {"deployment", "worker", "reader", "classifier"}
NoRecord == [base |-> None, head |-> None, baseTests |-> {}, headTest |-> None, about |-> None]
NoMarker == [kind |-> "none", record |-> NoRecord]

NewCommit(adds, parents, tree, marker) ==
  [adds |-> adds, parents |-> parents, tree |-> tree, marker |-> marker]
Parents(c) == commits[c].parents
Tree(c) == commits[c].tree
Open == request.merge = None
Fresh == Len(commits) + 1
Event == events < MaxEvents /\ events' = events + 1

(* After the activation and the continuation: two recovery runs failed.    *)
Init ==
  /\ commits = << NewCommit("source", << >>, {1}, NoMarker),
                  NewCommit("release", <<1>>, {1, 2}, NoMarker),
                  NewCommit("activation", <<1>>, {1, 3}, NoMarker),
                  NewCommit(Nothing, <<1, 3>>, {1, 3}, NoMarker),
                  NewCommit("continuation", <<4>>, {1, 3, 5}, NoMarker),
                  NewCommit(Nothing, <<4, 5>>, {1, 3, 5}, NoMarker) >>
  /\ main = 6 /\ sync = Release /\ request = [merge |-> None, after |-> 0]
  /\ checks = <<[suite |-> 1, status |-> "failure", done |-> 1]>>
  /\ tests = << >> /\ comments = << >> /\ retained = TRUE
  /\ contract = [run |-> None, check |-> None, record |-> None, prior |-> None,
                 approval |-> NoMarker]
  /\ runs = << >> /\ deployments = << >> /\ sent = << >> /\ events = 0

-----------------------------------------------------------------------------
(* validation_recovery: which histories are reviewed.                      *)
ChangedPaths(base, c) ==
  {commits[d].adds : d \in (Tree(base) \ Tree(c)) \cup (Tree(c) \ Tree(base))}
DirectMerge(c, stage) ==
  /\ Len(Parents(c)) = 2
  /\ Tree(Parents(c)[2]) = Tree(c)
  /\ ChangedPaths(Parents(c)[1], Parents(c)[2]) = {stage}

ReleaseIdentity == Parents(Release) = <<Source>>
ActivationMerge(c) == DirectMerge(c, "activation") /\ Parents(c)[1] = Source
ContinuationMerge(c) == DirectMerge(c, "continuation") /\ ActivationMerge(Parents(c)[1])
RepairMerge(c) ==
  ReleaseIdentity /\ DirectMerge(c, "repair") /\ ContinuationMerge(Parents(c)[1])
PublicationRepairMerge(c) == DirectMerge(c, "publication") /\ RepairMerge(Parents(c)[1])
SyncRepairMerge(c) == DirectMerge(c, "sync") /\ PublicationRepairMerge(Parents(c)[1])
AssociationRepairMerge(c) == DirectMerge(c, "association") /\ SyncRepairMerge(Parents(c)[1])

\* Mutant: what the merge tree holds is not compared.
AnyMerge(c) == Len(Parents(c)) = 2
CleanMerge(c) == Tree(c) = Tree(Parents(c)[1]) \cup Tree(Parents(c)[2])

SyncUpdate(head, repair) ==
  LET prior == contract.prior
  IN /\ AssociationRepairMerge(repair) /\ prior # None
     /\ Parents(prior) = <<Release, Parents(repair)[1]>> /\ CleanMerge(prior)
     /\ Parents(head) = <<prior, repair>> /\ CleanMerge(head)

SyncMerge(c) ==
  /\ Len(Parents(c)) = 2
  /\ SyncUpdate(Parents(c)[2], Parents(c)[1]) /\ CleanMerge(c)

(* No next release while main is one of these.                             *)
Follows(stage, base) ==
  \/ stage = "deployment" /\ SyncMerge(base)
  \/ stage = "worker" /\ DirectMerge(base, "deployment")
  \/ stage = "reader" /\ DirectMerge(base, "worker")
  \/ stage = "classifier" /\ DirectMerge(base, "reader")
Hold(c) ==
  LET held[d \in 1..Len(commits)] ==
        \/ AssociationRepairMerge(d) \/ SyncMerge(d)
        \/ \E stage \in Later :
             DirectMerge(d, stage) /\ Follows(stage, Parents(d)[1]) /\ held[Parents(d)[1]]
  IN held[c]

(* The release is absent from c, the last repair, and the update that is   *)
(* synthesized from it would be the reviewed one.                          *)
PendingLedger(c) ==
  LET prior == contract.prior
  IN /\ Release \notin Tree(c) /\ AssociationRepairMerge(c) /\ prior # None
     /\ Parents(prior) = <<Release, Parents(c)[1]>> /\ CleanMerge(prior)

-----------------------------------------------------------------------------
(* platform_approval: what GitHub still says of the evidence.              *)
Newest(c) ==
  LET of == {i \in 1..Len(tests) : tests[i].commit = c}
  IN IF of = {} THEN None ELSE CHOOSE i \in of : \A j \in of : j <= i
Passed(test) == test # None /\ tests[test].status = "success"
(* The runs of a repair and of the repair before it.                       *)
MainRuns(base) == {Newest(base), Newest(Parents(base)[1])}
MainValidated(base) == \A test \in MainRuns(base) : Passed(test)
RunsStand(record) ==
  \A test \in record.baseTests : Passed(test) /\ test = Newest(tests[test].commit)

(* Only the newest check of a suite is listed as its latest.               *)
Latest(i) == \A j \in (i + 1)..Len(checks) : checks[j].suite # checks[i].suite
Completed(i) == checks[i].status # "pending"
\* Mutant: a check that completed in the same second does not supersede.
NotAfter(i, recorded) == Completed(i) /\ checks[i].done <= checks[recorded].done
Before(i, recorded) == Completed(i) /\ checks[i].done < checks[recorded].done
Recorded(i, conclusion) == checks[i].status = conclusion
HistoricalStands ==
  Recorded(1, "failure") /\ \A i \in 2..Len(checks) : checks[i].suite # checks[1].suite
HistoricalIsCurrent ==
  Latest(1) /\ \A i \in 2..Len(checks) : Latest(i) => Before(i, 1)
PublishedIsCurrent ==
  LET c == contract.check
  IN Latest(c) /\ \A i \in 1..Len(checks) : Latest(i) /\ i # c => Before(i, c)

NewestRun ==
  \A r \in (contract.run + 1)..Len(runs) :
    ~(runs[r].kind = "validate" /\ runs[r].base = runs[contract.run].base)
PublishedAsRecorded == Recorded(contract.check, "success")
HistoryIsPresent == Recorded(1, "failure") /\ PublishedAsRecorded
PublishedCheckStands ==
  HistoricalStands /\ HistoryIsPresent /\ PublishedIsCurrent
ArtifactRetained == retained
FailedRunsStand == retained
Attested(r) == runs[r].kind = "validate" /\ RepairMerge(runs[r].base)
PartialPublicationStands ==
  /\ NewestRun /\ Attested(contract.run)
  /\ ArtifactRetained /\ FailedRunsStand /\ PublishedCheckStands
HistoricalEvidence ==
  PartialPublicationStands /\ RunsStand(comments[contract.record].record)

(* What a record states must be what the contract fixes.                   *)
EvidenceStated(record) == record.about = contract.check
PublicationEvidence(record) == DirectMerge(record.base, "publication")
RecoveryPayload(record) ==
  record.head = Release /\ PublicationEvidence(record) /\ EvidenceStated(record)
UpdateEvidence(record) ==
  DirectMerge(record.base, "association") /\ DirectMerge(Parents(record.base)[1], "sync")
CurrentPayload(record) == record.about = contract.record /\ UpdateEvidence(record)

UpdateRemote(record) ==
  /\ Parents(contract.prior) = <<Release, Parents(record.base)[1]>>
  /\ Parents(record.head) = <<contract.prior, record.base>>
  /\ sync = record.head
NativeCheck(record) == record.headTest = Newest(record.head) /\ Passed(record.headTest)

Live(kind) == {i \in 1..Len(comments) : comments[i].kind = kind /\ comments[i].live}
OneHistorical == Live("v1") = {contract.record} /\ comments[contract.record].bot

-----------------------------------------------------------------------------
(* The repository: reviewed repairs, and what was not reviewed.            *)
Written(stage) ==
  \/ stage = "repair" /\ ContinuationMerge(main)
  \/ stage = "publication" /\ RepairMerge(main)
     /\ \E r \in 1..Len(runs) : runs[r].step = "partial"
  \/ stage = "sync" /\ PublicationRepairMerge(main)
     /\ \E i \in Live("v1") : comments[i].bot
  \/ stage = "association" /\ SyncRepairMerge(main) /\ sync # Release
  \/ stage = "deployment" /\ main = request.merge
     /\ deployments[1].status = "failed" /\ commits[main].marker.kind = "v2"
  \/ stage \in {"worker", "reader", "classifier"} /\ Follows(stage, main) /\ sent # << >>

(* What the contract fixes with a stage.                                   *)
FixesPublication ==
  \E r \in {r \in 1..Len(runs) : runs[r].step = "partial"} :
    contract' = [contract EXCEPT !.run = r, !.check = runs[r].check]
FixesRecord ==
  \E i \in {i \in Live("v1") : comments[i].bot} : contract' = [contract EXCEPT !.record = i]
FixesUpdate == contract' = [contract EXCEPT !.prior = sync]
FixesApproval == contract' = [contract EXCEPT !.approval = commits[main].marker]
Fixes(stage) ==
  \/ stage = "publication" /\ FixesPublication
  \/ stage = "sync" /\ FixesRecord
  \/ stage = "association" /\ FixesUpdate
  \/ stage = "deployment" /\ FixesApproval
  \/ stage \in {"repair", "worker", "reader", "classifier"} /\ UNCHANGED contract

Tested(c, status) == tests' = Append(tests, [commit |-> c, status |-> status])
MergeOnMain(adds, edit) ==
  LET head == NewCommit(adds, <<main>>, Tree(main) \cup {Fresh}, NoMarker)
      tree == head.tree \cup (IF edit = Nothing THEN {} ELSE {Fresh + 1})
  IN /\ commits' = commits \o <<head, NewCommit(edit, <<main, Fresh>>, tree, NoMarker)>>
     /\ main' = Fresh + 1
     /\ Tested(Fresh + 1, "success")
MergeReview(stage) ==
  /\ Written(stage) /\ Fixes(stage) /\ MergeOnMain(stage, Nothing)
  /\ UNCHANGED <<sync, request, checks, comments, retained, runs, deployments, sent, events>>
(* Other paths than the reviewed ones, or a merge edited after its tests.  *)
MergeUnreviewed ==
  /\ Event
  /\ \/ MergeOnMain("other", Nothing) /\ UNCHANGED contract
     \/ \E stage \in Reviewed \cup Later :
          Written(stage) /\ Fixes(stage) /\ MergeOnMain(stage, "other")
  /\ UNCHANGED <<sync, request, checks, comments, retained, runs, deployments, sent>>

UpdateBranch ==
  /\ Open /\ ~(Tree(main) \subseteq Tree(sync))
  /\ \E edit \in {Nothing, "other"} :
       /\ IF edit = Nothing THEN UNCHANGED events ELSE Event
       /\ commits' = Append(commits, NewCommit(edit, <<sync, main>>,
            Tree(sync) \cup Tree(main) \cup (IF edit = Nothing THEN {} ELSE {Fresh}), NoMarker))
  /\ UNCHANGED <<main, request, checks, comments, retained, contract, runs, deployments, sent>>
  /\ sync' = Fresh /\ Tested(Fresh, IF SyncUpdate(sync, main)' THEN "success" ELSE "failure")

(* The owner merges, with the marker of a record or with none.             *)
MergeRequest ==
  /\ Open
  /\ \E marker \in {NoMarker} \cup {[kind |-> comments[i].kind, record |-> comments[i].record] :
                                      i \in Live("v1") \cup Live("v2")} :
       commits' = Append(commits,
         NewCommit(Nothing, <<main, sync>>, Tree(main) \cup Tree(sync), marker))
  /\ main' = Fresh /\ request' = [merge |-> Fresh, after |-> Len(comments)]
  /\ deployments' = <<[commit |-> Fresh, attempt |-> 1, passed |-> 0, status |-> "running"]>>
  /\ UNCHANGED <<sync, evidence, contract, runs, sent, events>>

-----------------------------------------------------------------------------
(* Checks, tests and comments change at any time.  What a later check      *)
(* concludes is not looked at.                                             *)
CheckAgain ==
  /\ Event
  /\ \E suite \in {checks[i].suite : i \in 1..Len(checks)} \cup {Len(checks) + 1} :
       /\ suite \notin {checks[i].suite : i \in 1..Len(checks)} => Open /\ sync = Release
       /\ checks' = Append(checks, [suite |-> suite, status |-> "pending", done |-> 0])
  /\ UNCHANGED <<repository, tests, comments, retained, contract, runs, deployments, sent>>

Now == {checks[i].done : i \in 1..Len(checks)}
Latter == CHOOSE t \in Now : \A u \in Now : u <= t
CheckEnds(i) ==
  /\ checks[i].status = "pending"
  /\ \E t \in {Latter, Latter + 1} :
       checks' = [checks EXCEPT ![i] = [@ EXCEPT !.status = "failure", !.done = t]]
  /\ UNCHANGED <<repository, tests, comments, retained, contract, runs, deployments, sent, events>>

TestAgain(i) ==
  /\ Event /\ tests[i].status # "pending"
  /\ Tested(tests[i].commit, "pending")
  /\ UNCHANGED <<repository, checks, comments, retained, contract, runs, deployments, sent>>

(* A test that is repeated on an earlier repair runs the lane of that      *)
(* repair, which the source no longer holds: it may pass.                  *)
EarlierLane(c) ==
  /\ Release \notin Tree(c)
  /\ RepairMerge(c) \/ PublicationRepairMerge(c) \/ SyncRepairMerge(c)
(* The ledger lane lets only a reviewed history pass.                      *)
LedgerLane(c) ==
  \/ PendingLedger(c) \/ EarlierLane(c)
  \/ Release \in Tree(c) /\ (c # main => SyncUpdate(c, Parents(c)[2]))
TestEnds(i) ==
  /\ tests[i].status = "pending"
  /\ \E status \in {"success", "failure"} :
       /\ status = "success" => LedgerLane(tests[i].commit)
       /\ tests' = [tests EXCEPT ![i].status = status]
  /\ UNCHANGED <<repository, checks, comments, retained, contract, runs, deployments, sent, events>>

CommentsChange ==
  /\ Event
  /\ \/ \E kind \in {"normal", "v1", "v2"} :
          comments' = Append(comments, [kind |-> kind, bot |-> FALSE, live |-> TRUE,
                                        record |-> NoRecord])
     \/ \E i \in 1..Len(comments) :
          comments[i].live /\ comments' = [comments EXCEPT ![i].live = FALSE]
  /\ UNCHANGED <<repository, checks, tests, retained, contract, runs, deployments, sent>>

Expire ==
  /\ Event /\ retained /\ retained' = FALSE
  /\ UNCHANGED <<repository, checks, tests, comments, contract, runs, deployments, sent>>

-----------------------------------------------------------------------------
(* The recovery workflows; they share one concurrency group.               *)
Ended(r) == runs[r].step \in {"partial", "done", "failed"}
Goto(r, step) == runs' = [runs EXCEPT ![r].step = step]

Qualified(kind) ==
  \/ kind = "validate" /\ RepairMerge(main) /\ sync = Release
  \/ kind = "ready" /\ PublicationRepairMerge(main) /\ sync = Release
  \/ kind = "update" /\ AssociationRepairMerge(main) /\ sync # Release /\ SyncUpdate(sync, main)
(* A refused run matters only where the newest one is asked for.           *)
Dispatch(kind) ==
  /\ Len(runs) < MaxRuns /\ Open /\ (kind = "validate" \/ Qualified(kind))
  /\ \A r \in 1..Len(runs) : Ended(r)
  /\ runs' = Append(runs, [kind |-> kind, base |-> main, head |-> sync, baseTests |-> {},
       headTest |-> None, check |-> None,
       step |-> IF ~Qualified(kind) THEN "failed" ELSE IF kind = "validate" THEN "tests" ELSE "read"])
  /\ UNCHANGED <<repository, evidence, contract, deployments, sent, events>>

(* The release is tested with the reviewed harness, and attested.          *)
RunTests(r) ==
  /\ runs[r].step = "tests" /\ Goto(r, "attest")
  /\ UNCHANGED <<repository, evidence, contract, deployments, sent, events>>
Attest(r) ==
  /\ runs[r].step = "attest" /\ Goto(r, IF Attested(r) THEN "publish" ELSE "failed")
  /\ UNCHANGED <<repository, evidence, contract, deployments, sent, events>>
RecoveryCheck ==
  [suite |-> Len(checks) + 1, status |-> "success", done |-> Latter + 1]
(* The check is published; the last step of the run then fails.            *)
PublishCheck(r) ==
  /\ runs[r].step = "publish"
  /\ IF HistoricalStands /\ HistoricalIsCurrent
     THEN /\ checks' = Append(checks, RecoveryCheck)
          /\ runs' = [runs EXCEPT ![r].step = "partial", ![r].check = Len(checks) + 1]
     ELSE Goto(r, "failed") /\ UNCHANGED checks
  /\ UNCHANGED <<repository, tests, comments, retained, contract, deployments, sent, events>>

ReadyUnmoved(r) == Open /\ main = runs[r].base /\ sync = runs[r].head
ReadReady(r) ==
  /\ runs[r].kind = "ready" /\ runs[r].step = "read"
  /\ IF /\ ReadyUnmoved(r) /\ PartialPublicationStands
        /\ MainValidated(runs[r].base)
     THEN runs' = [runs EXCEPT ![r].step = "reread", ![r].baseTests = MainRuns(runs[r].base)]
     ELSE Goto(r, "failed")
  /\ UNCHANGED <<repository, evidence, contract, deployments, sent, events>>
ReadReadyAgain(r) ==
  /\ runs[r].kind = "ready" /\ runs[r].step = "reread"
  /\ Goto(r, IF /\ ReadyUnmoved(r) /\ PartialPublicationStands
                /\ RunsStand(runs[r])
                /\ Live("normal") \cup Live("v1") = {}
             THEN "post" ELSE "failed")
  /\ UNCHANGED <<repository, evidence, contract, deployments, sent, events>>

NoCurrentRecord == Live("normal") \cup Live("v2") = {}
ReadUpdate(r) ==
  /\ runs[r].kind = "update" /\ runs[r].step = "read"
  /\ tests[Newest(runs[r].head)].status # "pending"
  /\ IF /\ ReadyUnmoved(r) /\ OneHistorical /\ NoCurrentRecord /\ HistoricalEvidence
        /\ MainValidated(runs[r].base)
        /\ Passed(Newest(runs[r].head))
     THEN runs' = [runs EXCEPT ![r].step = "reread", ![r].baseTests = MainRuns(runs[r].base),
                               ![r].headTest = Newest(runs[r].head)]
     ELSE Goto(r, "failed")
  /\ UNCHANGED <<repository, evidence, contract, deployments, sent, events>>
ReadUpdateAgain(r) ==
  /\ runs[r].kind = "update" /\ runs[r].step = "reread"
  /\ Goto(r, IF ReadyUnmoved(r) /\ OneHistorical /\ NoCurrentRecord /\ NativeCheck(runs[r])
             THEN "post" ELSE "failed")
  /\ UNCHANGED <<repository, evidence, contract, deployments, sent, events>>

RecordOf(r) == [base |-> runs[r].base, head |-> runs[r].head,
                baseTests |-> runs[r].baseTests, headTest |-> runs[r].headTest,
                about |-> IF runs[r].kind = "ready" THEN contract.check ELSE contract.record]
PostReady(r) ==
  /\ runs[r].step = "post"
  /\ comments' = Append(comments, [kind |-> IF runs[r].kind = "ready" THEN "v1" ELSE "v2",
                                   bot |-> TRUE, live |-> TRUE, record |-> RecordOf(r)])
  /\ \E step \in {"done", "failed"} : Goto(r, step)
  /\ UNCHANGED <<repository, checks, tests, retained, contract, deployments, sent, events>>

(* A run that stops while it reads leaves what a refused one leaves.       *)
RunFails(r) ==
  /\ runs[r].step \in {"tests", "attest", "publish", "post"} /\ Goto(r, "failed")
  /\ UNCHANGED <<repository, evidence, contract, deployments, sent, events>>

-----------------------------------------------------------------------------
(* authorize reads twice at each of the four boundaries of a deployment.   *)
Reads == 8
OneReady == Live("normal") = {} /\ Cardinality(Live("v1")) = 1
ReadyComment(kind) == CHOOSE i \in Live(kind) : TRUE

ApprovedMerge(merge, record, tip) ==
  Parents(merge) = <<record.base, record.head>> /\ main = tip

FirstRecord(merge) ==
  LET i == ReadyComment("v1")
      record == comments[i].record
  IN /\ OneReady /\ comments[i].bot /\ i <= request.after
     /\ commits[merge].marker = [kind |-> "v1", record |-> record]
     /\ RecoveryPayload(record) /\ ApprovedMerge(merge, record, merge)
     /\ RunsStand(record) /\ PartialPublicationStands
(* The same comment, and what it states read once more.                    *)
FirstRecordAgain(merge) ==
  LET i == ReadyComment("v1")
      record == comments[i].record
  IN /\ main = merge /\ OneReady /\ comments[i].bot /\ i <= request.after
     /\ commits[merge].marker = [kind |-> "v1", record |-> record]
     /\ RunsStand(record) /\ PartialPublicationStands

OneCurrent == Cardinality(Live("v2")) = 1 /\ comments[ReadyComment("v2")].bot
CurrentRecord(merge, tip) ==
  LET i == ReadyComment("v2")
      record == comments[i].record
  IN /\ OneHistorical /\ Live("normal") = {} /\ OneCurrent
     /\ contract.record < i /\ i <= request.after
     /\ CurrentPayload(record) /\ UpdateRemote(record) /\ ApprovedMerge(merge, record, tip)
     /\ Tree(merge) = Tree(record.head)
     /\ commits[merge].marker = [kind |-> "v2", record |-> record]
     /\ RunsStand(record) /\ HistoricalEvidence /\ NativeCheck(record)
CurrentRecordAgain(merge, tip) ==
  LET i == ReadyComment("v2")
      record == comments[i].record
  IN /\ main = tip /\ OneHistorical /\ OneCurrent /\ i <= request.after
     /\ commits[merge].marker = [kind |-> "v2", record |-> record]
     /\ sync = record.head

(* The original run stopped between its first two boundaries.              *)
StoppedBeforeServer ==
  LET original == deployments[1]
  IN original.attempt = 1 /\ original.status = "failed" /\ original.passed \in {2, 3}
\* Mutant: only the continuations that are still running count.
FirstRunningContinuation(d) ==
  \A e \in 2..Len(deployments) : deployments[e].status = "running" => e = d
OnlyContinuation(d) == Len(deployments) = 2
Continuation(d) ==
  LET merge == request.merge
      tip == deployments[d].commit
  IN /\ deployments[d].attempt = 1
     /\ main = tip /\ DirectMerge(tip, "deployment") /\ Parents(tip)[1] = merge
     /\ Passed(Newest(tip))
     /\ StoppedBeforeServer /\ OnlyContinuation(d)
     /\ contract.approval = commits[merge].marker

FirstAttempt(d) == IF d = 1 THEN deployments[d].attempt = 1 ELSE Continuation(d)
Authorized(d) ==
  LET merge == request.merge
      again == deployments[d].passed % 2 = 1
      tip == deployments[d].commit
  IN IF Parents(merge)[2] = Release
     THEN IF again THEN FirstRecordAgain(merge)
                   ELSE FirstAttempt(d) /\ FirstRecord(merge)
     ELSE IF again THEN CurrentRecordAgain(merge, tip)
                   ELSE FirstAttempt(d) /\ CurrentRecord(merge, tip)

Running(d) == deployments[d].status = "running"
(* One deployment at a time.                                               *)
Turn(d) ==
  /\ Running(d)
  /\ \A e \in 1..Len(deployments) : e # d /\ Running(e) => deployments[e].passed = 0
Authorize(d) ==
  /\ Turn(d) /\ deployments[d].passed < Reads
  /\ deployments' = IF Authorized(d) THEN [deployments EXCEPT ![d].passed = @ + 1]
                                     ELSE [deployments EXCEPT ![d].status = "failed"]
  /\ UNCHANGED <<repository, evidence, contract, runs, sent, events>>
Send(d) ==
  /\ Turn(d) /\ deployments[d].passed = Reads
  /\ deployments' = [deployments EXCEPT ![d].status = "sent"] /\ sent' = Append(sent, d)
  /\ UNCHANGED <<repository, evidence, contract, runs, events>>
DeploymentFails(d) ==
  /\ Running(d) /\ deployments' = [deployments EXCEPT ![d].status = "failed"]
  /\ UNCHANGED <<repository, evidence, contract, runs, sent, events>>
DeployAgain(d) ==
  /\ Event /\ ~Running(d)
  /\ deployments' = [deployments EXCEPT ![d].attempt = @ + 1, ![d].passed = 0,
                                        ![d].status = "running"]
  /\ UNCHANGED <<repository, evidence, contract, runs, sent>>
(* The continuation is dispatched from main; a second time is an event.    *)
ContinueApproved ==
  /\ deployments # << >> /\ contract.approval # NoMarker
  /\ IF Len(deployments) = 1 THEN UNCHANGED events ELSE Event
  /\ deployments' = Append(deployments,
       [commit |-> main, attempt |-> 1, passed |-> 0, status |-> "running"])
  /\ UNCHANGED <<repository, evidence, contract, runs, sent>>

-----------------------------------------------------------------------------
Git == (\E stage \in Reviewed \cup Later : MergeReview(stage)) \/ MergeUnreviewed
       \/ UpdateBranch \/ MergeRequest
GitHub == CheckAgain \/ CommentsChange \/ Expire
          \/ (\E i \in 1..Len(checks) : CheckEnds(i))
          \/ (\E i \in 1..Len(tests) : TestAgain(i) \/ TestEnds(i))
Recovery(r) == RunTests(r) \/ Attest(r) \/ PublishCheck(r) \/ ReadReady(r) \/ ReadReadyAgain(r)
               \/ ReadUpdate(r) \/ ReadUpdateAgain(r) \/ PostReady(r) \/ RunFails(r)
Deploy(d) == Authorize(d) \/ Send(d) \/ DeploymentFails(d) \/ DeployAgain(d)

Next ==
  \/ Git \/ GitHub
  \/ \E kind \in {"validate", "ready", "update"} : Dispatch(kind)
  \/ \E r \in 1..Len(runs) : Recovery(r)
  \/ \E d \in 1..Len(deployments) : Deploy(d)
  \/ ContinueApproved

Spec == Init /\ [][Next]_vars
=============================================================================
