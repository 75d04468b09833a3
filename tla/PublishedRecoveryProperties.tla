-------------------- MODULE PublishedRecoveryProperties --------------------
(* What the recovery of the published release promises.                    *)
EXTENDS PublishedRecovery

(* What is deployed was merged from reviewed content alone: nothing on main *)
(* under the deployed merge comes from outside the source, the release and *)
(* the reviewed repairs, and the head that was merged had passed its own   *)
(* tests or is the release whose check was recovered.                      *)
DeployedAsReviewed ==
  \A i \in 1..Len(sent) :
    LET commit == deployments[sent[i]].commit
        head == Parents(request.merge)[2]
    IN /\ {commits[c].adds : c \in Tree(commit)}
            \subseteq {"source", "release", "deployment"} \cup Reviewed
       /\ head # Release =>
            \E t \in 1..Len(tests) : tests[t].commit = head /\ tests[t].status = "success"

(* One approval deploys once: the merge's own run or one continuation of   *)
(* it, however often either is run again ("Approved continuation is        *)
(* missing or has already been attempted").                                *)
OneDeployment == Len(sent) <= 1

(* Once another required check of the release commit runs or has completed *)
(* at or after the recovered one, in whatever suite, no boundary passes.   *)
NotSuperseded ==
  \A i \in 1..Len(checks) : i # contract.check =>
    checks[i].status # "pending" /\ checks[i].done < checks[contract.check].done
SupersededNeverPasses ==
  [][\A d \in 1..Len(deployments) :
       /\ deployments[d].passed % 2 = 0 /\ deployments'[d].passed = deployments[d].passed + 1
       => NotSuperseded]_vars

(* What the remote authorization accepts is what the local validation of   *)
(* the repository accepts: main is under the recovery hold when the        *)
(* approval of the updated synchronization branch deploys, so the next     *)
(* release is not built from it meanwhile.                                 *)
DeployedUnderHold ==
  \A i \in 1..Len(sent) :
    commits[request.merge].marker.kind = "v2" => Hold(deployments[sent[i]].commit)

(* What is deployed is what was reviewed, to the remote authorization and  *)
(* to the local validation alike.                                          *)
ReviewedIsDeployed == DeployedAsReviewed /\ DeployedUnderHold

(* Whatever answers are lost and however often a workflow is dispatched,   *)
(* one readiness record of a kind is live, so an approval can name it      *)
(* ("A current readiness marker already exists for this pull request").    *)
OneRecordOfAKind ==
  \A kind \in {"v1", "v2"} : Cardinality({i \in Live(kind) : comments[i].bot}) <= 1

(* One record, one approval, one deployment.                               *)
ApprovalIsSpentOnce == OneRecordOfAKind /\ OneDeployment
=============================================================================
