------------------------ MODULE ReadinessProperties ------------------------
(* What PullReadiness promises of the pointer and of the release.          *)
EXTENDS PullReadiness

(* The evidence whose changes are announced by an event.                   *)
Announced(snapshot) == <<snapshot.runs, snapshot.review>>
Stale ==
  /\ QualifiedRecord
  /\ Announced(recorded) # Announced(Snapshot)

(* A policy run, running or waiting, that has yet to invalidate.           *)
Owed ==
  \/ waiting.kind \in {"change", "request", "uncodex"}
  \/ step \in {"consume", "target", "labels", "pointer", "closed", "not ready"}

(* A qualified pointer to a record that the workflows or the reviews have  *)
(* outgrown does not stand: the run that invalidates it is running or      *)
(* waits, unless the newest policy run is seen to have failed, or a label  *)
(* of no meaning took the place of a run that waited and none has begun    *)
(* since (invalidate-readiness.yml, its group and invalidation steps).     *)
QualifiedIsCurrent ==
  request = "open" /\ "codex" \in labels /\ Stale => Owed \/ last = "failure" \/ displaced

(* The workflow does not answer itself: it publishes a record only for a   *)
(* request an implementer made (the conditions of its job and its group).  *)
OneRecordPerRequest == records <= requests

(* A record stands only while its evidence does, and for one request.      *)
RecordsAreCurrent == QualifiedIsCurrent /\ OneRecordPerRequest

(* Evidence that had changed when the pull request was merged, run or      *)
(* review, is never released on, whatever happens to it afterwards         *)
(* (verify_published reads the newest run and all reviews again).          *)
StaleMergeNeverReleased ==
  release = "released" => Announced(merged) = Announced(recorded)

(* Once people let it be, ready-for-work stands only on a pointer to the   *)
(* head of the pull request, or a policy run failed or lost its place.     *)
LabelSettles ==
  <>[](request = "open" /\ {"codex", "ready"} \subseteq labels =>
         \/ QualifiedRecord
         \/ last = "failure" \/ displaced)
=============================================================================
