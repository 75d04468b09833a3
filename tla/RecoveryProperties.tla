------------------------- MODULE RecoveryProperties -------------------------
(***************************************************************************)
(* What must hold of the owner's operations after an incomplete rollback.  *)
(***************************************************************************)
EXTENDS ReviewedRecovery

(* An error of a worker that the review may take as recovered, judged by   *)
(* the whole log and not by batches: it was logged before the verification *)
(* and what failed succeeded later; a failed assets task has a 404 of its  *)
(* second for itself; an owner's incident is whole.                        *)
Ok(records, i, status0, started) ==
  LET r == records[i]
      same == SameSecond(records, DOMAIN records, i)
      kind(k) == {j \in same : records[j].kind = k}
  IN CASE r.kind = "info" -> TRUE
       [] r.kind = "task" -> r.at < started /\ r.at < status0.task
       [] r.kind = "missing" -> r.at < started /\ r.at < status0.assets
       [] r.kind = "assets" ->
            /\ r.at < started /\ r.at < status0.assets
            /\ Cardinality(kind("assets")) <= Cardinality({records[j].of : j \in kind("missing")})
       [] r.kind = "limit" -> r.at < started /\ MayLimit
       [] r.kind \in OwnerKinds -> OwnersIncident(records, Owned(records, same))
       [] OTHER -> FALSE
AllOk(seen, status0, started) ==
  \A w \in Workers :
    LET records == SubSeq(log[w], 1, seen[w])
    IN \A i \in DOMAIN records : Ok(records, i, status0, started)

(* A reviewed recovery moves traffic and cleans up only on the whole       *)
(* evidence: of all that the retained workers logged since the reviewed    *)
(* second, up to the last scan, there is no error that did not recover     *)
(* before it, whatever Docker rotated away in between (recovered_logs.py   *)
(* _verify_worker_log_start_coverage, reviewed_recovery.py verify).        *)
CleanupSawEverything ==
  /\ \A p \in Owners : call[p].op = "complete" /\ Reviewed(p)
                       /\ call[p].step \in {"retain", "switch", "restored", "final", "clean",
                                             "forget", "record"} =>
       AllOk(call[p].seen, call[p].status, call[p].started)
  /\ completion.reviewed =>
       AllOk(completion.seen, completion.status, completion.started)

(* The completion's receipt speaks of the receiver that is installed: no   *)
(* repair that was approved before it is activated after it, and it is     *)
(* written for a finished cleanup (worker_recovery.py verify_pins under    *)
(* the lock, reviewed_recovery.py main).                                   *)
CompletionNamesTheRuntime ==
  completion # NoReceipt => runtime = completion.runtime /\ ~plan /\ ~slots /\ upstream = "final"

(* Whatever is killed or fails, the bytes that a repair or the maintenance *)
(* replaced are in a complete backup while the new ones are in place       *)
(* (_install_file, _create_backup).                                        *)
ChangesAreRestorable ==
  /\ \A j \in 1..runtime : backups[j] = "whole"
  /\ config = "new" => kept = "whole"

(* The configuration is changed only after the reviewed recovery is        *)
(* complete, and while nobody works on it, it and its receipt are there or *)
(* neither is: but for a kill, and but for a failure of the restoration of *)
(* one that failed (history_config_maintenance.py build_plan, apply).      *)
ConfigFollowsCompletion ==
  /\ config = "new" \/ configured => completion.reviewed
  /\ lock = Nobody /\ kills = 0 /\ faults < 2 => (config = "new" <=> configured)

(* What the records of the recovery and of the maintenance say is so.      *)
RecordsAreTrue == CompletionNamesTheRuntime /\ ConfigFollowsCompletion

(* A call that reports a failure, and no failed restoration, has left the  *)
(* receiver's file and configuration as it found them (_install_file:      *)
(* "A failure restores the exact original file").                          *)
FailureRestores ==
  [][\A p \in Owners :
       lock = p /\ call'[p] = Idle /\ result' = "failed" =>
         runtime' = call[p].runtime /\ config' = call[p].config]_vars
=============================================================================
