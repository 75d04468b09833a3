------------------------- MODULE ReviewedRecovery -------------------------
(***************************************************************************)
(* What the owner runs on the host after a deployment whose rollback was   *)
(* left incomplete (ops/deploy/worker_recovery.py, reviewed_recovery.py,   *)
(* recovered_logs.py, recovery_sync.py, history_config_maintenance.py):    *)
(*   install    one reviewed file of the receiver is repaired, with a      *)
(*              backup, an additive receipt and its parents' receipts;     *)
(*   complete   the restored production is verified against the reviewed   *)
(*              logs, the rollback is run again, verifies it a second time *)
(*              and cleans up, and the completion gets its receipt;        *)
(*   apply      the receiver's configuration gets one command, once the    *)
(*              recovery is complete.                                      *)
(* Each takes the receiver's lock, and may be killed at every step.  Until *)
(* then the six retained workers go on: they log errors, data syncs        *)
(* succeed, Docker rotates the beginning of a log away, and a worker may   *)
(* be replaced.  The normal receiver stays held.                           *)
(***************************************************************************)
EXTENDS RetainedLogs

CONSTANTS
  Owners,       \* the shells the owner runs these from
  Workers,      \* the retained workers
  Repairs,      \* the number of repairs of the receiver's file
  Installed,    \* those that are installed at the start
  Since,        \* the reviewed second the scans start at
  MaxAge,       \* seconds for which a sync counts as current
  MaxTime,      \* bound of the clock
  Reports,      \* what a worker may log at once: sequences of [kind, of]
  MaxReports, MaxCalls,
  MaxLosses,    \* bound of the rotations and replaced workers
  MaxFaults     \* bound of the failed steps and kills

ASSUME ChainAssumption == Repairs \in Nat /\ Installed \in 0..Repairs
ASSUME BoundsAssumption ==
  {Since, MaxAge, MaxTime, MaxReports, MaxLosses, MaxCalls, MaxFaults} \subseteq Nat

(* What a worker logs at once is a sequence of what may be logged.         *)
Said == UNION {ToSet(report) : report \in Reports}
ASSUME ReportsAssumption == Reports \subseteq Seq(Said)

(* No shell is called nobody.                                              *)
ASSUME OwnersAssumption == "nobody" \notin Owners

VARIABLES
  runtime,      \* the repair whose file is installed
  backups,      \* of a repair: "none", "partial" or "whole"
  receipts,     \* the repairs with a receipt
  plan,         \* active-recovery.json is there
  slots,        \* the safety slots are there
  upstream,     \* "retained", "previous" or "final"
  completion,   \* the receipt of the completion, or NoReceipt
  config,       \* receiver.json: "old" or "new"
  kept,         \* the backup of the configuration
  configured,   \* its receipt is there
  lock,         \* who holds the receiver's lock, or Nobody
  call,         \* what each owner runs
  result,       \* what the newest call reported
  now, log, rotated, replaced, status,   \* the retained production
  reports, losses, calls, kills, faults

receiver == <<runtime, backups, receipts>>
recovery == <<plan, slots, upstream, completion>>
maintenance == <<config, kept, configured>>
production == <<now, log, rotated, replaced, status, reports, losses>>
counts == <<calls, kills, faults>>
calling == <<lock, call, result>>
vars == <<receiver, recovery, maintenance, calling, production, counts>>

Nobody == "nobody"
NoReceipt == [runtime |-> 0, reviewed |-> FALSE]
Idle == [op |-> "none", step |-> "idle"]
NoStatus == [task |-> 0, assets |-> 0]
Operations == {[op |-> "install", repair |-> k] : k \in 1..Repairs} \cup
              {[op |-> "complete", repair |-> k] : k \in {Repairs - 1, Repairs}} \cup
              {[op |-> "apply", repair |-> 0]}

Init ==
  /\ runtime = Installed
  /\ backups = [k \in 1..Repairs |-> IF k <= Installed THEN "whole" ELSE "none"]
  /\ receipts = 1..Installed
  /\ plan = TRUE /\ slots = TRUE /\ upstream = "retained" /\ completion = NoReceipt
  /\ config = "old" /\ kept = "none" /\ configured = FALSE
  /\ lock = Nobody /\ call = [p \in Owners |-> Idle] /\ result = "none"
  /\ now = Since /\ log = [w \in Workers |-> <<>>]
  /\ rotated = [w \in Workers |-> 0] /\ replaced = {} /\ status = NoStatus
  /\ reports = 0 /\ losses = 0 /\ calls = 0 /\ kills = 0 /\ faults = 0

-----------------------------------------------------------------------------
(* The retained production.  Its steps are taken while a reviewed          *)
(* completion runs, the only one that claims something of it: those of     *)
(* other times come to the same.                                           *)
Watched == slots /\ \E p \in Owners : lock = p /\ call[p].op = "complete"
                                     /\ call[p].repair = Repairs
Tick == /\ Watched /\ now < MaxTime /\ now' = now + 1
        /\ UNCHANGED <<receiver, recovery, maintenance, calling, log, rotated, replaced,
                       status, reports, losses, counts>>
Report(w, report) ==
  /\ Watched /\ reports < MaxReports /\ reports' = reports + 1
  /\ log' = [log EXCEPT ![w] =
       @ \o [i \in DOMAIN report |-> [at |-> now, kind |-> report[i].kind, of |-> report[i].of]]]
  /\ UNCHANGED <<receiver, recovery, maintenance, calling, now, rotated, replaced, status,
                 losses, counts>>
Sync ==
  /\ Watched /\ status' = [task |-> now, assets |-> now] /\ status' # status
  /\ UNCHANGED <<receiver, recovery, maintenance, calling, now, log, rotated, replaced,
                 reports, losses, counts>>
(* Docker drops the oldest records it keeps.  The first is the one before  *)
(* the second the scans start at.                                          *)
Rotate(w) ==
  /\ Watched /\ losses < MaxLosses /\ losses' = losses + 1
  /\ \E n \in (rotated[w] + 1)..(Len(log[w]) + 1) : rotated' = [rotated EXCEPT ![w] = n]
  /\ UNCHANGED <<receiver, recovery, maintenance, calling, now, log, replaced, status,
                 reports, counts>>
Replace(w) ==
  /\ Watched /\ losses < MaxLosses /\ losses' = losses + 1
  /\ w \notin replaced /\ replaced' = replaced \cup {w}
  /\ UNCHANGED <<receiver, recovery, maintenance, calling, now, log, rotated, status,
                 reports, counts>>
Readable(w) ==
  IF w \in replaced THEN <<>>
  ELSE SubSeq(log[w], IF rotated[w] = 0 THEN 1 ELSE rotated[w], Len(log[w]))

-----------------------------------------------------------------------------
(* One call of an owner.                                                   *)
At(p, op, step) == call[p].op = op /\ call[p].step = step
Goes(p, step) == call' = [call EXCEPT ![p].step = step] /\ UNCHANGED <<lock, result, counts>>
Leaves(p, how) ==
  call' = [call EXCEPT ![p] = Idle] /\ result' = how /\ lock' = IF lock = p THEN Nobody ELSE lock
Ends(p, how) == Leaves(p, how) /\ UNCHANGED counts
Keeps == UNCHANGED <<receiver, recovery, maintenance, production>>

(* What is pinned of the host, and the repairs below one with their        *)
(* receipts and backups.                                                   *)
Pinned(k) == runtime = k /\ plan /\ upstream = "retained" /\ config = "old"
Parents(k) == \A j \in 1..k : j \in receipts /\ backups[j] = "whole"

Begin(p, o) ==
  /\ call[p].op = "none" /\ calls < MaxCalls /\ calls' = calls + 1
  /\ o.op = "install" => Pinned(o.repair - 1) /\ Parents(o.repair - 1)
  /\ call' = [call EXCEPT ![p] =
       [op |-> o.op, repair |-> o.repair, step |-> "lock", phase |-> "verify", started |-> 0,
        status |-> NoStatus, seen |-> [w \in {} |-> 0], runtime |-> runtime, config |-> config]]
  /\ Keeps /\ UNCHANGED <<lock, result, kills, faults>>
Lock(p) ==
  /\ call[p].op # "none" /\ call[p].step = "lock"
  /\ IF lock = Nobody
     THEN lock' = p /\ UNCHANGED result
          /\ call' = [call EXCEPT ![p].step = "check", ![p].runtime = runtime, ![p].config = config]
     ELSE Leaves(p, "refused")
  /\ Keeps /\ UNCHANGED counts

-----------------------------------------------------------------------------
(* Repair k of the receiver's file.                                        *)
Installable(k) ==
  /\ Pinned(k - 1) /\ Parents(k - 1)
  /\ k \notin receipts /\ backups[k] = "none"
(* Mutant: the file is replaced before its backup is complete.             *)
CheckInstallHurried(p) ==
  LET k == call[p].repair IN
  /\ At(p, "install", "check")
  /\ IF Installable(k)
     THEN backups' = [backups EXCEPT ![k] = "partial"] /\ Goes(p, "activate")
     ELSE UNCHANGED backups /\ Ends(p, "refused")
  /\ UNCHANGED <<runtime, receipts, recovery, maintenance, production>>
CheckInstall(p) ==
  LET k == call[p].repair IN
  /\ At(p, "install", "check")
  /\ IF Installable(k)
     THEN backups' = [backups EXCEPT ![k] = "partial"] /\ Goes(p, "copy")
     ELSE UNCHANGED backups /\ Ends(p, "refused")
  /\ UNCHANGED <<runtime, receipts, recovery, maintenance, production>>
CopyInstall(p) ==
  /\ At(p, "install", "copy") /\ Goes(p, "activate")
  /\ backups' = [backups EXCEPT ![call[p].repair] = "whole"]
  /\ UNCHANGED <<runtime, receipts, recovery, maintenance, production>>
Activate(p) ==
  /\ At(p, "install", "activate") /\ Goes(p, "receipt") /\ runtime' = call[p].repair
  /\ UNCHANGED <<backups, receipts, recovery, maintenance, production>>
RecordInstall(p) ==
  LET k == call[p].repair IN
  /\ At(p, "install", "receipt")
  /\ IF Pinned(k) /\ Parents(k - 1)
     THEN receipts' = receipts \cup {k} /\ Ends(p, "done")
     ELSE UNCHANGED receipts /\ Goes(p, "restore")
  /\ UNCHANGED <<runtime, backups, recovery, maintenance, production>>
(* Mutant: the release's file is restored, not the repair before.          *)
RestoreRelease(p) ==
  /\ At(p, "install", "restore") /\ runtime' = 0 /\ Ends(p, "failed")
  /\ UNCHANGED <<backups, receipts, recovery, maintenance, production>>
RestoreFile(p) ==
  /\ At(p, "install", "restore") /\ runtime' = call[p].repair - 1 /\ Ends(p, "failed")
  /\ UNCHANGED <<backups, receipts, recovery, maintenance, production>>

-----------------------------------------------------------------------------
(* The completion.  The last repair's is reviewed: errors of before it may *)
(* have recovered.  The one of the repair before knows no review, no syncs *)
(* and no coverage.  The same checks run in the verification and again in  *)
(* the rollback; "started" stays that of the verification.                 *)
Reviewed(p) == call[p].repair = Repairs
Verified(k) == Pinned(k) /\ Parents(k)
Checks(p) == [call[p] EXCEPT !.step = IF Reviewed(p) THEN "sync" ELSE "scan",
                             !.seen = [w \in {} |-> 0]]
CheckComplete(p) ==
  /\ At(p, "complete", "check") /\ Keeps
  /\ IF Verified(call[p].repair) /\ completion = NoReceipt /\ (Reviewed(p) => replaced = {})
     THEN /\ call' = [call EXCEPT ![p] =
                        [Checks(p) EXCEPT !.started = IF Reviewed(p) THEN now ELSE 0]]
          /\ UNCHANGED <<lock, result, counts>>
     ELSE Ends(p, "refused")

(* Every reviewed owner, refinery and character succeeded after the        *)
(* reviewed second and not long ago; here the four tasks and the assets.   *)
Fresh(t) == Since < t /\ t <= now /\ now - t <= MaxAge
Current(s) == \A field \in {"task", "assets"} : Fresh(s[field])
CheckSync(p) ==
  /\ At(p, "complete", "sync")
  /\ IF Current(status)
     THEN call' = [call EXCEPT ![p].step = "start", ![p].status = status] /\ UNCHANGED <<lock, result, counts>>
     ELSE Ends(p, "failed")
  /\ Keeps

(* The record before the second the scans start at is still there, in the  *)
(* log of the same worker.                                                 *)
Covered == replaced = {} /\ \A w \in Workers : rotated[w] = 0
StartCoverage(p) ==
  /\ At(p, "complete", "start") /\ Keeps
  /\ IF Covered
     THEN Goes(p, "scan")
     ELSE Ends(p, "failed")
WithScan(seen, w) == [v \in DOMAIN seen \cup {w} |-> IF v = w THEN Len(log[w]) ELSE seen[v]]
ScanWorker(p, w) ==
  /\ At(p, "complete", "scan") /\ w \notin DOMAIN call[p].seen /\ Keeps
  /\ IF Scan(Readable(w), call[p].status, call[p].started)
     THEN call' = [call EXCEPT ![p].seen = WithScan(@, w),
                               ![p].step = IF DOMAIN call[p].seen \cup {w} = Workers
                                           THEN "end" ELSE @]
          /\ UNCHANGED <<lock, result, counts>>
     ELSE Ends(p, "failed")
(* Mutant: only the rollback looks at the logs' start a second time.       *)
EndCoverageLate(p) ==
  /\ At(p, "complete", "end") /\ Keeps
  /\ IF ~Reviewed(p) \/ Covered \/ call[p].phase = "verify"
     THEN Goes(p, IF call[p].phase = "verify" THEN "retain" ELSE "final")
     ELSE Ends(p, "failed")
EndCoverage(p) ==
  /\ At(p, "complete", "end") /\ Keeps
  /\ IF ~Reviewed(p) \/ Covered THEN Goes(p, IF call[p].phase = "verify" THEN "retain" ELSE "final")
     ELSE Ends(p, "failed")

(* Nothing was changed until here.                                         *)
RetainEvidence(p) ==
  /\ At(p, "complete", "retain") /\ Keeps
  /\ IF ~Reviewed(p) \/ Verified(Repairs) THEN Goes(p, "switch") ELSE Ends(p, "failed")
(* The rollback: traffic first, the restored route, the checks again, and  *)
(* only then the final route and the cleanup.                              *)
SwitchFirst(p) ==
  /\ At(p, "complete", "switch") /\ Goes(p, "restored") /\ upstream' = "previous"
  /\ UNCHANGED <<receiver, plan, slots, completion, maintenance, production>>
SwitchRestored(p) ==
  /\ At(p, "complete", "restored") /\ upstream' = "retained"
  /\ call' = [call EXCEPT ![p] = [Checks(p) EXCEPT !.phase = "rollback"]] /\ UNCHANGED <<lock, result, counts>>
  /\ UNCHANGED <<receiver, plan, slots, completion, maintenance, production>>
SwitchFinal(p) ==
  /\ At(p, "complete", "final") /\ Goes(p, "clean") /\ upstream' = "final"
  /\ UNCHANGED <<receiver, plan, slots, completion, maintenance, production>>
RemoveSlots(p) ==
  /\ At(p, "complete", "clean") /\ Goes(p, "forget") /\ slots' = FALSE
  /\ UNCHANGED <<receiver, plan, upstream, completion, maintenance, production>>
CompletePlan(p) ==
  /\ At(p, "complete", "forget") /\ Goes(p, "record") /\ plan' = FALSE
  /\ UNCHANGED <<receiver, slots, upstream, completion, maintenance, production>>
Receipt(p) ==
  [runtime |-> call[p].repair, reviewed |-> Reviewed(p), started |-> call[p].started,
   status |-> call[p].status, seen |-> call[p].seen]
RecordCompletion(p) ==
  /\ At(p, "complete", "record") /\ Ends(p, "done") /\ completion' = Receipt(p)
  /\ UNCHANGED <<receiver, plan, slots, upstream, maintenance, production>>

-----------------------------------------------------------------------------
(* The configuration's maintenance.                                        *)
\* Mutant: only the repairs are looked at, not the completion.
RecoveredAnyhow == Parents(runtime)
Recovered == ~plan /\ completion.reviewed /\ completion.runtime = runtime /\ Parents(runtime)
Applied == Recovered /\ config = "new" /\ configured /\ kept = "whole"
Appliable == Recovered /\ config = "old" /\ ~configured
CheckApply(p) ==
  /\ At(p, "apply", "check")
  /\ \/ Applied /\ Ends(p, "done") /\ UNCHANGED kept
     \/ Appliable /\ kept = "none" /\ kept' = "partial" /\ Goes(p, "copy")
     \/ Appliable /\ kept = "whole" /\ UNCHANGED kept /\ Goes(p, "write")
     \/ ~Applied /\ (~Appliable \/ kept = "partial") /\ Ends(p, "refused") /\ UNCHANGED kept
  /\ UNCHANGED <<receiver, recovery, config, configured, production>>
CopyConfig(p) ==
  /\ At(p, "apply", "copy") /\ Goes(p, "write") /\ kept' = "whole"
  /\ UNCHANGED <<receiver, recovery, config, configured, production>>
WriteConfig(p) ==
  /\ At(p, "apply", "write") /\ Goes(p, "record") /\ config' = "new"
  /\ UNCHANGED <<receiver, recovery, kept, configured, production>>
RecordConfig(p) ==
  /\ At(p, "apply", "record") /\ Goes(p, "replan") /\ configured' = TRUE
  /\ UNCHANGED <<receiver, recovery, config, kept, production>>
PlanAgain(p) ==
  /\ At(p, "apply", "replan") /\ Keeps
  /\ IF Applied THEN Ends(p, "done") ELSE Goes(p, "undo")
RestoreConfig(p) ==
  /\ At(p, "apply", "undo") /\ Goes(p, "unlink") /\ config' = "old"
  /\ UNCHANGED <<receiver, recovery, kept, configured, production>>
UnlinkReceipt(p) ==
  /\ At(p, "apply", "unlink") /\ Ends(p, "failed") /\ configured' = FALSE
  /\ UNCHANGED <<receiver, recovery, config, kept, production>>

-----------------------------------------------------------------------------
(* A step that raises, whose change may have been made or not: what the    *)
(* call does then.  A command or a write may fail, and so may the flush    *)
(* after the rename that made the change.                                  *)
Handles(p, step) == call' = [call EXCEPT ![p].step = step] /\ UNCHANGED <<lock, result>>
FaultInstall(p) ==
  /\ call[p].op = "install" /\ UNCHANGED <<recovery, maintenance, backups>>
  /\ \/ call[p].step = "copy" /\ Leaves(p, "failed") /\ UNCHANGED <<runtime, receipts>>
     \/ /\ call[p].step = "activate" /\ Handles(p, "restore")
        /\ runtime' \in {runtime, call[p].repair} /\ UNCHANGED receipts
     \/ /\ call[p].step = "receipt" /\ Handles(p, "restore")
        /\ receipts' \in {receipts, receipts \cup {call[p].repair}} /\ UNCHANGED runtime
     \/ /\ call[p].step = "restore" /\ Leaves(p, "unrestored")
        /\ runtime' \in {runtime, call[p].repair - 1} /\ UNCHANGED receipts
FaultComplete(p) ==
  /\ call[p].op = "complete" /\ call[p].step # "lock" /\ Leaves(p, "failed")
  /\ UNCHANGED <<receiver, maintenance>>
  /\ upstream' \in {upstream} \cup
       IF call[p].step = "switch" THEN {"previous"}
       ELSE IF call[p].step = "restored" THEN {"retained"}
       ELSE IF call[p].step = "final" THEN {"final", "previous"} ELSE {}
  /\ slots' \in IF call[p].step = "clean" THEN {slots, FALSE} ELSE {slots}
  /\ plan' \in IF call[p].step = "forget" THEN {plan, FALSE} ELSE {plan}
  /\ completion' \in IF call[p].step = "record" THEN {completion, Receipt(p)} ELSE {completion}
FaultApply(p) ==
  /\ call[p].op = "apply" /\ UNCHANGED <<receiver, recovery, kept>>
  /\ \/ call[p].step = "copy" /\ Leaves(p, "failed") /\ UNCHANGED <<config, configured>>
     \/ /\ call[p].step = "write" /\ Handles(p, "undo")
        /\ config' \in {config, "new"} /\ UNCHANGED configured
     \/ /\ call[p].step \in {"record", "replan"} /\ Handles(p, "undo")
        /\ configured' \in {configured, TRUE} /\ UNCHANGED config
     \/ /\ call[p].step \in {"undo", "unlink"} /\ Leaves(p, "unrestored")
        /\ config' \in {config, "old"} /\ UNCHANGED configured
Fault(p) ==
  /\ kills + faults < MaxFaults /\ faults' = faults + 1
  /\ FaultInstall(p) \/ FaultComplete(p) \/ FaultApply(p)
  /\ UNCHANGED <<production, calls, kills>>
(* The process is killed: its lock goes with it.                           *)
Kill(p) ==
  /\ call[p].op # "none" /\ kills + faults < MaxFaults /\ kills' = kills + 1
  /\ Leaves(p, "killed")
  /\ Keeps /\ UNCHANGED <<calls, faults>>

-----------------------------------------------------------------------------
Environment ==
  \/ Tick \/ Sync
  \/ \E w \in Workers : Rotate(w) \/ Replace(w) \/ \E report \in Reports : Report(w, report)
Install(p) == CheckInstall(p) \/ CopyInstall(p) \/ Activate(p) \/ RecordInstall(p) \/ RestoreFile(p)
Rollback(p) == SwitchFirst(p) \/ SwitchRestored(p) \/ SwitchFinal(p) \/ RemoveSlots(p)
               \/ CompletePlan(p) \/ RecordCompletion(p)
Complete(p) == CheckComplete(p) \/ CheckSync(p) \/ StartCoverage(p) \/ EndCoverage(p)
               \/ (\E w \in Workers : ScanWorker(p, w)) \/ RetainEvidence(p) \/ Rollback(p)
Apply(p) == CheckApply(p) \/ CopyConfig(p) \/ WriteConfig(p) \/ RecordConfig(p) \/ PlanAgain(p)
            \/ RestoreConfig(p) \/ UnlinkReceipt(p)
Call(p) == (\E o \in Operations : Begin(p, o)) \/ Lock(p) \/ Install(p) \/ Complete(p) \/ Apply(p)
Next == Environment \/ \E p \in Owners : Call(p) \/ Fault(p) \/ Kill(p)
Spec == Init /\ [][Next]_vars
=============================================================================
