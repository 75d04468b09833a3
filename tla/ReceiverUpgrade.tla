-------------------------- MODULE ReceiverUpgrade --------------------------
(***************************************************************************)
(* The transactional installer of the deployment receiver itself           *)
(* (ops/deploy/receiver_upgrade.py): a fixed list of live paths is backed  *)
(* up, replaced one path at a time, proved by a nested preflight run by    *)
(* the new receiver, and put back exactly after any failure.  A kill or a  *)
(* power loss leaves a transaction record which `recover` consumes.        *)
(*                                                                         *)
(* A path's bytes, owner and mode are one value: the commit it was         *)
(* installed from.  A rename is visible at once and durable only after the *)
(* directories are flushed: disk[t] is the set of contents a power loss    *)
(* may leave at t.  The nested preflight is the engine of Deployment.tla,  *)
(* seen from outside: it may arm and consume one application recovery      *)
(* plan, and it may exit, fail or hang.                                    *)
(***************************************************************************)
EXTENDS Naturals, FiniteSets

CONSTANTS
    TargetCount,  \* the live paths, in TARGETS order; the dispatcher is last
    Pinned,       \* the paths whose identity the reviewed baselines pin
    Commits,      \* the reviewed commits an operator may install, in order
    MaxAttempts,  \* bound on upgrade attempts: each makes one backup
    MaxStops,     \* bound on SIGKILLs and power losses
    MaxFaults     \* bound on failed writes of a transaction record

ASSUME TargetAssumption == TargetCount \in Nat \ {0}
ASSUME CommitAssumption == Commits \subseteq Nat \ {0}
ASSUME BoundAssumption == MaxAttempts \in Nat /\ MaxStops \in Nat /\ MaxFaults \in Nat

VARIABLES
    live,       \* what each live path shows
    disk,       \* what a power loss may leave at each path
    made,       \* backups made so far
    commit,     \* the commit each attempt installs
    payload,    \* the contents each backup holds
    state,      \* transaction.json of each backup
    pc,         \* where the process that holds the lock is
    recovering, \* that process is `recover`, not `upgrade`
    cur,        \* the backup it works on
    at,         \* the path it promotes or restores next
    mutated,    \* live_mutation_started
    interrupted,\* its termination guard has seen a signal
    unresolved, \* it met _NestedPreflightRecoveryError
    child,      \* the nested preflight
    childOf,    \* the attempt that started it
    marker,     \* active-recovery.json: an application recovery plan
    stops,      \* kills and power losses so far
    faults      \* failed record writes so far

disks == <<live, disk>>
backups == <<made, commit, payload, state>>
process == <<pc, recovering, cur, at, mutated, interrupted, unresolved>>
application == <<child, childOf, marker>>
counters == <<stops, faults>>
vars == <<disks, backups, process, application, counters>>

Targets == 1..TargetCount
Contents == {0} \cup Commits    \* 0: the receiver this history began with
Attempts == 1..MaxAttempts
States == {"none", "backup-verified", "activation-in-progress", "completed",
           "not-activated", "rolled-back", "rollback-failed"}
Installing == {"backup", "staging", "activating", "syncing", "preflight",
               "waiting", "stopping", "checking", "confirming"}
Restoring == {"restoring", "resyncing", "resolving", "rolledback"}

TypeOK ==
    /\ live \in [Targets -> Contents]
    /\ disk \in [Targets -> SUBSET Contents]
    /\ made \in 0..MaxAttempts
    /\ commit \in [Attempts -> Contents]
    /\ payload \in [Attempts -> [Targets -> Contents]]
    /\ state \in [Attempts -> States]
    /\ pc \in {"idle", "recording"} \cup Installing \cup Restoring
    /\ recovering \in BOOLEAN
    /\ cur \in 0..MaxAttempts
    /\ at \in 1..(TargetCount + 1)
    /\ mutated \in BOOLEAN
    /\ interrupted \in BOOLEAN
    /\ unresolved \in BOOLEAN
    /\ child \in {"none", "running", "passed", "failed", "killed"}
    /\ childOf \in 0..MaxAttempts
    /\ marker \in BOOLEAN
    /\ stops \in 0..MaxStops
    /\ faults \in 0..MaxFaults

Init ==
    /\ live = [t \in Targets |-> 0]
    /\ disk = [t \in Targets |-> {0}]
    /\ made = 0
    /\ commit = [b \in Attempts |-> 0]
    /\ payload = [b \in Attempts |-> [t \in Targets |-> 0]]
    /\ state = [b \in Attempts |-> "none"]
    /\ pc = "idle"
    /\ recovering = FALSE
    /\ cur = 0
    /\ at = 1
    /\ mutated = FALSE
    /\ interrupted = FALSE
    /\ unresolved = FALSE
    /\ child = "none"
    /\ childOf = 0
    /\ marker = FALSE
    /\ stops = 0
    /\ faults = 0

-----------------------------------------------------------------------------
(* Transaction records *)

Unsettled == {"activation-in-progress", "rollback-failed"}

\* transaction.json says recovery_required.
RecoveryRequired(b) == state[b] \in Unsettled

Record(s) == state' = [state EXCEPT ![cur] = s] /\ UNCHANGED faults

\* A failing write may have renamed the new record already.  A failed final
\* record is followed by an attempt to write rollback-failed, which a second
\* fault spoils too.
RecordFails(s) ==
    /\ faults < MaxFaults
    /\ IF s \in {"completed", "rolled-back"}
       THEN \/ /\ state' = [state EXCEPT ![cur] = "rollback-failed"]
               /\ faults' = faults + 1
            \/ /\ faults + 1 < MaxFaults
               /\ state' \in {state, [state EXCEPT ![cur] = s]}
               /\ faults' = faults + 2
       ELSE /\ state' \in {state, [state EXCEPT ![cur] = s]}
            /\ faults' = faults + 1

RecordAttempted(s) == Record(s) \/ RecordFails(s)

-----------------------------------------------------------------------------
(* The production lock and the reviewed baselines *)

\* flock on deploy.lock: the child inherits the descriptor, so the lock lives
\* as long as either process does.
LockFree == pc = "idle" /\ child # "running"

\* _verify_confirmed_installed_receiver: the pinned paths are exactly those of
\* one baseline older than the commit to install.
Confirmed(c) ==
    \E b \in Contents : b < c /\ \A t \in Pinned : live[t] = b

LiveIs(files) == live = files

\* upgrade-receiver.sh: the export is exactly the reviewed tree of the commit,
\* the inputs are pinned and the deployment tests pass.
Reviewed(c) == c \in Commits

OpenUpgrade(c) ==
    /\ LockFree
    /\ made < MaxAttempts
    /\ Reviewed(c) /\ Confirmed(c)
    /\ made' = made + 1
    /\ commit' = [commit EXCEPT ![made + 1] = c]
    /\ pc' = "backup"
    /\ cur' = made + 1
    /\ recovering' = FALSE
    /\ at' = 1
    /\ mutated' = FALSE
    /\ interrupted' = FALSE
    /\ unresolved' = FALSE
    /\ child' = "none"
    /\ UNCHANGED <<disks, payload, state, childOf, marker, counters>>

\* ReceiverSnapshot.create and the flushed "backup-verified" record.
CreateBackup ==
    /\ pc = "backup"
    /\ payload' = [payload EXCEPT ![cur] = live]
    /\ \/ Record("backup-verified") /\ pc' = "staging"
       \/ RecordFails("backup-verified") /\ pc' = "idle"
    /\ UNCHANGED <<disks, made, commit, recovering, cur, at, mutated, interrupted,
                   unresolved, application, stops>>

BackupFails ==
    /\ pc = "backup"
    /\ pc' = "idle"
    /\ UNCHANGED <<disks, backups, recovering, cur, at, mutated, interrupted, unresolved,
                   application, counters>>

-----------------------------------------------------------------------------
(* Activation and the nested preflight *)

\* The except clause of execute_upgrade: what any failure or the first
\* catchable signal leads to.  After a live mutation the backup is restored.
Abandon ==
    IF mutated'
    THEN pc' = "restoring" /\ at' = 1
    ELSE pc' = "recording" /\ UNCHANGED at

\* install-receiver.sh: every path of one commit, built in a private directory.
Staged(c) == [t \in Targets |-> c]

\* Staging verified twice against the reviewed contract, the live paths still
\* as backed up, and the conservative record written before any live change.
Stage ==
    /\ pc = "staging"
    /\ LiveIs(payload[cur])
    /\ \/ Record("activation-in-progress") /\ pc' = "activating"
       \/ RecordFails("activation-in-progress") /\ pc' = "recording"
    /\ UNCHANGED <<disks, made, commit, payload, recovering, cur, at, mutated, interrupted,
                   unresolved, application, stops>>

\* activate_staged, one path: mark_live_mutation, then an atomic exchange.
Promote ==
    /\ pc = "activating"
    /\ mutated' = TRUE
    /\ live' = [live EXCEPT ![at] = Staged(commit[cur])[at]]
    /\ disk' = [disk EXCEPT ![at] = @ \cup {Staged(commit[cur])[at]}]
    /\ at' = at + 1
    /\ pc' = IF at = TargetCount THEN "syncing" ELSE "activating"
    /\ UNCHANGED <<backups, recovering, cur, interrupted, unresolved, application,
                   counters>>

Flushed == [t \in Targets |-> {live[t]}]

SyncStaged ==
    /\ pc = "syncing"
    /\ LiveIs(Staged(commit[cur]))
    /\ disk' = Flushed
    /\ pc' = "preflight"
    /\ UNCHANGED <<live, backups, recovering, cur, at, mutated, interrupted, unresolved,
                   application, counters>>

Spawn ==
    /\ pc = "preflight"
    /\ child' = "running"
    /\ childOf' = cur
    /\ pc' = "waiting"
    /\ UNCHANGED <<disks, backups, recovering, cur, at, mutated, interrupted, unresolved,
                   marker, counters>>

\* A signal handled after the fork and before the try block that supervises
\* the child: Popen's result is lost and the child is on its own.
SpawnInterrupted ==
    /\ pc = "preflight"
    /\ child' = "running"
    /\ childOf' = cur
    /\ pc' = "restoring"
    /\ at' = 1
    /\ UNCHANGED <<disks, backups, recovering, cur, mutated, interrupted, unresolved, marker,
                   counters>>

\* The child is the engine: it may arm its plan, consume it, and exit.
ChildActs ==
    /\ child = "running"
    /\ \/ marker' \in BOOLEAN /\ UNCHANGED child
       \/ child' \in {"passed", "failed"} /\ UNCHANGED marker
    /\ UNCHANGED <<disks, backups, process, childOf, counters>>

\* Mutant: exit status 0 alone is believed.
BelievesExitStatus ==
    /\ pc = "waiting"
    /\ child = "passed"
    /\ pc' = "confirming"
    /\ UNCHANGED <<disks, backups, recovering, cur, at, mutated, interrupted,
                   unresolved, application, counters>>

\* success_check: exit status 0 and no plan left.
ChildPassed ==
    /\ pc = "waiting"
    /\ child = "passed"
    /\ pc' = IF marker THEN "checking" ELSE "confirming"
    /\ UNCHANGED <<disks, backups, recovering, cur, at, mutated, interrupted, unresolved,
                   application, counters>>

ChildFailed ==
    /\ pc = "waiting"
    /\ child = "failed"
    /\ pc' = "checking"
    /\ UNCHANGED <<disks, backups, recovering, cur, at, mutated, interrupted, unresolved,
                   application, counters>>

\* The timeout, or a first signal: TERM to the child's process group.
StopChild ==
    /\ pc = "waiting"
    /\ child = "running"
    /\ pc' = "stopping"
    /\ interrupted' \in {interrupted, TRUE}
    /\ UNCHANGED <<disks, backups, recovering, cur, at, mutated, unresolved,
                   application, counters>>

\* Mutant: the child that outlives its grace period is waited for.
WaitsForEver ==
    /\ pc = "stopping"
    /\ child # "running"
    /\ pc' = "checking"
    /\ UNCHANGED <<disks, backups, recovering, cur, at, mutated, interrupted,
                   unresolved, application, counters>>

\* The child ended within its grace period, or its group is killed after it.
ChildStopped ==
    /\ pc = "stopping"
    /\ child' = IF child = "running" THEN "killed" ELSE child
    /\ pc' = "checking"
    /\ UNCHANGED <<disks, backups, recovering, cur, at, mutated, interrupted,
                   unresolved, childOf, marker, counters>>

\* The first signal, inside the handler of the timeout: it leaves the handler,
\* and with it the kill and the recovery check.
StopInterrupted ==
    /\ pc = "stopping"
    /\ ~interrupted
    /\ interrupted' = TRUE
    /\ UNCHANGED mutated
    /\ Abandon
    /\ UNCHANGED <<disks, backups, recovering, cur, unresolved, application,
                   counters>>

\* _verify_nested_preflight_recovery: the reviewed code rolls the child's plan
\* back, or fails and may leave it for later.
CheckRecovery ==
    /\ pc = "checking"
    /\ \/ marker' = FALSE /\ UNCHANGED unresolved
       \/ marker' \in {marker, FALSE} /\ unresolved' = TRUE
    /\ UNCHANGED mutated
    /\ Abandon
    /\ UNCHANGED <<disks, backups, recovering, cur, interrupted, child, childOf,
                   counters>>

Confirm ==
    /\ pc = "confirming"
    /\ disk' = Flushed
    /\ LiveIs(Staged(commit[cur]))
    /\ \/ Record("completed") /\ pc' = "idle" /\ UNCHANGED at
       \/ RecordFails("completed") /\ pc' = "restoring" /\ at' = 1
    /\ UNCHANGED <<live, made, commit, payload, recovering, cur, mutated, interrupted,
                   unresolved, application, stops>>

\* Any check or copy that fails, or the first signal, while no child is waited
\* for.  During the activation the mutation mark may be set already.
Fail ==
    /\ pc \in {"staging", "activating", "syncing", "preflight", "confirming"}
    /\ UNCHANGED mutated \/ (pc # "staging" /\ mutated' = TRUE)
    /\ Abandon
    /\ UNCHANGED <<disks, backups, recovering, cur, interrupted, unresolved,
                   application, counters>>

RecordNotActivated ==
    /\ pc = "recording"
    /\ RecordAttempted("not-activated")
    /\ pc' = "idle"
    /\ UNCHANGED <<disks, made, commit, payload, recovering, cur, at, mutated,
                   interrupted, unresolved, application, stops>>

-----------------------------------------------------------------------------
(* Restoring a backup: the automatic rollback and `recover` *)

\* recover_backup: only a verified backup whose record asks for it.
OpenRecovery(b) ==
    /\ LockFree
    /\ b <= made
    /\ RecoveryRequired(b)
    /\ pc' = "restoring"
    /\ recovering' = TRUE
    /\ cur' = b
    /\ at' = 1
    /\ mutated' = FALSE
    /\ interrupted' = FALSE
    /\ unresolved' = FALSE
    /\ UNCHANGED <<disks, backups, application, counters>>

Restore ==
    /\ pc = "restoring"
    /\ live' = [live EXCEPT ![at] = payload[cur][at]]
    /\ disk' = [disk EXCEPT ![at] = @ \cup {payload[cur][at]}]
    /\ at' = at + 1
    /\ pc' = IF at = TargetCount THEN "resyncing" ELSE "restoring"
    /\ UNCHANGED <<backups, recovering, cur, mutated, interrupted, unresolved,
                   application, counters>>

\* Mutant: the restored paths are verified but not flushed.
RestoresUnflushed ==
    /\ pc = "resyncing"
    /\ LiveIs(payload[cur])
    /\ pc' = IF recovering THEN "resolving" ELSE "rolledback"
    /\ UNCHANGED <<disks, backups, recovering, cur, at, mutated, interrupted,
                   unresolved, application, counters>>

\* verify_live, flush, verify_live.
SyncRestored ==
    /\ pc = "resyncing"
    /\ LiveIs(payload[cur])
    /\ disk' = Flushed
    /\ pc' = IF recovering THEN "resolving" ELSE "rolledback"
    /\ UNCHANGED <<live, backups, recovering, cur, at, mutated, interrupted,
                   unresolved, application, counters>>

\* `recover` then consumes what application plan there is.
ResolveApplication ==
    /\ pc = "resolving"
    /\ marker' = FALSE
    /\ pc' = "rolledback"
    /\ UNCHANGED <<disks, backups, recovering, cur, at, mutated, interrupted,
                   unresolved, child, childOf, counters>>

\* A copy, a rename, a check or the application recovery fails.
RestoreFails ==
    /\ pc \in Restoring \ {"rolledback"}
    /\ RecordAttempted("rollback-failed")
    /\ pc' = "idle"
    /\ UNCHANGED <<disks, made, commit, payload, recovering, cur, at, mutated,
                   interrupted, unresolved, application, stops>>

RecordRestored ==
    /\ pc = "rolledback"
    /\ RecordAttempted(IF unresolved THEN "rollback-failed" ELSE "rolled-back")
    /\ pc' = "idle"
    /\ UNCHANGED <<disks, made, commit, payload, recovering, cur, at, mutated,
                   interrupted, unresolved, application, stops>>

-----------------------------------------------------------------------------
(* The host *)

\* SIGKILL ends the installer; its child lives on in its own session.
Kill ==
    /\ pc # "idle"
    /\ stops < MaxStops
    /\ stops' = stops + 1
    /\ pc' = "idle"
    /\ UNCHANGED <<disks, backups, recovering, cur, at, mutated, interrupted,
                   unresolved, application, faults>>

\* Every process ends; each path shows one of the contents in flight.
PowerLoss ==
    /\ stops < MaxStops
    /\ stops' = stops + 1
    /\ live' \in [Targets -> Contents]
    /\ \A t \in Targets : live'[t] \in disk[t]
    /\ disk' = [t \in Targets |-> {live'[t]}]
    /\ pc' = "idle"
    /\ child' = "none"
    /\ UNCHANGED <<backups, recovering, cur, at, mutated, interrupted,
                   unresolved, childOf, marker, faults>>

\* An ordinary preflight or deployment under the same lock.
ApplicationRun ==
    /\ LockFree
    /\ marker' \in BOOLEAN
    /\ UNCHANGED <<disks, backups, process, child, childOf, counters>>

-----------------------------------------------------------------------------

Step ==
    \/ CreateBackup \/ BackupFails \/ Stage \/ Promote \/ SyncStaged
    \/ Spawn \/ SpawnInterrupted \/ ChildPassed \/ ChildFailed \/ StopChild
    \/ ChildStopped \/ StopInterrupted \/ CheckRecovery \/ Confirm \/ Fail
    \/ RecordNotActivated
    \/ Restore \/ SyncRestored \/ ResolveApplication \/ RestoreFails
    \/ RecordRestored

Next ==
    \/ \E c \in Commits : OpenUpgrade(c)
    \/ \E b \in Attempts : OpenRecovery(b)
    \/ Step
    \/ ChildActs
    \/ Kill \/ PowerLoss \/ ApplicationRun

Spec == Init /\ [][Next]_vars

\* The installer itself is never blocked: every wait has a timeout.
FairSpec == Spec /\ WF_vars(Step)
=============================================================================
