----------------------------- MODULE HostProofs -----------------------------
(***************************************************************************)
(* Proofs about the two root services of the host: the receiver's          *)
(* transactional installer (ReceiverUpgrade), for any number of paths,     *)
(* commits, attempts, kills and power losses, when the baseline pins every *)
(* path and at most one record write fails, and the agent of VPS Health    *)
(* (HostActions), for any number of requests, pages, counts, kills and     *)
(* failed writes.  They share no state.                                    *)
(*                                                                         *)
(* The argument for the installer: every backup holds one whole receiver,  *)
(* because an upgrade starts only from a pinned baseline.  From the record *)
(* made before the first promotion until the final record, the backup in   *)
(* use asks for recovery; before that record nothing has changed, so       *)
(* whatever mixture exists is admitted by another backup.  A final record  *)
(* follows a flush.                                                        *)
(*                                                                         *)
(* The argument for the agent: a request is sent once, so its file is      *)
(* written by one thread, and a settled file is settled for good; what a   *)
(* page was told may be old, but not when it is a verdict.  A thread lives *)
(* only while its request is active, so there is one, and the request      *)
(* whose command runs is the one that wrote .env last.                     *)
(***************************************************************************)
EXTENDS ReceiverProperties, HostActionsProperties, TLAPS

WholeReceivers == {Staged(c) : c \in Contents}

(* What a process that is past the conservative record relies on it for.   *)
Armed == {"activating", "syncing", "preflight", "waiting", "stopping",
          "checking", "confirming"} \cup Restoring
Untouched == {"backup", "staging", "recording"}

BusyInv ==
  /\ pc # "idle" => cur \in Attempts /\ cur <= made
  /\ pc \in {"activating", "restoring"} => at \in Targets
  /\ pc \in {"backup", "staging"} => at = 1
  /\ pc \in Untouched => ~mutated
  /\ pc \in {"waiting", "stopping", "checking", "confirming"} => childOf = cur
  /\ recovering => pc \in {"idle"} \cup Restoring

BackupInv ==
  /\ \A b \in Attempts : b > made => state[b] = "none"
  /\ \A b \in Attempts : state[b] # "none" => payload[b] \in WholeReceivers
  /\ pc = "backup" => live \in WholeReceivers
  /\ pc = "staging" => payload[cur] \in WholeReceivers
  /\ pc \in {"staging", "recording"} \cup Armed => state[cur] # "none"

ArmedInv == pc \in Armed => RecoveryRequired(cur)

(* Before any live mutation somebody else admits whatever mixture exists.  *)
Elsewhere == Whole \/ \E b \in Attempts : b # cur /\ RecoveryRequired(b)
UntouchedInv ==
  pc \in Installing \cup {"recording"} /\ ~mutated => Elsewhere

(* What holds when a final record is about to be written.                  *)
FinalInv ==
  /\ pc \in {"resolving", "rolledback"} => Holds(payload[cur])
  /\ pc = "confirming" => child = "passed" /\ ~marker
  /\ recovering /\ pc # "idle" => child # "running"
  /\ recovering /\ pc = "rolledback" => ~marker

IInv == TypeOK /\ BusyInv /\ BackupInv /\ ArmedInv /\ UntouchedInv
        /\ MixedAsksForRecovery /\ FinalInv

-----------------------------------------------------------------------------
(* Writing a record touches one backup, and says something legal.          *)

LEMMA RecordTypes ==
  ASSUME TypeOK, cur \in Attempts, NEW s \in States, Record(s) \/ RecordFails(s)
  PROVE  /\ state' \in [Attempts -> States] /\ faults' \in 0..MaxFaults
         /\ \A b \in Attempts : b # cur => state'[b] = state[b]
         /\ state'[cur] \in {state[cur], s, "rollback-failed"}
BY BoundAssumption DEF TypeOK, Record, RecordFails, States

(* With one fault at most, a final record is made or asks for recovery.    *)
LEMMA FinalRecord ==
  ASSUME TypeOK, cur \in Attempts, MaxFaults <= 1,
         NEW s \in {"completed", "rolled-back"}, Record(s) \/ RecordFails(s)
  PROVE  Record(s) \/ state'[cur] = "rollback-failed"
BY BoundAssumption DEF TypeOK, Record, RecordFails

LEMMA StagedType ==
  ASSUME NEW c \in Contents
  PROVE  /\ Staged(c) \in [Targets -> Contents] /\ Staged(c) \in WholeReceivers
         /\ \A t \in Targets : Staged(c)[t] = c
BY DEF Staged, WholeReceivers

(* A whole receiver held durably is a whole installation.                  *)
LEMMA WholeHeld ==
  ASSUME NEW files \in WholeReceivers, Holds(files)
  PROVE  Whole
<1>1. PICK c \in Contents : files = [t \in Targets |-> c]
  BY DEF WholeReceivers, Staged
<1> QED BY <1>1 DEF Whole

LEMMA IndexTypes ==
  /\ 1 \in Targets /\ TargetCount \in Targets /\ Commits \subseteq Contents
  /\ \A t \in Targets : t # TargetCount => t + 1 \in Targets
  /\ \A t \in Targets : t + 1 \in 1..(TargetCount + 1) /\ t \in 1..(TargetCount + 1)
BY TargetAssumption DEF Targets, Contents

-----------------------------------------------------------------------------
(* Type correctness.                                                       *)
LEMMA TypeStep ==
  ASSUME TypeOK, BusyInv, [Next]_vars
  PROVE  TypeOK'
<1>1. CASE UNCHANGED vars
  BY <1>1, IndexTypes, BoundAssumption
    DEF vars, disks, backups, process, application, counters, TypeOK, BusyInv, Installing,
          Restoring
<1>2. ASSUME NEW c \in Commits, OpenUpgrade(c) PROVE TypeOK'
  <2>1. made + 1 \in Attempts /\ made + 1 \in 0..MaxAttempts /\ c \in Contents
    BY <1>2, IndexTypes, BoundAssumption DEF OpenUpgrade, TypeOK, Attempts
  <2> QED BY <1>2, <2>1, IndexTypes DEF OpenUpgrade, TypeOK, Installing, disks, counters
<1>3. ASSUME NEW b \in Attempts, OpenRecovery(b) PROVE TypeOK'
  <2>1. b \in 0..MaxAttempts
    BY BoundAssumption DEF Attempts
  <2> QED BY <1>3, <2>1, IndexTypes
        DEF OpenRecovery, TypeOK, Restoring, disks, backups, application, counters
<1>4. CASE CreateBackup
  <2>1. Record("backup-verified") \/ RecordFails("backup-verified")
    BY <1>4 DEF CreateBackup, RecordAttempted
  <2>2. cur \in Attempts /\ "backup-verified" \in States
    BY <1>4 DEF CreateBackup, BusyInv, Installing, Restoring, States
  <2>3. state' \in [Attempts -> States] /\ faults' \in 0..MaxFaults
    BY <2>1, <2>2, RecordTypes
  <2> QED
    BY <1>4, <2>3, IndexTypes
      DEF CreateBackup, disks, application, TypeOK, BusyInv, Installing, Restoring
<1>5. CASE BackupFails
  BY <1>5, IndexTypes, BoundAssumption
    DEF BackupFails, disks, backups, application, counters, TypeOK, BusyInv, Installing,
          Restoring
<1>6. CASE Stage
  <2>1. Record("activation-in-progress") \/ RecordFails("activation-in-progress")
    BY <1>6 DEF Stage, RecordAttempted
  <2>2. cur \in Attempts /\ "activation-in-progress" \in States
    BY <1>6 DEF Stage, BusyInv, Installing, Restoring, States
  <2>3. state' \in [Attempts -> States] /\ faults' \in 0..MaxFaults
    BY <2>1, <2>2, RecordTypes
  <2> QED
    BY <1>6, <2>3, IndexTypes
      DEF Stage, LiveIs, disks, application, TypeOK, BusyInv, Installing, Restoring
<1>7. CASE Promote
  BY <1>7, IndexTypes, BoundAssumption, StagedType
    DEF Promote, Staged, backups, application, counters, TypeOK, BusyInv, Installing,
          Restoring
<1>8. CASE SyncStaged
  BY <1>8, IndexTypes, BoundAssumption
    DEF SyncStaged, LiveIs, Flushed, Staged, backups, application, counters, TypeOK, BusyInv,
          Installing, Restoring
<1>9. CASE Spawn
  BY <1>9, IndexTypes, BoundAssumption
    DEF Spawn, disks, backups, counters, TypeOK, BusyInv, Installing, Restoring
<1>10. CASE SpawnInterrupted
  BY <1>10, IndexTypes, BoundAssumption
    DEF SpawnInterrupted, disks, backups, counters, TypeOK, BusyInv, Installing, Restoring
<1>11. CASE ChildPassed
  BY <1>11, IndexTypes, BoundAssumption
    DEF ChildPassed, disks, backups, application, counters, TypeOK, BusyInv, Installing,
          Restoring
<1>12. CASE ChildFailed
  BY <1>12, IndexTypes, BoundAssumption
    DEF ChildFailed, disks, backups, application, counters, TypeOK, BusyInv, Installing,
          Restoring
<1>13. CASE StopChild
  BY <1>13, IndexTypes, BoundAssumption
    DEF StopChild, disks, backups, application, counters, TypeOK, BusyInv, Installing,
          Restoring
<1>14. CASE ChildStopped
  BY <1>14, IndexTypes, BoundAssumption
    DEF ChildStopped, disks, backups, counters, TypeOK, BusyInv, Installing, Restoring
<1>15. CASE StopInterrupted
  BY <1>15, IndexTypes, BoundAssumption
    DEF StopInterrupted, Abandon, disks, backups, application, counters, TypeOK, BusyInv,
          Installing, Restoring
<1>16. CASE CheckRecovery
  BY <1>16, IndexTypes, BoundAssumption
    DEF CheckRecovery, Abandon, disks, backups, counters, TypeOK, BusyInv, Installing,
          Restoring
<1>17. CASE Confirm
  <2>1. Record("completed") \/ RecordFails("completed")
    BY <1>17 DEF Confirm, RecordAttempted
  <2>2. cur \in Attempts /\ "completed" \in States
    BY <1>17 DEF Confirm, BusyInv, Installing, Restoring, States
  <2>3. state' \in [Attempts -> States] /\ faults' \in 0..MaxFaults
    BY <2>1, <2>2, RecordTypes
  <2> QED
    BY <1>17, <2>3, IndexTypes
      DEF Confirm, LiveIs, Flushed, Staged, application, TypeOK, BusyInv, Installing,
            Restoring
<1>18. CASE Fail
  BY <1>18, IndexTypes, BoundAssumption
    DEF Fail, Abandon, disks, backups, application, counters, TypeOK, BusyInv, Installing,
          Restoring
<1>19. CASE RecordNotActivated
  <2>1. Record("not-activated") \/ RecordFails("not-activated")
    BY <1>19 DEF RecordNotActivated, RecordAttempted
  <2>2. cur \in Attempts /\ "not-activated" \in States
    BY <1>19 DEF RecordNotActivated, BusyInv, Installing, Restoring, States
  <2>3. state' \in [Attempts -> States] /\ faults' \in 0..MaxFaults
    BY <2>1, <2>2, RecordTypes
  <2> QED
    BY <1>19, <2>3, IndexTypes
      DEF RecordNotActivated, disks, application, TypeOK, BusyInv, Installing, Restoring
<1>20. CASE Restore
  BY <1>20, IndexTypes, BoundAssumption
    DEF Restore, backups, application, counters, TypeOK, BusyInv, Installing, Restoring
<1>21. CASE SyncRestored
  BY <1>21, IndexTypes, BoundAssumption
    DEF SyncRestored, LiveIs, Flushed, backups, application, counters, TypeOK, BusyInv,
          Installing, Restoring
<1>22. CASE ResolveApplication
  BY <1>22, IndexTypes, BoundAssumption
    DEF ResolveApplication, disks, backups, counters, TypeOK, BusyInv, Installing, Restoring
<1>23. CASE RestoreFails
  <2>1. Record("rollback-failed") \/ RecordFails("rollback-failed")
    BY <1>23 DEF RestoreFails, RecordAttempted
  <2>2. cur \in Attempts /\ "rollback-failed" \in States
    BY <1>23 DEF RestoreFails, BusyInv, Installing, Restoring, States
  <2>3. state' \in [Attempts -> States] /\ faults' \in 0..MaxFaults
    BY <2>1, <2>2, RecordTypes
  <2> QED
    BY <1>23, <2>3, IndexTypes
      DEF RestoreFails, disks, application, TypeOK, BusyInv, Installing, Restoring
<1>24. CASE RecordRestored
  <2>1. RecordAttempted("rolled-back") \/ RecordAttempted("rollback-failed")
    BY <1>24 DEF RecordRestored
  <2>2. cur \in Attempts /\ {"rolled-back", "rollback-failed"} \subseteq States
    BY <1>24 DEF RecordRestored, BusyInv, States
  <2>3. state' \in [Attempts -> States] /\ faults' \in 0..MaxFaults
    BY <2>1, <2>2, RecordTypes DEF RecordAttempted
  <2> QED BY <1>24, <2>3 DEF RecordRestored, disks, application, TypeOK
<1>25. CASE ChildActs
  BY <1>25, IndexTypes, BoundAssumption
    DEF ChildActs, disks, backups, process, counters, TypeOK, BusyInv, Installing, Restoring
<1>26. CASE Kill
  BY <1>26, IndexTypes, BoundAssumption
    DEF Kill, disks, backups, application, TypeOK, BusyInv, Installing, Restoring
<1>27. CASE PowerLoss
  BY <1>27, IndexTypes, BoundAssumption
    DEF PowerLoss, backups, TypeOK, BusyInv, Installing, Restoring
<1>28. CASE ApplicationRun
  BY <1>28, IndexTypes, BoundAssumption
    DEF ApplicationRun, disks, backups, process, counters, TypeOK, BusyInv, Installing,
          Restoring
<1> QED
  BY <1>1, <1>2, <1>3, <1>4, <1>5, <1>6, <1>7, <1>8, <1>9, <1>10, <1>11, <1>12, <1>13,
      <1>14, <1>15, <1>16, <1>17, <1>18, <1>19, <1>20, <1>21, <1>22, <1>23, <1>24, <1>25,
      <1>26, <1>27, <1>28 DEF Next, Step

-----------------------------------------------------------------------------
(* Where the process is and what it works on.                              *)
LEMMA BusyStep ==
  ASSUME TypeOK, BusyInv, [Next]_vars
  PROVE  BusyInv'
<1>1. CASE UNCHANGED vars
  BY <1>1, IndexTypes
    DEF vars, disks, backups, process, application, counters, BusyInv, Untouched, Installing,
          Restoring, TypeOK
<1>2. ASSUME NEW c \in Commits, OpenUpgrade(c) PROVE BusyInv'
  <2>1. made + 1 \in Attempts
    BY <1>2, BoundAssumption DEF OpenUpgrade, TypeOK, Attempts
  <2>2. made + 1 <= made + 1
    BY BoundAssumption DEF TypeOK
  <2> QED BY <1>2, <2>1, <2>2 DEF OpenUpgrade, BusyInv, Untouched, Restoring
<1>3. ASSUME NEW b \in Attempts, OpenRecovery(b) PROVE BusyInv'
  BY <1>3, IndexTypes
    DEF OpenRecovery, LockFree, disks, backups, application, counters, BusyInv, Untouched,
          Installing, Restoring, TypeOK
<1>4. CASE CreateBackup
  BY <1>4, IndexTypes
    DEF CreateBackup, disks, application, BusyInv, Untouched, Installing, Restoring, TypeOK
<1>5. CASE BackupFails
  BY <1>5, IndexTypes
    DEF BackupFails, disks, backups, application, counters, BusyInv, Untouched, Installing,
          Restoring, TypeOK
<1>6. CASE Stage
  BY <1>6, IndexTypes
    DEF Stage, LiveIs, disks, application, BusyInv, Untouched, Installing, Restoring, TypeOK
<1>7. CASE Promote
  BY <1>7, IndexTypes
    DEF Promote, Staged, backups, application, counters, BusyInv, Untouched, Installing,
          Restoring, TypeOK
<1>8. CASE SyncStaged
  BY <1>8, IndexTypes
    DEF SyncStaged, LiveIs, Flushed, Staged, backups, application, counters, BusyInv,
          Untouched, Installing, Restoring, TypeOK
<1>9. CASE Spawn
  BY <1>9, IndexTypes
    DEF Spawn, disks, backups, counters, BusyInv, Untouched, Installing, Restoring, TypeOK
<1>10. CASE SpawnInterrupted
  BY <1>10, IndexTypes
    DEF SpawnInterrupted, disks, backups, counters, BusyInv, Untouched, Installing,
          Restoring, TypeOK
<1>11. CASE ChildPassed
  BY <1>11, IndexTypes
    DEF ChildPassed, disks, backups, application, counters, BusyInv, Untouched, Installing,
          Restoring, TypeOK
<1>12. CASE ChildFailed
  BY <1>12, IndexTypes
    DEF ChildFailed, disks, backups, application, counters, BusyInv, Untouched, Installing,
          Restoring, TypeOK
<1>13. CASE StopChild
  BY <1>13, IndexTypes
    DEF StopChild, disks, backups, application, counters, BusyInv, Untouched, Installing,
          Restoring, TypeOK
<1>14. CASE ChildStopped
  BY <1>14, IndexTypes
    DEF ChildStopped, disks, backups, counters, BusyInv, Untouched, Installing, Restoring,
          TypeOK
<1>15. CASE StopInterrupted
  BY <1>15, IndexTypes
    DEF StopInterrupted, Abandon, disks, backups, application, counters, BusyInv, Untouched,
          Installing, Restoring, TypeOK
<1>16. CASE CheckRecovery
  BY <1>16, IndexTypes
    DEF CheckRecovery, Abandon, disks, backups, counters, BusyInv, Untouched, Installing,
          Restoring, TypeOK
<1>17. CASE Confirm
  BY <1>17, IndexTypes
    DEF Confirm, LiveIs, Flushed, Staged, application, BusyInv, Untouched, Installing,
          Restoring, TypeOK
<1>18. CASE Fail
  BY <1>18, IndexTypes
    DEF Fail, Abandon, disks, backups, application, counters, BusyInv, Untouched, Installing,
          Restoring, TypeOK
<1>19. CASE RecordNotActivated
  BY <1>19, IndexTypes
    DEF RecordNotActivated, disks, application, BusyInv, Untouched, Installing, Restoring,
          TypeOK
<1>20. CASE Restore
  BY <1>20, IndexTypes
    DEF Restore, backups, application, counters, BusyInv, Untouched, Installing, Restoring,
          TypeOK
<1>21. CASE SyncRestored
  BY <1>21, IndexTypes
    DEF SyncRestored, LiveIs, Flushed, backups, application, counters, BusyInv, Untouched,
          Installing, Restoring, TypeOK
<1>22. CASE ResolveApplication
  BY <1>22, IndexTypes
    DEF ResolveApplication, disks, backups, counters, BusyInv, Untouched, Installing,
          Restoring, TypeOK
<1>23. CASE RestoreFails
  BY <1>23, IndexTypes
    DEF RestoreFails, disks, application, BusyInv, Untouched, Installing, Restoring, TypeOK
<1>24. CASE RecordRestored
  BY <1>24, IndexTypes
    DEF RecordRestored, disks, application, BusyInv, Untouched, Installing, Restoring,
          TypeOK
<1>25. CASE ChildActs
  BY <1>25, IndexTypes
    DEF ChildActs, disks, backups, process, counters, BusyInv, Untouched, Installing,
          Restoring, TypeOK
<1>26. CASE Kill
  BY <1>26, IndexTypes
    DEF Kill, disks, backups, application, BusyInv, Untouched, Installing, Restoring, TypeOK
<1>27. CASE PowerLoss
  BY <1>27, IndexTypes
    DEF PowerLoss, backups, BusyInv, Untouched, Installing, Restoring, TypeOK
<1>28. CASE ApplicationRun
  BY <1>28, IndexTypes
    DEF ApplicationRun, disks, backups, process, counters, BusyInv, Untouched, Installing,
          Restoring, TypeOK
<1> QED
  BY <1>1, <1>2, <1>3, <1>4, <1>5, <1>6, <1>7, <1>8, <1>9, <1>10, <1>11, <1>12, <1>13,
      <1>14, <1>15, <1>16, <1>17, <1>18, <1>19, <1>20, <1>21, <1>22, <1>23, <1>24, <1>25,
      <1>26, <1>27, <1>28 DEF Next, Step

(* A backup holds one whole receiver.                                      *)
LEMMA BackupStep ==
  ASSUME Pinned = Targets, TypeOK, BusyInv, BackupInv, [Next]_vars
  PROVE  BackupInv'
<1>1. CASE UNCHANGED vars
  BY <1>1, IndexTypes
    DEF vars, disks, backups, process, application, counters, BackupInv, Armed, Restoring,
          Installing
<1>2. ASSUME NEW c \in Commits, OpenUpgrade(c) PROVE BackupInv'
  <2>1. PICK k \in Contents : \A t \in Targets : live[t] = k
    BY <1>2, Pinned = Targets DEF OpenUpgrade, Confirmed
  <2>2. live = Staged(k)
    BY <2>1 DEF TypeOK, Staged
  <2>3. made' = made + 1 /\ \A b \in Attempts : b > made + 1 => b > made
    BY <1>2, BoundAssumption DEF OpenUpgrade, TypeOK, Attempts
  <2> QED BY <1>2, <2>1, <2>2, <2>3, StagedType
        DEF OpenUpgrade, BackupInv, Armed, Restoring, disks
<1>3. ASSUME NEW b \in Attempts, OpenRecovery(b) PROVE BackupInv'
  BY <1>3 DEF OpenRecovery, RecoveryRequired, Unsettled, BackupInv, Armed, Restoring, disks, backups
<1>4. CASE CreateBackup
  <2>1. Record("backup-verified") \/ RecordFails("backup-verified")
    BY <1>4 DEF CreateBackup
  <2>2. cur \in Attempts /\ "backup-verified" \in States
    BY <1>4 DEF CreateBackup, BusyInv, States
  <2>3. \A b \in Attempts : b # cur => state'[b] = state[b]
    BY <2>1, <2>2, RecordTypes
  <2>4. payload' = [payload EXCEPT ![cur] = live] /\ live \in WholeReceivers
    BY <1>4 DEF CreateBackup, BackupInv
  <2>5. /\ payload'[cur] \in WholeReceivers
        /\ \A b \in Attempts : b # cur => payload'[b] = payload[b]
    BY <2>2, <2>4 DEF TypeOK
  <2>6. pc' \in {"staging", "idle"} /\ cur' = cur /\ (pc' = "staging" => state'[cur] # "none")
    BY <1>4, <2>2 DEF CreateBackup, Record, TypeOK
  <2>7. made' = made /\ \A b \in Attempts : b > made => b # cur
    BY <1>4, BoundAssumption DEF CreateBackup, BusyInv, TypeOK, Attempts
  <2> QED BY <2>3, <2>5, <2>6, <2>7 DEF BackupInv, Armed, Restoring
<1>5. CASE BackupFails
  BY <1>5, IndexTypes
    DEF BackupFails, disks, backups, application, counters, BackupInv, Armed, Restoring,
          Installing
<1>6. CASE Stage
  <2>1. Record("activation-in-progress") \/ RecordFails("activation-in-progress")
    BY <1>6 DEF Stage, RecordAttempted
  <2>2. cur \in Attempts /\ "activation-in-progress" \in States
    BY <1>6 DEF Stage, BusyInv, Installing, Restoring, States
  <2>3. /\ \A b \in Attempts : b # cur => state'[b] = state[b]
        /\ state'[cur] \in {state[cur], "activation-in-progress", "rollback-failed"}
    BY <2>1, <2>2, RecordTypes
  <2> QED
    BY <1>6, <2>2, <2>3
      DEF Stage, LiveIs, disks, application, BackupInv, Armed, Restoring, Installing, TypeOK
<1>7. CASE Promote
  BY <1>7, IndexTypes
    DEF Promote, Staged, backups, application, counters, BackupInv, Armed, Restoring,
          Installing
<1>8. CASE SyncStaged
  BY <1>8, IndexTypes
    DEF SyncStaged, LiveIs, Flushed, Staged, backups, application, counters, BackupInv,
          Armed, Restoring, Installing
<1>9. CASE Spawn
  BY <1>9, IndexTypes
    DEF Spawn, disks, backups, counters, BackupInv, Armed, Restoring, Installing
<1>10. CASE SpawnInterrupted
  BY <1>10, IndexTypes
    DEF SpawnInterrupted, disks, backups, counters, BackupInv, Armed, Restoring, Installing
<1>11. CASE ChildPassed
  BY <1>11, IndexTypes
    DEF ChildPassed, disks, backups, application, counters, BackupInv, Armed, Restoring,
          Installing
<1>12. CASE ChildFailed
  BY <1>12, IndexTypes
    DEF ChildFailed, disks, backups, application, counters, BackupInv, Armed, Restoring,
          Installing
<1>13. CASE StopChild
  BY <1>13, IndexTypes
    DEF StopChild, disks, backups, application, counters, BackupInv, Armed, Restoring,
          Installing
<1>14. CASE ChildStopped
  BY <1>14, IndexTypes
    DEF ChildStopped, disks, backups, counters, BackupInv, Armed, Restoring, Installing
<1>15. CASE StopInterrupted
  BY <1>15, IndexTypes
    DEF StopInterrupted, Abandon, disks, backups, application, counters, BackupInv, Armed,
          Restoring, Installing
<1>16. CASE CheckRecovery
  BY <1>16, IndexTypes
    DEF CheckRecovery, Abandon, disks, backups, counters, BackupInv, Armed, Restoring,
          Installing
<1>17. CASE Confirm
  <2>1. Record("completed") \/ RecordFails("completed")
    BY <1>17 DEF Confirm, RecordAttempted
  <2>2. cur \in Attempts /\ "completed" \in States
    BY <1>17 DEF Confirm, BusyInv, Installing, Restoring, States
  <2>3. /\ \A b \in Attempts : b # cur => state'[b] = state[b]
        /\ state'[cur] \in {state[cur], "completed", "rollback-failed"}
    BY <2>1, <2>2, RecordTypes
  <2> QED
    BY <1>17, <2>2, <2>3
      DEF Confirm, LiveIs, Flushed, Staged, application, BackupInv, Armed, Restoring,
            Installing, TypeOK
<1>18. CASE Fail
  BY <1>18, IndexTypes
    DEF Fail, Abandon, disks, backups, application, counters, BackupInv, Armed, Restoring,
          Installing
<1>19. CASE RecordNotActivated
  <2>1. Record("not-activated") \/ RecordFails("not-activated")
    BY <1>19 DEF RecordNotActivated, RecordAttempted
  <2>2. cur \in Attempts /\ "not-activated" \in States
    BY <1>19 DEF RecordNotActivated, BusyInv, Installing, Restoring, States
  <2>3. /\ \A b \in Attempts : b # cur => state'[b] = state[b]
        /\ state'[cur] \in {state[cur], "not-activated", "rollback-failed"}
    BY <2>1, <2>2, RecordTypes
  <2> QED
    BY <1>19, <2>2, <2>3
      DEF RecordNotActivated, disks, application, BackupInv, Armed, Restoring, Installing,
            TypeOK
<1>20. CASE Restore
  BY <1>20, IndexTypes
    DEF Restore, backups, application, counters, BackupInv, Armed, Restoring, Installing
<1>21. CASE SyncRestored
  BY <1>21, IndexTypes
    DEF SyncRestored, LiveIs, Flushed, backups, application, counters, BackupInv, Armed,
          Restoring, Installing
<1>22. CASE ResolveApplication
  BY <1>22, IndexTypes
    DEF ResolveApplication, disks, backups, counters, BackupInv, Armed, Restoring,
          Installing
<1>23. CASE RestoreFails
  <2>1. Record("rollback-failed") \/ RecordFails("rollback-failed")
    BY <1>23 DEF RestoreFails, RecordAttempted
  <2>2. cur \in Attempts /\ "rollback-failed" \in States
    BY <1>23 DEF RestoreFails, BusyInv, Installing, Restoring, States
  <2>3. /\ \A b \in Attempts : b # cur => state'[b] = state[b]
        /\ state'[cur] \in {state[cur], "rollback-failed", "rollback-failed"}
    BY <2>1, <2>2, RecordTypes
  <2> QED
    BY <1>23, <2>2, <2>3
      DEF RestoreFails, disks, application, BackupInv, Armed, Restoring, Installing, TypeOK
<1>24. CASE RecordRestored
  <2>1. RecordAttempted("rolled-back") \/ RecordAttempted("rollback-failed")
    BY <1>24 DEF RecordRestored
  <2>2. cur \in Attempts /\ {"rolled-back", "rollback-failed"} \subseteq States
    BY <1>24 DEF RecordRestored, BusyInv, States
  <2>3. /\ \A b \in Attempts : b # cur => state'[b] = state[b]
        /\ state'[cur] \in {state[cur], "rolled-back", "rollback-failed"}
    BY <2>1, <2>2, RecordTypes DEF RecordAttempted
  <2> QED
    BY <1>24, <2>3
      DEF RecordRestored, disks, application, BackupInv, Armed, Restoring, Installing, TypeOK
<1>25. CASE ChildActs
  BY <1>25, IndexTypes
    DEF ChildActs, disks, backups, process, counters, BackupInv, Armed, Restoring,
          Installing
<1>26. CASE Kill
  BY <1>26, IndexTypes
    DEF Kill, disks, backups, application, BackupInv, Armed, Restoring, Installing
<1>27. CASE PowerLoss
  BY <1>27, IndexTypes DEF PowerLoss, backups, BackupInv, Armed, Restoring, Installing
<1>28. CASE ApplicationRun
  BY <1>28, IndexTypes
    DEF ApplicationRun, disks, backups, process, counters, BackupInv, Armed, Restoring,
          Installing
<1> QED
  BY <1>1, <1>2, <1>3, <1>4, <1>5, <1>6, <1>7, <1>8, <1>9, <1>10, <1>11, <1>12, <1>13,
      <1>14, <1>15, <1>16, <1>17, <1>18, <1>19, <1>20, <1>21, <1>22, <1>23, <1>24, <1>25,
      <1>26, <1>27, <1>28 DEF Next, Step

(* From the conservative record to the final one, the backup is admitted.  *)
LEMMA ArmedStep ==
  ASSUME MaxFaults <= 1, TypeOK, BusyInv, ArmedInv, [Next]_vars
  PROVE  ArmedInv'
<1>1. CASE UNCHANGED vars
  BY <1>1
    DEF vars, disks, backups, process, application, counters, ArmedInv, RecoveryRequired,
          Unsettled, Armed, Restoring, Installing
<1>2. ASSUME NEW c \in Commits, OpenUpgrade(c) PROVE ArmedInv'
  BY <1>2
    DEF OpenUpgrade, LockFree, disks, counters, ArmedInv, RecoveryRequired, Unsettled, Armed,
          Restoring, Installing
<1>3. ASSUME NEW b \in Attempts, OpenRecovery(b) PROVE ArmedInv'
  BY <1>3 DEF OpenRecovery, LockFree, disks, backups, application, counters, ArmedInv,
          RecoveryRequired, Unsettled, Armed, Restoring, Installing
<1>4. CASE CreateBackup
  <2>1. Record("backup-verified") \/ RecordFails("backup-verified")
    BY <1>4 DEF CreateBackup, RecordAttempted
  <2>2. cur \in Attempts /\ "backup-verified" \in States
    BY <1>4 DEF CreateBackup, BusyInv, Installing, Restoring, States
  <2>3. /\ \A b \in Attempts : b # cur => state'[b] = state[b]
        /\ state'[cur] \in {state[cur], "backup-verified", "rollback-failed"}
    BY <2>1, <2>2, RecordTypes
  <2> QED
    BY <1>4, <2>2, <2>3
      DEF CreateBackup, disks, application, ArmedInv, RecoveryRequired, Unsettled, Armed,
            Restoring, Installing
<1>5. CASE BackupFails
  BY <1>5
    DEF BackupFails, disks, backups, application, counters, ArmedInv, RecoveryRequired,
          Unsettled, Armed, Restoring, Installing
<1>6. CASE Stage
  <2>1. cur \in Attempts
    BY <1>6 DEF Stage, BusyInv, Installing
  <2>2. pc' = "activating" => state'[cur] = "activation-in-progress"
    BY <1>6, <2>1 DEF Stage, Record, TypeOK
  <2>3. pc' \in {"activating", "recording"} /\ cur' = cur
    BY <1>6 DEF Stage
  <2> QED BY <2>2, <2>3 DEF ArmedInv, RecoveryRequired, Unsettled, Armed, Restoring
<1>7. CASE Promote
  BY <1>7
    DEF Promote, Staged, backups, application, counters, ArmedInv, RecoveryRequired,
          Unsettled, Armed, Restoring, Installing
<1>8. CASE SyncStaged
  BY <1>8
    DEF SyncStaged, LiveIs, Flushed, Staged, backups, application, counters, ArmedInv,
          RecoveryRequired, Unsettled, Armed, Restoring, Installing
<1>9. CASE Spawn
  BY <1>9
    DEF Spawn, disks, backups, counters, ArmedInv, RecoveryRequired, Unsettled, Armed,
          Restoring, Installing
<1>10. CASE SpawnInterrupted
  BY <1>10
    DEF SpawnInterrupted, disks, backups, counters, ArmedInv, RecoveryRequired, Unsettled,
          Armed, Restoring, Installing
<1>11. CASE ChildPassed
  BY <1>11
    DEF ChildPassed, disks, backups, application, counters, ArmedInv, RecoveryRequired,
          Unsettled, Armed, Restoring, Installing
<1>12. CASE ChildFailed
  BY <1>12
    DEF ChildFailed, disks, backups, application, counters, ArmedInv, RecoveryRequired,
          Unsettled, Armed, Restoring, Installing
<1>13. CASE StopChild
  BY <1>13
    DEF StopChild, disks, backups, application, counters, ArmedInv, RecoveryRequired,
          Unsettled, Armed, Restoring, Installing
<1>14. CASE ChildStopped
  BY <1>14
    DEF ChildStopped, disks, backups, counters, ArmedInv, RecoveryRequired, Unsettled, Armed,
          Restoring, Installing
<1>15. CASE StopInterrupted
  BY <1>15
    DEF StopInterrupted, Abandon, disks, backups, application, counters, ArmedInv,
          RecoveryRequired, Unsettled, Armed, Restoring, Installing
<1>16. CASE CheckRecovery
  BY <1>16
    DEF CheckRecovery, Abandon, disks, backups, counters, ArmedInv, RecoveryRequired,
          Unsettled, Armed, Restoring, Installing
<1>17. CASE Confirm
  <2>1. cur \in Attempts /\ cur' = cur
    BY <1>17 DEF Confirm, BusyInv, Installing
  <2>2. pc' = "restoring" => RecordFails("completed")
    BY <1>17 DEF Confirm
  <2>3. RecordFails("completed") => state'[cur] = "rollback-failed"
    BY <2>1, BoundAssumption DEF RecordFails, TypeOK
  <2>4. pc' \in {"idle", "restoring"}
    BY <1>17 DEF Confirm
  <2> QED BY <2>1, <2>2, <2>3, <2>4 DEF ArmedInv, RecoveryRequired, Unsettled, Armed, Restoring
<1>18. CASE Fail
  <2>1. /\ pc' \in {"restoring", "recording"} /\ cur' = cur /\ state' = state
        /\ pc # "staging" => pc \in Armed
    BY <1>18 DEF Fail, Abandon, backups, Armed
  <2>2. pc = "staging" => pc' = "recording"
    BY <1>18 DEF Fail, Abandon, BusyInv, Untouched
  <2> QED BY <2>1, <2>2 DEF ArmedInv, RecoveryRequired, Armed, Restoring
<1>19. CASE RecordNotActivated
  <2>1. Record("not-activated") \/ RecordFails("not-activated")
    BY <1>19 DEF RecordNotActivated, RecordAttempted
  <2>2. cur \in Attempts /\ "not-activated" \in States
    BY <1>19 DEF RecordNotActivated, BusyInv, Installing, Restoring, States
  <2>3. /\ \A b \in Attempts : b # cur => state'[b] = state[b]
        /\ state'[cur] \in {state[cur], "not-activated", "rollback-failed"}
    BY <2>1, <2>2, RecordTypes
  <2> QED
    BY <1>19, <2>2, <2>3
      DEF RecordNotActivated, disks, application, ArmedInv, RecoveryRequired, Unsettled, Armed,
            Restoring, Installing
<1>20. CASE Restore
  BY <1>20
    DEF Restore, backups, application, counters, ArmedInv, RecoveryRequired, Unsettled,
          Armed, Restoring, Installing
<1>21. CASE SyncRestored
  BY <1>21
    DEF SyncRestored, LiveIs, Flushed, backups, application, counters, ArmedInv,
          RecoveryRequired, Unsettled, Armed, Restoring, Installing
<1>22. CASE ResolveApplication
  BY <1>22
    DEF ResolveApplication, disks, backups, counters, ArmedInv, RecoveryRequired, Unsettled,
          Armed, Restoring, Installing
<1>23. CASE RestoreFails
  <2>1. Record("rollback-failed") \/ RecordFails("rollback-failed")
    BY <1>23 DEF RestoreFails, RecordAttempted
  <2>2. cur \in Attempts /\ "rollback-failed" \in States
    BY <1>23 DEF RestoreFails, BusyInv, Installing, Restoring, States
  <2>3. /\ \A b \in Attempts : b # cur => state'[b] = state[b]
        /\ state'[cur] \in {state[cur], "rollback-failed", "rollback-failed"}
    BY <2>1, <2>2, RecordTypes
  <2> QED
    BY <1>23, <2>2, <2>3
      DEF RestoreFails, disks, application, ArmedInv, RecoveryRequired, Unsettled, Armed,
            Restoring, Installing
<1>24. CASE RecordRestored
  <2>1. RecordAttempted("rolled-back") \/ RecordAttempted("rollback-failed")
    BY <1>24 DEF RecordRestored
  <2>2. cur \in Attempts /\ {"rolled-back", "rollback-failed"} \subseteq States
    BY <1>24 DEF RecordRestored, BusyInv, States
  <2>3. /\ \A b \in Attempts : b # cur => state'[b] = state[b]
        /\ state'[cur] \in {state[cur], "rolled-back", "rollback-failed"}
    BY <2>1, <2>2, RecordTypes DEF RecordAttempted
  <2> QED
    BY <1>24, <2>3
      DEF RecordRestored, disks, application, ArmedInv, RecoveryRequired, Unsettled, Armed,
            Restoring, Installing
<1>25. CASE ChildActs
  BY <1>25
    DEF ChildActs, disks, backups, process, counters, ArmedInv, RecoveryRequired, Unsettled,
          Armed, Restoring, Installing
<1>26. CASE Kill
  BY <1>26
    DEF Kill, disks, backups, application, ArmedInv, RecoveryRequired, Unsettled, Armed,
          Restoring, Installing
<1>27. CASE PowerLoss
  BY <1>27
    DEF PowerLoss, backups, ArmedInv, RecoveryRequired, Unsettled, Armed, Restoring,
          Installing
<1>28. CASE ApplicationRun
  BY <1>28
    DEF ApplicationRun, disks, backups, process, counters, ArmedInv, RecoveryRequired,
          Unsettled, Armed, Restoring, Installing
<1> QED
  BY <1>1, <1>2, <1>3, <1>4, <1>5, <1>6, <1>7, <1>8, <1>9, <1>10, <1>11, <1>12, <1>13,
      <1>14, <1>15, <1>16, <1>17, <1>18, <1>19, <1>20, <1>21, <1>22, <1>23, <1>24, <1>25,
      <1>26, <1>27, <1>28 DEF Next, Step

-----------------------------------------------------------------------------
(* What flushing a uniform receiver gives.                                 *)

LEMMA FlushedWhole ==
  ASSUME TypeOK, live \in WholeReceivers, disk' = Flushed
  PROVE  Whole'
<1>1. PICK c \in Contents : live = Staged(c)
  BY DEF WholeReceivers
<1>2. \A t \in Targets : disk'[t] = {c}
  BY <1>1 DEF Flushed, Staged
<1> QED BY <1>2 DEF Whole, Holds

LEMMA OthersAdmit ==
  ASSUME Elsewhere, cur' = cur, disk' = disk,
         \A b \in Attempts : b # cur => state'[b] = state[b]
  PROVE  Elsewhere' /\ MixedAsksForRecovery'
BY DEF Elsewhere, MixedAsksForRecovery, Whole, Holds, RecoveryRequired

(* A step that leaves the files and the records of others alone.           *)
LEMMA OthersStay ==
  ASSUME TypeOK, BusyInv, pc # "idle", UntouchedInv, cur' = cur, disk' = disk,
         \A b \in Attempts : b # cur => state'[b] = state[b],
         \/ pc \in Installing \cup {"recording"} /\ ~mutated
         \/ ~(pc' \in Installing \cup {"recording"} /\ ~mutated')
  PROVE  UntouchedInv'
<1>1. CASE pc \in Installing \cup {"recording"} /\ ~mutated
  BY <1>1, OthersAdmit DEF UntouchedInv
<1>2. CASE ~(pc' \in Installing \cup {"recording"} /\ ~mutated')
  BY <1>2 DEF UntouchedInv
<1> QED BY <1>1, <1>2

(* Before the first promotion, other backups admit whatever is mixed.      *)
LEMMA UntouchedStep ==
  ASSUME TypeOK, BusyInv, BackupInv, UntouchedInv, MixedAsksForRecovery, [Next]_vars
  PROVE  UntouchedInv'
<1>1. CASE UNCHANGED vars
  BY <1>1
    DEF vars, disks, backups, process, application, counters, UntouchedInv, Elsewhere, Whole,
          Holds, RecoveryRequired
<1>2. ASSUME NEW c \in Commits, OpenUpgrade(c) PROVE UntouchedInv'
  <2>1. made + 1 \in Attempts /\ made + 1 > made
    BY <1>2, BoundAssumption DEF OpenUpgrade, TypeOK, Attempts
  <2>2. cur' = made + 1 /\ disk' = disk /\ state' = state
    BY <1>2 DEF OpenUpgrade, disks
  <2>3. state[made + 1] = "none"
    BY <2>1 DEF BackupInv
  <2> QED BY <2>2, <2>3 DEF MixedAsksForRecovery, UntouchedInv, Elsewhere,
                          Whole, Holds, RecoveryRequired, Unsettled
<1>3. ASSUME NEW b \in Attempts, OpenRecovery(b) PROVE UntouchedInv'
  BY <1>3 DEF OpenRecovery, UntouchedInv, Installing
<1>4. CASE CreateBackup
  <2>1. Record("backup-verified") \/ RecordFails("backup-verified")
    BY <1>4 DEF CreateBackup
  <2>2. cur \in Attempts /\ "backup-verified" \in States
    BY <1>4 DEF CreateBackup, BusyInv, Installing, States
  <2>3. \A b \in Attempts : b # cur => state'[b] = state[b]
    BY <2>1, <2>2, RecordTypes
  <2>4. /\ pc \in Installing /\ ~mutated /\ pc # "idle"
        /\ cur' = cur /\ disk' = disk
    BY <1>4 DEF CreateBackup, Installing, BusyInv, Untouched, disks
  <2> QED BY <2>3, <2>4, OthersStay
<1>5. CASE BackupFails
  <2>1. /\ pc \in Installing /\ pc # "idle" /\ cur' = cur /\ disk' = disk /\ state' = state
        /\ ~mutated \/ ~(pc' \in Installing \cup {"recording"} /\ ~mutated')
    BY <1>5
      DEF BackupFails, disks, backups, application, counters, Installing, BusyInv, Untouched
  <2> QED BY <2>1, OthersStay
<1>6. CASE Stage
  <2>1. Record("activation-in-progress") \/ RecordFails("activation-in-progress")
    BY <1>6 DEF Stage
  <2>2. cur \in Attempts /\ "activation-in-progress" \in States
    BY <1>6 DEF Stage, BusyInv, Installing, States
  <2>3. \A b \in Attempts : b # cur => state'[b] = state[b]
    BY <2>1, <2>2, RecordTypes
  <2>4. /\ pc \in Installing /\ ~mutated /\ pc # "idle"
        /\ cur' = cur /\ disk' = disk
    BY <1>6 DEF Stage, Installing, BusyInv, Untouched, disks
  <2> QED BY <2>3, <2>4, OthersStay
<1>7. CASE Promote
  BY <1>7 DEF Promote, UntouchedInv
<1>8. CASE SyncStaged
  <2>1. live \in WholeReceivers /\ disk' = Flushed
    BY <1>8, StagedType DEF SyncStaged, LiveIs, TypeOK, BusyInv, Installing
  <2> QED BY <2>1, FlushedWhole DEF UntouchedInv, Elsewhere
<1>9. CASE Spawn
  <2>1. /\ pc \in Installing /\ pc # "idle" /\ cur' = cur /\ disk' = disk /\ state' = state
        /\ ~mutated \/ ~(pc' \in Installing \cup {"recording"} /\ ~mutated')
    BY <1>9 DEF Spawn, disks, backups, counters, Installing, BusyInv, Untouched
  <2> QED BY <2>1, OthersStay
<1>10. CASE SpawnInterrupted
  <2>1. /\ pc \in Installing /\ pc # "idle" /\ cur' = cur /\ disk' = disk /\ state' = state
        /\ ~mutated \/ ~(pc' \in Installing \cup {"recording"} /\ ~mutated')
    BY <1>10
      DEF SpawnInterrupted, disks, backups, counters, Installing, BusyInv, Untouched
  <2> QED BY <2>1, OthersStay
<1>11. CASE ChildPassed
  <2>1. /\ pc \in Installing /\ pc # "idle" /\ cur' = cur /\ disk' = disk /\ state' = state
        /\ ~mutated \/ ~(pc' \in Installing \cup {"recording"} /\ ~mutated')
    BY <1>11
      DEF ChildPassed, disks, backups, application, counters, Installing, BusyInv, Untouched
  <2> QED BY <2>1, OthersStay
<1>12. CASE ChildFailed
  <2>1. /\ pc \in Installing /\ pc # "idle" /\ cur' = cur /\ disk' = disk /\ state' = state
        /\ ~mutated \/ ~(pc' \in Installing \cup {"recording"} /\ ~mutated')
    BY <1>12
      DEF ChildFailed, disks, backups, application, counters, Installing, BusyInv, Untouched
  <2> QED BY <2>1, OthersStay
<1>13. CASE StopChild
  <2>1. /\ pc \in Installing /\ pc # "idle" /\ cur' = cur /\ disk' = disk /\ state' = state
        /\ ~mutated \/ ~(pc' \in Installing \cup {"recording"} /\ ~mutated')
    BY <1>13
      DEF StopChild, disks, backups, application, counters, Installing, BusyInv, Untouched
  <2> QED BY <2>1, OthersStay
<1>14. CASE ChildStopped
  <2>1. /\ pc \in Installing /\ pc # "idle" /\ cur' = cur /\ disk' = disk /\ state' = state
        /\ ~mutated \/ ~(pc' \in Installing \cup {"recording"} /\ ~mutated')
    BY <1>14 DEF ChildStopped, disks, backups, counters, Installing, BusyInv, Untouched
  <2> QED BY <2>1, OthersStay
<1>15. CASE StopInterrupted
  <2>1. /\ pc \in Installing /\ pc # "idle" /\ cur' = cur /\ disk' = disk /\ state' = state
        /\ ~mutated \/ ~(pc' \in Installing \cup {"recording"} /\ ~mutated')
    BY <1>15
      DEF StopInterrupted, Abandon, disks, backups, application, counters, Installing, BusyInv,
            Untouched
  <2> QED BY <2>1, OthersStay
<1>16. CASE CheckRecovery
  <2>1. /\ pc \in Installing /\ pc # "idle" /\ cur' = cur /\ disk' = disk /\ state' = state
        /\ ~mutated \/ ~(pc' \in Installing \cup {"recording"} /\ ~mutated')
    BY <1>16
      DEF CheckRecovery, Abandon, disks, backups, counters, Installing, BusyInv, Untouched
  <2> QED BY <2>1, OthersStay
<1>17. CASE Confirm
  BY <1>17 DEF Confirm, UntouchedInv, Installing
<1>18. CASE Fail
  <2>1. /\ pc \in Installing /\ pc # "idle" /\ cur' = cur /\ disk' = disk /\ state' = state
        /\ ~mutated \/ ~(pc' \in Installing \cup {"recording"} /\ ~mutated')
    BY <1>18
      DEF Fail, Abandon, disks, backups, application, counters, Installing, BusyInv, Untouched
  <2> QED BY <2>1, OthersStay
<1>19. CASE RecordNotActivated
  BY <1>19 DEF RecordNotActivated, UntouchedInv, Installing
<1>20. CASE Restore
  BY <1>20 DEF Restore, UntouchedInv, Installing
<1>21. CASE SyncRestored
  BY <1>21 DEF SyncRestored, UntouchedInv, Installing
<1>22. CASE ResolveApplication
  BY <1>22 DEF ResolveApplication, UntouchedInv, Installing
<1>23. CASE RestoreFails
  BY <1>23 DEF RestoreFails, Restoring, UntouchedInv, Installing
<1>24. CASE RecordRestored
  BY <1>24 DEF RecordRestored, UntouchedInv, Installing
<1>25. CASE ChildActs
  BY <1>25 DEF ChildActs, disks, backups, process, UntouchedInv, Elsewhere, Whole, Holds, RecoveryRequired
<1>26. CASE Kill
  BY <1>26 DEF Kill, UntouchedInv, Installing
<1>27. CASE PowerLoss
  BY <1>27 DEF PowerLoss, UntouchedInv, Installing
<1>28. CASE ApplicationRun
  BY <1>28 DEF ApplicationRun, disks, backups, process, UntouchedInv, Elsewhere, Whole, Holds, RecoveryRequired
<1> QED
  BY <1>1, <1>2, <1>3, <1>4, <1>5, <1>6, <1>7, <1>8, <1>9, <1>10, <1>11, <1>12, <1>13,
      <1>14, <1>15, <1>16, <1>17, <1>18, <1>19, <1>20, <1>21, <1>22, <1>23, <1>24, <1>25,
      <1>26, <1>27, <1>28 DEF Next, Step

LEMMA NothingChanged ==
  ASSUME MixedAsksForRecovery, disk' = disk, state' = state
  PROVE  MixedAsksForRecovery'
BY DEF MixedAsksForRecovery, Whole, Holds, RecoveryRequired

LEMMA BackupAdmits ==
  ASSUME cur \in Attempts, state'[cur] \in Unsettled
  PROVE  MixedAsksForRecovery'
BY DEF MixedAsksForRecovery, RecoveryRequired

(* Untouched files: the record written now is about another backup.        *)
LEMMA OthersAdmitRecord ==
  ASSUME TypeOK, BusyInv, UntouchedInv, pc \in Untouched, cur' = cur, disk' = disk,
         NEW s \in States, Record(s) \/ RecordFails(s)
  PROVE  MixedAsksForRecovery'
<1>1. ~mutated /\ cur \in Attempts /\ Elsewhere
  BY DEF BusyInv, Untouched, UntouchedInv, Installing
<1> QED BY <1>1, RecordTypes, OthersAdmit

(* No step leaves a mixture that nothing admits.                           *)
LEMMA MixedStep ==
  ASSUME MaxFaults <= 1, TypeOK, BusyInv, BackupInv, ArmedInv, UntouchedInv, FinalInv,
         MixedAsksForRecovery, [Next]_vars
  PROVE  MixedAsksForRecovery'
<1>1. CASE UNCHANGED vars
  BY <1>1
    DEF vars, disks, backups, process, application, counters, MixedAsksForRecovery, Whole,
          Holds, RecoveryRequired
<1>2. ASSUME NEW c \in Commits, OpenUpgrade(c) PROVE MixedAsksForRecovery'
  <2>1. disk' = disk /\ state' = state
    BY <1>2 DEF OpenUpgrade, disks
  <2> QED BY <2>1, NothingChanged
<1>3. ASSUME NEW b \in Attempts, OpenRecovery(b) PROVE MixedAsksForRecovery'
  <2>1. disk' = disk /\ state' = state
    BY <1>3 DEF OpenRecovery, disks, backups
  <2> QED BY <2>1, NothingChanged
<1>4. CASE CreateBackup
  <2>1. Record("backup-verified") \/ RecordFails("backup-verified")
    BY <1>4 DEF CreateBackup, RecordAttempted
  <2>2. pc \in Untouched /\ cur' = cur /\ disk' = disk /\ "backup-verified" \in States
    BY <1>4 DEF CreateBackup, Untouched, States, disks
  <2> QED BY <2>1, <2>2, OthersAdmitRecord
<1>5. CASE BackupFails
  <2>1. disk' = disk /\ state' = state
    BY <1>5 DEF BackupFails, disks, backups, application, counters
  <2> QED BY <2>1, NothingChanged
<1>6. CASE Stage
  <2>1. Record("activation-in-progress") \/ RecordFails("activation-in-progress")
    BY <1>6 DEF Stage, RecordAttempted
  <2>2. pc \in Untouched /\ cur' = cur /\ disk' = disk /\ "activation-in-progress" \in States
    BY <1>6 DEF Stage, Untouched, States, disks
  <2> QED BY <2>1, <2>2, OthersAdmitRecord
<1>7. CASE Promote
  <2>1. cur \in Attempts /\ RecoveryRequired(cur) /\ state' = state
    BY <1>7 DEF Promote, BusyInv, ArmedInv, Armed, Restoring, backups
  <2> QED BY <2>1, BackupAdmits DEF RecoveryRequired
<1>8. CASE SyncStaged
  <2>1. live \in WholeReceivers /\ disk' = Flushed
    BY <1>8, StagedType DEF SyncStaged, LiveIs, TypeOK, BusyInv, Installing
  <2> QED BY <2>1, FlushedWhole DEF MixedAsksForRecovery
<1>9. CASE Spawn
  <2>1. disk' = disk /\ state' = state
    BY <1>9 DEF Spawn, disks, backups, counters
  <2> QED BY <2>1, NothingChanged
<1>10. CASE SpawnInterrupted
  <2>1. disk' = disk /\ state' = state
    BY <1>10 DEF SpawnInterrupted, disks, backups, counters
  <2> QED BY <2>1, NothingChanged
<1>11. CASE ChildPassed
  <2>1. disk' = disk /\ state' = state
    BY <1>11 DEF ChildPassed, disks, backups, application, counters
  <2> QED BY <2>1, NothingChanged
<1>12. CASE ChildFailed
  <2>1. disk' = disk /\ state' = state
    BY <1>12 DEF ChildFailed, disks, backups, application, counters
  <2> QED BY <2>1, NothingChanged
<1>13. CASE StopChild
  <2>1. disk' = disk /\ state' = state
    BY <1>13 DEF StopChild, disks, backups, application, counters
  <2> QED BY <2>1, NothingChanged
<1>14. CASE ChildStopped
  <2>1. disk' = disk /\ state' = state
    BY <1>14 DEF ChildStopped, disks, backups, counters
  <2> QED BY <2>1, NothingChanged
<1>15. CASE StopInterrupted
  <2>1. disk' = disk /\ state' = state
    BY <1>15 DEF StopInterrupted, Abandon, disks, backups, application, counters
  <2> QED BY <2>1, NothingChanged
<1>16. CASE CheckRecovery
  <2>1. disk' = disk /\ state' = state
    BY <1>16 DEF CheckRecovery, Abandon, disks, backups, counters
  <2> QED BY <2>1, NothingChanged
<1>17. CASE Confirm
  <2>1. live \in WholeReceivers /\ disk' = Flushed
    BY <1>17, StagedType DEF Confirm, LiveIs, TypeOK, BusyInv
  <2> QED BY <2>1, FlushedWhole DEF MixedAsksForRecovery
<1>18. CASE Fail
  <2>1. disk' = disk /\ state' = state
    BY <1>18 DEF Fail, Abandon, disks, backups, application, counters
  <2> QED BY <2>1, NothingChanged
<1>19. CASE RecordNotActivated
  <2>1. Record("not-activated") \/ RecordFails("not-activated")
    BY <1>19 DEF RecordNotActivated, RecordAttempted
  <2>2. pc \in Untouched /\ cur' = cur /\ disk' = disk /\ "not-activated" \in States
    BY <1>19 DEF RecordNotActivated, Untouched, States, disks
  <2> QED BY <2>1, <2>2, OthersAdmitRecord
<1>20. CASE Restore
  <2>1. cur \in Attempts /\ RecoveryRequired(cur) /\ state' = state
    BY <1>20 DEF Restore, BusyInv, ArmedInv, Armed, Restoring, backups
  <2> QED BY <2>1, BackupAdmits DEF RecoveryRequired
<1>21. CASE SyncRestored
  <2>1. live \in WholeReceivers /\ disk' = Flushed
    BY <1>21 DEF SyncRestored, LiveIs, BackupInv, Armed, Restoring, BusyInv
  <2> QED BY <2>1, FlushedWhole DEF MixedAsksForRecovery
<1>22. CASE ResolveApplication
  <2>1. disk' = disk /\ state' = state
    BY <1>22 DEF ResolveApplication, disks, backups, counters
  <2> QED BY <2>1, NothingChanged
<1>23. CASE RestoreFails
  <2>1. Record("rollback-failed") \/ RecordFails("rollback-failed")
    BY <1>23 DEF RestoreFails, RecordAttempted
  <2>2. cur \in Attempts /\ state[cur] \in Unsettled /\ "rollback-failed" \in States
    BY <1>23 DEF RestoreFails, BusyInv, ArmedInv, Armed, Restoring, RecoveryRequired, States
  <2>3. state'[cur] \in {state[cur], "rollback-failed"}
    BY <2>1, <2>2, RecordTypes
  <2> QED BY <2>2, <2>3, BackupAdmits DEF Unsettled
<1>24. CASE RecordRestored
  <2>1. /\ cur \in Attempts /\ state[cur] \in Unsettled /\ disk' = disk
        /\ Holds(payload[cur]) /\ payload[cur] \in WholeReceivers
    BY <1>24 DEF RecordRestored, BusyInv, ArmedInv, Armed, Restoring, RecoveryRequired,
             FinalInv, BackupInv, disks
  <2>2. Whole'
    BY <2>1, WholeHeld DEF Whole, Holds
  <2> QED BY <2>2 DEF MixedAsksForRecovery
<1>25. CASE ChildActs
  <2>1. disk' = disk /\ state' = state
    BY <1>25 DEF ChildActs, disks, backups, process, counters
  <2> QED BY <2>1, NothingChanged
<1>26. CASE Kill
  <2>1. disk' = disk /\ state' = state
    BY <1>26 DEF Kill, disks, backups, application
  <2> QED BY <2>1, NothingChanged
<1>27. CASE PowerLoss
  <2>1. state' = state
    BY <1>27 DEF PowerLoss, backups
  <2>2. ASSUME Whole PROVE Whole'
    <3>1. PICK c \in Contents : \A t \in Targets : disk[t] = {c}
      BY <2>2 DEF Whole, Holds
    <3>2. \A t \in Targets : disk'[t] = {c}
      BY <1>27, <3>1 DEF PowerLoss
    <3> QED BY <3>2 DEF Whole, Holds
  <2> QED BY <2>1, <2>2 DEF MixedAsksForRecovery, RecoveryRequired
<1>28. CASE ApplicationRun
  <2>1. disk' = disk /\ state' = state
    BY <1>28 DEF ApplicationRun, disks, backups, process, counters
  <2> QED BY <2>1, NothingChanged
<1> QED
  BY <1>1, <1>2, <1>3, <1>4, <1>5, <1>6, <1>7, <1>8, <1>9, <1>10, <1>11, <1>12, <1>13,
      <1>14, <1>15, <1>16, <1>17, <1>18, <1>19, <1>20, <1>21, <1>22, <1>23, <1>24, <1>25,
      <1>26, <1>27, <1>28 DEF Next, Step

(* What a final record relies on.                                          *)
LEMMA FinalStep ==
  ASSUME TypeOK, BusyInv, FinalInv, [Next]_vars
  PROVE  FinalInv'
<1>1. CASE UNCHANGED vars
  BY <1>1
    DEF vars, disks, backups, process, application, counters, FinalInv, BusyInv, Holds,
          Installing, Restoring
<1>2. ASSUME NEW c \in Commits, OpenUpgrade(c) PROVE FinalInv'
  BY <1>2
    DEF OpenUpgrade, LockFree, disks, counters, FinalInv, BusyInv, Holds, Installing,
          Restoring
<1>3. ASSUME NEW b \in Attempts, OpenRecovery(b) PROVE FinalInv'
  BY <1>3
    DEF OpenRecovery, LockFree, disks, backups, application, counters, FinalInv, BusyInv,
          Holds, Installing, Restoring
<1>4. CASE CreateBackup
  BY <1>4 DEF CreateBackup, FinalInv, BusyInv, Restoring, application
<1>5. CASE BackupFails
  BY <1>5
    DEF BackupFails, disks, backups, application, counters, FinalInv, BusyInv, Holds,
          Installing, Restoring
<1>6. CASE Stage
  BY <1>6 DEF Stage, FinalInv, BusyInv, Restoring, application
<1>7. CASE Promote
  BY <1>7
    DEF Promote, Staged, backups, application, counters, FinalInv, BusyInv, Holds,
          Installing, Restoring
<1>8. CASE SyncStaged
  BY <1>8
    DEF SyncStaged, LiveIs, Flushed, Staged, backups, application, counters, FinalInv,
          BusyInv, Holds, Installing, Restoring
<1>9. CASE Spawn
  BY <1>9
    DEF Spawn, disks, backups, counters, FinalInv, BusyInv, Holds, Installing, Restoring
<1>10. CASE SpawnInterrupted
  BY <1>10
    DEF SpawnInterrupted, disks, backups, counters, FinalInv, BusyInv, Holds, Installing,
          Restoring
<1>11. CASE ChildPassed
  BY <1>11
    DEF ChildPassed, disks, backups, application, counters, FinalInv, BusyInv, Holds,
          Installing, Restoring
<1>12. CASE ChildFailed
  BY <1>12
    DEF ChildFailed, disks, backups, application, counters, FinalInv, BusyInv, Holds,
          Installing, Restoring
<1>13. CASE StopChild
  BY <1>13
    DEF StopChild, disks, backups, application, counters, FinalInv, BusyInv, Holds,
          Installing, Restoring
<1>14. CASE ChildStopped
  BY <1>14
    DEF ChildStopped, disks, backups, counters, FinalInv, BusyInv, Holds, Installing,
          Restoring
<1>15. CASE StopInterrupted
  BY <1>15
    DEF StopInterrupted, Abandon, disks, backups, application, counters, FinalInv, BusyInv,
          Holds, Installing, Restoring
<1>16. CASE CheckRecovery
  BY <1>16
    DEF CheckRecovery, Abandon, disks, backups, counters, FinalInv, BusyInv, Holds,
          Installing, Restoring
<1>17. CASE Confirm
  BY <1>17 DEF Confirm, FinalInv, BusyInv, Restoring, application
<1>18. CASE Fail
  BY <1>18
    DEF Fail, Abandon, disks, backups, application, counters, FinalInv, BusyInv, Holds,
          Installing, Restoring
<1>19. CASE RecordNotActivated
  BY <1>19 DEF RecordNotActivated, FinalInv, BusyInv, Restoring, application
<1>20. CASE Restore
  BY <1>20
    DEF Restore, backups, application, counters, FinalInv, BusyInv, Holds, Installing,
          Restoring
<1>21. CASE SyncRestored
  <2>1. cur \in Attempts /\ live = payload[cur] /\ disk' = Flushed /\ payload' = payload /\ cur' = cur
    BY <1>21 DEF SyncRestored, LiveIs, BusyInv, Restoring, backups
  <2>2. Holds(payload[cur])'
    BY <2>1 DEF Holds, Flushed
  <2> QED BY <1>21, <2>2 DEF SyncRestored, FinalInv, application
<1>22. CASE ResolveApplication
  BY <1>22
    DEF ResolveApplication, disks, backups, counters, FinalInv, BusyInv, Holds, Installing,
          Restoring
<1>23. CASE RestoreFails
  BY <1>23 DEF RestoreFails, FinalInv, BusyInv, Restoring, application
<1>24. CASE RecordRestored
  BY <1>24 DEF RecordRestored, FinalInv, BusyInv, Restoring, application
<1>25. CASE ChildActs
  BY <1>25
    DEF ChildActs, disks, backups, process, counters, FinalInv, BusyInv, Holds, Installing,
          Restoring
<1>26. CASE Kill
  BY <1>26
    DEF Kill, disks, backups, application, FinalInv, BusyInv, Holds, Installing, Restoring
<1>27. CASE PowerLoss
  BY <1>27 DEF PowerLoss, backups, FinalInv, BusyInv, Holds, Installing, Restoring
<1>28. CASE ApplicationRun
  BY <1>28 DEF ApplicationRun, LockFree, process, FinalInv
<1> QED
  BY <1>1, <1>2, <1>3, <1>4, <1>5, <1>6, <1>7, <1>8, <1>9, <1>10, <1>11, <1>12, <1>13,
      <1>14, <1>15, <1>16, <1>17, <1>18, <1>19, <1>20, <1>21, <1>22, <1>23, <1>24, <1>25,
      <1>26, <1>27, <1>28 DEF Next, Step

-----------------------------------------------------------------------------

LEMMA InitInv == Init => IInv
<1> SUFFICES ASSUME Init PROVE IInv
  OBVIOUS
<1>1. TypeOK
  <2>1. 0 \in Contents /\ "none" \in States /\ 0 \in 0..MaxAttempts
        /\ 0 \in 0..MaxStops /\ 0 \in 0..MaxFaults /\ 1 \in 1..(TargetCount + 1)
    BY IndexTypes, BoundAssumption DEF Contents, States
  <2> QED BY <2>1 DEF Init, TypeOK
<1>2. Whole
  BY DEF Init, Whole, Holds, Contents
<1>3. BusyInv /\ BackupInv /\ ArmedInv /\ UntouchedInv /\ FinalInv
  BY DEF Init, BusyInv, BackupInv, ArmedInv, UntouchedInv, FinalInv, Untouched,
         Installing, Restoring, Armed
<1> QED BY <1>1, <1>2, <1>3 DEF IInv, MixedAsksForRecovery

LEMMA NextInv ==
  ASSUME Pinned = Targets, MaxFaults <= 1, IInv, [Next]_vars
  PROVE  IInv'
BY TypeStep, BusyStep, BackupStep, ArmedStep, UntouchedStep, MixedStep, FinalStep
   DEF IInv

(* A receiver that may be mixed, now or after a power loss, is always      *)
(* admitted by a backup's record (MixedAsksForRecovery), when the baseline *)
(* pins every path and at most one record write fails.                     *)
THEOREM RecoveryIsAdmitted ==
  ASSUME Pinned = Targets, MaxFaults <= 1
  PROVE  Spec => []MixedAsksForRecovery
<1>1. IInv => MixedAsksForRecovery
  BY DEF IInv
<1> QED BY <1>1, InitInv, NextInv, PTL DEF Spec

(* Which step writes a final record.                                       *)
LEMMA FinalWriters ==
  ASSUME IInv, Next, NEW b \in Attempts, NEW s \in {"completed", "rolled-back"},
         Recorded(b, s)
  PROVE  /\ b = cur
         /\ s = "completed" => Confirm
         /\ s = "rolled-back" => RecordRestored
<1> DEFINE Writer == b = cur /\ (s = "completed" => Confirm)
                            /\ (s = "rolled-back" => RecordRestored)
<1>1. state' # state
  BY DEF Recorded
<1>2. ASSUME NEW r \in States, RecordAttempted(r), cur \in Attempts
      PROVE  b = cur /\ s = r
  <2>1. TypeOK
    BY DEF IInv
  <2>2. /\ \A a \in Attempts : a # cur => state'[a] = state[a]
        /\ state'[cur] \in {state[cur], r, "rollback-failed"}
    BY <1>2, <2>1, RecordTypes DEF RecordAttempted
  <2> QED BY <2>2 DEF Recorded
<1>3. CASE CreateBackup
  <2>1. RecordAttempted("backup-verified") /\ "backup-verified" \in States /\ cur \in Attempts
    BY <1>3 DEF CreateBackup, RecordAttempted, States, IInv, BusyInv, Installing, Restoring
  <2> QED BY <1>3, <2>1, <1>2
<1>4. CASE Stage
  <2>1. RecordAttempted("activation-in-progress") /\ "activation-in-progress" \in States /\ cur \in Attempts
    BY <1>4 DEF Stage, RecordAttempted, States, IInv, BusyInv, Installing, Restoring
  <2> QED BY <1>4, <2>1, <1>2
<1>5. CASE Confirm
  <2>1. RecordAttempted("completed") /\ "completed" \in States /\ cur \in Attempts
    BY <1>5 DEF Confirm, RecordAttempted, States, IInv, BusyInv, Installing, Restoring
  <2> QED BY <1>5, <2>1, <1>2
<1>6. CASE RecordNotActivated
  <2>1. RecordAttempted("not-activated") /\ "not-activated" \in States /\ cur \in Attempts
    BY <1>6 DEF RecordNotActivated, RecordAttempted, States, IInv, BusyInv, Installing, Restoring
  <2> QED BY <1>6, <2>1, <1>2
<1>7. CASE RestoreFails
  <2>1. RecordAttempted("rollback-failed") /\ "rollback-failed" \in States /\ cur \in Attempts
    BY <1>7 DEF RestoreFails, RecordAttempted, States, IInv, BusyInv, Installing, Restoring
  <2> QED BY <1>7, <2>1, <1>2
<1>8. CASE RecordRestored
  <2>1. PICK r \in {"rolled-back", "rollback-failed"} : RecordAttempted(r)
    BY <1>8 DEF RecordRestored
  <2>2. r \in States /\ cur \in Attempts
    BY <1>8 DEF RecordRestored, States, IInv, BusyInv, Restoring
  <2> QED BY <1>8, <2>1, <2>2, <1>2
<1>9. ASSUME NEW c \in Commits, OpenUpgrade(c) PROVE Writer
  BY <1>9, <1>1 DEF OpenUpgrade
<1>10. ASSUME NEW a \in Attempts, OpenRecovery(a) PROVE Writer
  BY <1>10, <1>1 DEF OpenRecovery, backups
<1>11. CASE BackupFails
  BY <1>11, <1>1 DEF BackupFails, backups
<1>12. CASE Promote
  BY <1>12, <1>1 DEF Promote, backups
<1>13. CASE SyncStaged
  BY <1>13, <1>1 DEF SyncStaged, backups
<1>14. CASE Spawn
  BY <1>14, <1>1 DEF Spawn, backups
<1>15. CASE SpawnInterrupted
  BY <1>15, <1>1 DEF SpawnInterrupted, backups
<1>16. CASE ChildPassed
  BY <1>16, <1>1 DEF ChildPassed, backups
<1>17. CASE ChildFailed
  BY <1>17, <1>1 DEF ChildFailed, backups
<1>18. CASE StopChild
  BY <1>18, <1>1 DEF StopChild, backups
<1>19. CASE ChildStopped
  BY <1>19, <1>1 DEF ChildStopped, backups
<1>20. CASE StopInterrupted
  BY <1>20, <1>1 DEF StopInterrupted, backups
<1>21. CASE CheckRecovery
  BY <1>21, <1>1 DEF CheckRecovery, backups
<1>22. CASE Fail
  BY <1>22, <1>1 DEF Fail, backups
<1>23. CASE Restore
  BY <1>23, <1>1 DEF Restore, backups
<1>24. CASE SyncRestored
  BY <1>24, <1>1 DEF SyncRestored, backups
<1>25. CASE ResolveApplication
  BY <1>25, <1>1 DEF ResolveApplication, backups
<1>26. CASE ChildActs
  BY <1>26, <1>1 DEF ChildActs, backups
<1>27. CASE Kill
  BY <1>27, <1>1 DEF Kill, backups
<1>28. CASE PowerLoss
  BY <1>28, <1>1 DEF PowerLoss, backups
<1>29. CASE ApplicationRun
  BY <1>29, <1>1 DEF ApplicationRun, backups
<1> QED
  BY <1>3, <1>4, <1>5, <1>6, <1>7, <1>8, <1>9, <1>10, <1>11, <1>12, <1>13, <1>14, <1>15,
      <1>16, <1>17, <1>18, <1>19, <1>20, <1>21, <1>22, <1>23, <1>24, <1>25, <1>26, <1>27,
      <1>28, <1>29 DEF Next, Step

LEMMA CompletedStep ==
  ASSUME IInv, Next, NEW b \in Attempts, Recorded(b, "completed")
  PROVE  /\ \A t \in Targets : disk'[t] = {commit[b]}
         /\ child = "passed" /\ childOf = b /\ ~marker
<1>1. b = cur /\ Confirm
  BY FinalWriters
<1>2. live = Staged(commit[cur]) /\ disk' = Flushed /\ commit[cur] \in Contents
  BY <1>1 DEF Confirm, LiveIs, IInv, TypeOK
<1>3. \A t \in Targets : disk'[t] = {commit[cur]}
  BY <1>2, StagedType DEF Flushed
<1>4. child = "passed" /\ childOf = cur /\ ~marker
  BY <1>1 DEF Confirm, IInv, FinalInv, BusyInv
<1> QED BY <1>1, <1>3, <1>4

LEMMA RolledBackStep ==
  ASSUME IInv, Next, NEW b \in Attempts, Recorded(b, "rolled-back")
  PROVE  /\ Holds(payload[b])
         /\ recovering => ~marker /\ child # "running"
<1>1. b = cur /\ RecordRestored
  BY FinalWriters
<1> QED BY <1>1 DEF RecordRestored, IInv, FinalInv

(* Final records are true when they are written (FinalRecordsAreTrue): the *)
(* promised files are durable everywhere, a completed upgrade has passed   *)
(* its preflight, and no application plan is active after either a         *)
(* completed upgrade or a manual recovery.                                 *)
THEOREM FinalRecordsTrue ==
  ASSUME Pinned = Targets, MaxFaults <= 1
  PROVE  Spec => FinalRecordsAreTrue
<1>1. IInv /\ [Next]_vars =>
        [\A b \in Attempts :
          /\ Recorded(b, "completed") =>
                /\ \A t \in Targets : disk'[t] = {commit[b]}
                /\ child = "passed" /\ childOf = b /\ ~marker
          /\ Recorded(b, "rolled-back") =>
                /\ Holds(payload[b])
                /\ recovering => ~marker /\ child # "running"]_vars
  BY CompletedStep, RolledBackStep
<1> QED BY <1>1, InitInv, NextInv, PTL DEF Spec, FinalRecordsAreTrue
-----------------------------------------------------------------------------
(* The agent of VPS Health.                                                *)
Unsent == {"idle", "allowed", "created"}
Views == Unsent \cup {"waiting", "answered", "done"}
Settled == {"succeeded", "failed"}
Files == {"none", "accepted", "running"} \cup Settled
Applying == {"applying", "scaling", "succeeded", "failed"}
Threads == {"none", "started", "clearing"} \cup Applying

ActionsTypeOK ==
    /\ status \in [Requests -> Statuses \cup {"none"}] /\ linked \in [Requests -> BOOLEAN]
    /\ view \in [Requests -> Views] /\ target \in [Requests -> Counts \cup {None}]
    /\ page \in [Pages -> [req : Requests \cup {None}, told : Files]]
    /\ agent \in {"up", "down"} /\ inbox \subseteq Requests
    /\ active \in Requests \cup {None}
    /\ file \in [Requests -> Files] /\ thread \in [Requests -> Threads]
    /\ writer \in Requests \cup {None} /\ applied \subseteq Requests

\* A request is sent once; only one that was answered is linked.
RowInv ==
    \A r \in Requests :
        /\ view[r] \in Unsent => file[r] = "none" /\ r \notin inbox
        /\ r \in inbox => file[r] = "none"
        /\ view[r] # "done" => ~linked[r]
        /\ view[r] = "answered" \/ linked[r] => file[r] # "none"
        /\ status[r] = "SUCCEEDED" => linked[r]

\* The file of a request and its thread.
ThreadInv ==
    /\ \A r \in Requests :
        /\ thread[r] # "none" => active = r
        /\ thread[r] = "started" => file[r] = "accepted"
        /\ thread[r] \in Applying => file[r] = "running"
        /\ thread[r] = "clearing" => file[r] \in Settled
        /\ thread[r] = "succeeded" \/ file[r] = "succeeded" => r \in applied
        /\ file[r] \in {"accepted", "running"} => active = r \/ agent = "down"
    /\ agent = "down" => active = None /\ inbox = {}

\* A verdict a page was told is the one in the file.
PageInv ==
    \A p \in Pages :
        page[p].req # None =>
            /\ linked[page[p].req] /\ page[p].told # "none"
            /\ page[p].told \in Settled => file[page[p].req] = page[p].told

\* .env holds the count of its last writer, whose command ends last.
CountInv ==
    /\ \A r \in Requests : thread[r] = "scaling" => writer = r
    /\ writer # None =>
        /\ writer \in Scales /\ file[writer] # "none" /\ env = target[writer]
        /\ thread[writer] = "succeeded" \/ file[writer] = "succeeded" => scaled = target[writer]

ActionsInv == ActionsTypeOK /\ RowInv /\ ThreadInv /\ PageInv /\ VerdictsAgree /\ CountInv
-----------------------------------------------------------------------------
\* The verdicts a file may hold, and their names in the database.
LEMMA Mapped ==
    /\ StatusMap("accepted") = "ACCEPTED" /\ StatusMap("running") = "RUNNING"
    /\ StatusMap("succeeded") = "SUCCEEDED" /\ StatusMap("failed") = "FAILED"
BY DEF StatusMap

LEMMA ActionsInitInv == ActionsInit => ActionsInv
<1> SUFFICES ASSUME ActionsInit PROVE ActionsInv
    OBVIOUS
<1>1. ActionsTypeOK
    BY NoneAssumption DEF ActionsInit, ActionsTypeOK, Statuses, Views, Unsent, Files, Threads, NoPage
<1>2. RowInv /\ ThreadInv /\ CountInv
    BY DEF ActionsInit, RowInv, ThreadInv, CountInv, Unsent, Applying, Settled
<1>3. PageInv /\ VerdictsAgree
    BY DEF ActionsInit, PageInv, NoPage, VerdictsAgree
<1> QED BY <1>1, <1>2, <1>3 DEF ActionsInv

\* The view of a scan looks for an unsettled one.
LEMMA AllowStep ==
    ASSUME ActionsInv, NEW r \in Requests, Allow(r)
    PROVE  ActionsInv'
<1> USE NoneAssumption DEF ActionsInv
<1>1. ActionsTypeOK'
    BY DEF Allow, agentVars, hostVars, row, ActionsTypeOK, Views, Unsent
<1>2. RowInv'
    BY DEF Allow, agentVars, hostVars, row, ActionsTypeOK, RowInv, Unsent, PageInv
<1>3. ThreadInv'
    BY DEF Allow, agentVars, hostVars, row, ThreadInv
<1>4. PageInv'
    BY DEF Allow, agentVars, hostVars, row, PageInv
<1>5. VerdictsAgree'
    BY DEF Allow, agentVars, hostVars, row, VerdictsAgree
<1>6. CountInv'
    BY DEF Allow, agentVars, hostVars, row, CountInv
<1> QED BY <1>1, <1>2, <1>3, <1>4, <1>5, <1>6

\* A row is committed before anything is sent.
LEMMA CreateRowStep ==
    ASSUME ActionsInv, NEW r \in Requests, CreateRow(r)
    PROVE  ActionsInv'
<1> USE NoneAssumption DEF ActionsInv
<1>1. ActionsTypeOK'
    BY DEF CreateRow, agentVars, hostVars, ActionsTypeOK, Statuses, Views, Unsent
<1>2. RowInv'
    BY DEF CreateRow, agentVars, hostVars, ActionsTypeOK, RowInv, Unsent, PageInv
<1>3. ThreadInv'
    BY DEF CreateRow, agentVars, hostVars, ThreadInv
<1>4. PageInv'
    BY DEF CreateRow, agentVars, hostVars, PageInv
<1>5. VerdictsAgree'
    BY Mapped DEF CreateRow, agentVars, hostVars, ActionsTypeOK, VerdictsAgree, RowInv,
                  ThreadInv, PageInv, Final, Files, Settled, Applying
<1>6. CountInv'
    BY DEF CreateRow, agentVars, hostVars, ActionsTypeOK, CountInv, RowInv, ThreadInv,
           Unsent, Applying, Settled
<1> QED BY <1>1, <1>2, <1>3, <1>4, <1>5, <1>6

\* The request is sent, or there is no agent.
LEMMA SubmitStep ==
    ASSUME ActionsInv, NEW r \in Requests, Submit(r)
    PROVE  ActionsInv'
<1> USE NoneAssumption DEF ActionsInv
<1>1. ActionsTypeOK'
    BY DEF Submit, hostVars, Refused, row, ActionsTypeOK, Statuses, Views, Unsent
<1>2. RowInv'
    BY DEF Submit, hostVars, Refused, row, ActionsTypeOK, RowInv, Unsent, PageInv
<1>3. ThreadInv'
    BY DEF Submit, hostVars, Refused, row, ActionsTypeOK, ThreadInv, RowInv, Applying,
           Settled
<1>4. PageInv'
    BY DEF Submit, hostVars, Refused, row, PageInv
<1>5. VerdictsAgree'
    BY Mapped DEF Submit, hostVars, Refused, row, ActionsTypeOK, VerdictsAgree, RowInv,
                  ThreadInv, PageInv, Final, Files, Settled, Applying
<1>6. CountInv'
    BY DEF Submit, hostVars, Refused, row, CountInv
<1> QED BY <1>1, <1>2, <1>3, <1>4, <1>5, <1>6

\* A view that gives up leaves a failed row that is not linked.
LEMMA GiveUpStep ==
    ASSUME ActionsInv, NEW r \in Requests, GiveUp(r)
    PROVE  ActionsInv'
<1> USE NoneAssumption DEF ActionsInv
<1>1. ActionsTypeOK'
    BY DEF GiveUp, agentVars, hostVars, Refused, ActionsTypeOK, Statuses, Views, Unsent
<1>2. RowInv'
    BY DEF GiveUp, agentVars, hostVars, Refused, ActionsTypeOK, RowInv, Unsent, PageInv
<1>3. ThreadInv'
    BY DEF GiveUp, agentVars, hostVars, Refused, ThreadInv
<1>4. PageInv'
    BY DEF GiveUp, agentVars, hostVars, Refused, PageInv
<1>5. VerdictsAgree'
    BY Mapped DEF GiveUp, agentVars, hostVars, Refused, ActionsTypeOK, VerdictsAgree,
                  RowInv, ThreadInv, PageInv, Final, Files, Settled, Applying
<1>6. CountInv'
    BY DEF GiveUp, agentVars, hostVars, Refused, CountInv
<1> QED BY <1>1, <1>2, <1>3, <1>4, <1>5, <1>6

\* The answer links the row.
LEMMA SaveAcceptedStep ==
    ASSUME ActionsInv, NEW r \in Requests, SaveAccepted(r)
    PROVE  ActionsInv'
<1> USE NoneAssumption DEF ActionsInv
<1>1. ActionsTypeOK'
    BY DEF SaveAccepted, agentVars, hostVars, ActionsTypeOK, Statuses, Views, Unsent
<1>2. RowInv'
    BY DEF SaveAccepted, agentVars, hostVars, ActionsTypeOK, RowInv, Unsent, PageInv
<1>3. ThreadInv'
    BY DEF SaveAccepted, agentVars, hostVars, ThreadInv
<1>4. PageInv'
    BY DEF SaveAccepted, agentVars, hostVars, ActionsTypeOK, PageInv, RowInv,
           ThreadInv, Settled, Applying, NoPage
<1>5. VerdictsAgree'
    BY Mapped DEF SaveAccepted, agentVars, hostVars, ActionsTypeOK, VerdictsAgree,
                  RowInv, ThreadInv, PageInv, Final, Files, Settled, Applying
<1>6. CountInv'
    BY DEF SaveAccepted, agentVars, hostVars, CountInv
<1> QED BY <1>1, <1>2, <1>3, <1>4, <1>5, <1>6

\* A view that is killed leaves its row.
LEMMA KillViewStep ==
    ASSUME ActionsInv, NEW r \in Requests, KillView(r)
    PROVE  ActionsInv'
<1> USE NoneAssumption DEF ActionsInv
<1>1. ActionsTypeOK'
    BY DEF KillView, agentVars, hostVars, row, ActionsTypeOK, Views, Unsent
<1>2. RowInv'
    BY DEF KillView, agentVars, hostVars, row, ActionsTypeOK, RowInv, Unsent, PageInv
<1>3. ThreadInv'
    BY DEF KillView, agentVars, hostVars, row, ThreadInv
<1>4. PageInv'
    BY DEF KillView, agentVars, hostVars, row, PageInv
<1>5. VerdictsAgree'
    BY DEF KillView, agentVars, hostVars, row, VerdictsAgree
<1>6. CountInv'
    BY DEF KillView, agentVars, hostVars, row, CountInv
<1> QED BY <1>1, <1>2, <1>3, <1>4, <1>5, <1>6

\* A page is told what the file says.
LEMMA AskStatusStep ==
    ASSUME ActionsInv, NEW p \in Pages, NEW r \in Requests, AskStatus(p,r)
    PROVE  ActionsInv'
<1> USE NoneAssumption DEF ActionsInv
<1>1. ActionsTypeOK'
    BY DEF AskStatus, agentVars, hostVars, row, ActionsTypeOK, Files, NoPage
<1>2. RowInv'
    BY DEF AskStatus, agentVars, hostVars, row, RowInv
<1>3. ThreadInv'
    BY DEF AskStatus, agentVars, hostVars, row, ThreadInv
<1>4. PageInv'
    BY DEF AskStatus, agentVars, hostVars, row, ActionsTypeOK, PageInv, RowInv,
           ThreadInv, Settled, Applying, NoPage
<1>5. VerdictsAgree'
    BY DEF AskStatus, agentVars, hostVars, row, VerdictsAgree
<1>6. CountInv'
    BY DEF AskStatus, agentVars, hostVars, row, CountInv
<1> QED BY <1>1, <1>2, <1>3, <1>4, <1>5, <1>6

\* A page saves what it was told, however old.
LEMMA SaveStatusStep ==
    ASSUME ActionsInv, NEW p \in Pages, SaveStatus(p)
    PROVE  ActionsInv'
<1> USE NoneAssumption DEF ActionsInv
<1>1. ActionsTypeOK'
    <2>1. page[p].req \in Requests /\ page[p].told \in Files \ {"none"}
        BY DEF SaveStatus, ActionsTypeOK, PageInv
    <2>2. StatusMap(page[p].told) \in Statuses
        BY <2>1, Mapped DEF Files, Settled, Statuses
    <2>3. NoPage \in [req : Requests \cup {None}, told : Files]
        BY DEF NoPage, Files
    <2> QED BY <2>1, <2>2, <2>3 DEF SaveStatus, ActionsTypeOK, row, agentVars, hostVars
<1>2. RowInv'
    BY DEF SaveStatus, agentVars, hostVars, ActionsTypeOK, RowInv, Unsent, PageInv
<1>3. ThreadInv'
    BY DEF SaveStatus, agentVars, hostVars, ThreadInv
<1>4. PageInv'
    BY DEF SaveStatus, agentVars, hostVars, ActionsTypeOK, PageInv, RowInv, ThreadInv,
           Settled, Applying, NoPage
<1>5. VerdictsAgree'
    BY Mapped DEF SaveStatus, agentVars, hostVars, ActionsTypeOK, VerdictsAgree,
                  RowInv, ThreadInv, PageInv, Final, Files, Settled, Applying
<1>6. CountInv'
    BY DEF SaveStatus, agentVars, hostVars, CountInv
<1> QED BY <1>1, <1>2, <1>3, <1>4, <1>5, <1>6

\* Nothing is active, so there is no thread.
LEMMA AcceptStep ==
    ASSUME ActionsInv, NEW r \in Requests, Accept(r)
    PROVE  ActionsInv'
<1> USE NoneAssumption DEF ActionsInv
<1>1. ActionsTypeOK'
    BY DEF Accept, hostVars, row, ActionsTypeOK, Views, Unsent, Files, Settled,
           Threads, Applying
<1>2. RowInv'
    BY DEF Accept, hostVars, row, ActionsTypeOK, RowInv, Unsent, PageInv
<1>3. ThreadInv'
    BY DEF Accept, hostVars, row, ActionsTypeOK, ThreadInv, MayAccept, RowInv,
           Applying, Settled
<1>4. PageInv'
    BY DEF Accept, hostVars, row, ActionsTypeOK, PageInv, RowInv, ThreadInv, Settled,
           Applying, NoPage
<1>5. VerdictsAgree'
    BY Mapped DEF Accept, hostVars, row, ActionsTypeOK, VerdictsAgree, RowInv,
                  ThreadInv, PageInv, Final, Files, Settled, Applying
<1>6. CountInv'
    BY DEF Accept, hostVars, row, ActionsTypeOK, CountInv, RowInv, ThreadInv, Unsent,
           Applying, Settled
<1> QED BY <1>1, <1>2, <1>3, <1>4, <1>5, <1>6

\* Nothing is remembered of a refused request.
LEMMA RejectStep ==
    ASSUME ActionsInv, NEW r \in Requests, Reject(r)
    PROVE  ActionsInv'
<1> USE NoneAssumption DEF ActionsInv
<1>1. ActionsTypeOK'
    BY DEF Reject, hostVars, Refused, row, ActionsTypeOK, Statuses, Views, Unsent
<1>2. RowInv'
    BY DEF Reject, hostVars, Refused, row, ActionsTypeOK, RowInv, Unsent, PageInv
<1>3. ThreadInv'
    BY DEF Reject, hostVars, Refused, row, ActionsTypeOK, ThreadInv, RowInv, Applying,
           Settled
<1>4. PageInv'
    BY DEF Reject, hostVars, Refused, row, PageInv
<1>5. VerdictsAgree'
    BY Mapped DEF Reject, hostVars, Refused, row, ActionsTypeOK, VerdictsAgree, RowInv,
                  ThreadInv, PageInv, Final, Files, Settled, Applying
<1>6. CountInv'
    BY DEF Reject, hostVars, Refused, row, CountInv
<1> QED BY <1>1, <1>2, <1>3, <1>4, <1>5, <1>6

\* The thread begins.
LEMMA MarkRunningStep ==
    ASSUME ActionsInv, NEW r \in Requests, MarkRunning(r)
    PROVE  ActionsInv'
<1> USE NoneAssumption DEF ActionsInv
<1>1. ActionsTypeOK'
    BY DEF MarkRunning, webVars, hostVars, row, ActionsTypeOK, Files, Settled, Threads,
           Applying
<1>2. RowInv'
    BY DEF MarkRunning, webVars, hostVars, row, ActionsTypeOK, RowInv, ThreadInv,
           Applying, Unsent, PageInv
<1>3. ThreadInv'
    BY DEF MarkRunning, webVars, hostVars, row, ActionsTypeOK, ThreadInv, RowInv,
           Applying, Settled
<1>4. PageInv'
    BY DEF MarkRunning, webVars, hostVars, row, ActionsTypeOK, PageInv, RowInv,
           ThreadInv, Settled, Applying, NoPage
<1>5. VerdictsAgree'
    BY Mapped DEF MarkRunning, webVars, hostVars, row, ActionsTypeOK, VerdictsAgree,
                  RowInv, ThreadInv, PageInv, Final, Files, Settled, Applying
<1>6. CountInv'
    BY DEF MarkRunning, webVars, hostVars, row, ActionsTypeOK, CountInv, RowInv,
           ThreadInv, Unsent, Applying, Settled
<1> QED BY <1>1, <1>2, <1>3, <1>4, <1>5, <1>6

\* The thread that writes .env is the one there is.
LEMMA WriteCountStep ==
    ASSUME ActionsInv, NEW r \in Requests, WriteCount(r)
    PROVE  ActionsInv'
<1> USE NoneAssumption DEF ActionsInv
<1>1. ActionsTypeOK'
    BY DEF WriteCount, webVars, row, ActionsTypeOK, Settled, Threads, Applying
<1>2. RowInv'
    BY DEF WriteCount, webVars, row, RowInv
<1>3. ThreadInv'
    BY DEF WriteCount, webVars, row, ActionsTypeOK, ThreadInv, RowInv, Applying,
           Settled
<1>4. PageInv'
    BY DEF WriteCount, webVars, row, PageInv
<1>5. VerdictsAgree'
    BY DEF WriteCount, webVars, row, VerdictsAgree
<1>6. CountInv'
    BY DEF WriteCount, webVars, row, ActionsTypeOK, CountInv, RowInv, ThreadInv,
           Unsent, Applying, Settled
<1> QED BY <1>1, <1>2, <1>3, <1>4, <1>5, <1>6

\* The command of the last writer ends, or another that scales nothing.
LEMMA RunCommandStep ==
    ASSUME ActionsInv, NEW r \in Requests, RunCommand(r)
    PROVE  ActionsInv'
<1> USE NoneAssumption DEF ActionsInv
<1>1. ActionsTypeOK'
    BY DEF RunCommand, webVars, row, ActionsTypeOK, Settled, Threads, Applying
<1>2. RowInv'
    BY DEF RunCommand, webVars, row, RowInv
<1>3. ThreadInv'
    BY DEF RunCommand, webVars, row, ActionsTypeOK, ThreadInv, RowInv, Applying,
           Settled
<1>4. PageInv'
    BY DEF RunCommand, webVars, row, PageInv
<1>5. VerdictsAgree'
    BY Mapped DEF RunCommand, webVars, row, ActionsTypeOK, VerdictsAgree, RowInv,
                  ThreadInv, PageInv, Final, Files, Settled, Applying
<1>6. CountInv'
    BY DEF RunCommand, webVars, row, ActionsTypeOK, CountInv, RowInv, ThreadInv,
           Unsent, Applying, Settled
<1> QED BY <1>1, <1>2, <1>3, <1>4, <1>5, <1>6

\* The verdict is written once.
LEMMA ConcludeStep ==
    ASSUME ActionsInv, NEW r \in Requests, Conclude(r)
    PROVE  ActionsInv'
<1> USE NoneAssumption DEF ActionsInv
<1>1. ActionsTypeOK'
    BY DEF Conclude, webVars, hostVars, row, ActionsTypeOK, Files, Settled, Threads,
           Applying
<1>2. RowInv'
    BY DEF Conclude, webVars, hostVars, row, ActionsTypeOK, RowInv, ThreadInv,
           Applying, Unsent, PageInv
<1>3. ThreadInv'
    BY DEF Conclude, webVars, hostVars, row, ActionsTypeOK, ThreadInv, RowInv,
           Applying, Settled
<1>4. PageInv'
    BY DEF Conclude, webVars, hostVars, row, ActionsTypeOK, PageInv, RowInv, ThreadInv,
           Settled, Applying, NoPage
<1>5. VerdictsAgree'
    BY Mapped DEF Conclude, webVars, hostVars, row, ActionsTypeOK, VerdictsAgree,
                  RowInv, ThreadInv, PageInv, Final, Files, Settled, Applying
<1>6. CountInv'
    BY DEF Conclude, webVars, hostVars, row, ActionsTypeOK, CountInv, RowInv,
           ThreadInv, Unsent, Applying, Settled
<1> QED BY <1>1, <1>2, <1>3, <1>4, <1>5, <1>6

\* Only a settled operation is cleared.
LEMMA ClearActiveStep ==
    ASSUME ActionsInv, NEW r \in Requests, ClearActive(r)
    PROVE  ActionsInv'
<1> USE NoneAssumption DEF ActionsInv
<1>1. ActionsTypeOK'
    BY DEF ClearActive, webVars, hostVars, row, ActionsTypeOK, Settled, Threads,
           Applying
<1>2. RowInv'
    BY DEF ClearActive, webVars, hostVars, row, RowInv
<1>3. ThreadInv'
    BY DEF ClearActive, webVars, hostVars, row, ActionsTypeOK, ThreadInv, RowInv,
           Applying, Settled
<1>4. PageInv'
    BY DEF ClearActive, webVars, hostVars, row, PageInv
<1>5. VerdictsAgree'
    BY DEF ClearActive, webVars, hostVars, row, VerdictsAgree
<1>6. CountInv'
    BY DEF ClearActive, webVars, hostVars, row, ActionsTypeOK, CountInv, RowInv,
           ThreadInv, Unsent, Applying, Settled
<1> QED BY <1>1, <1>2, <1>3, <1>4, <1>5, <1>6

\* A lost thread leaves its operation active.
LEMMA LoseThreadStep ==
    ASSUME ActionsInv, NEW r \in Requests, LoseThread(r)
    PROVE  ActionsInv'
<1> USE NoneAssumption DEF ActionsInv
<1>1. ActionsTypeOK'
    BY DEF LoseThread, webVars, hostVars, row, ActionsTypeOK, Settled, Threads,
           Applying
<1>2. RowInv'
    BY DEF LoseThread, webVars, hostVars, row, RowInv
<1>3. ThreadInv'
    BY DEF LoseThread, webVars, hostVars, row, ActionsTypeOK, ThreadInv, RowInv,
           Applying, Settled
<1>4. PageInv'
    BY DEF LoseThread, webVars, hostVars, row, PageInv
<1>5. VerdictsAgree'
    BY DEF LoseThread, webVars, hostVars, row, VerdictsAgree
<1>6. CountInv'
    BY DEF LoseThread, webVars, hostVars, row, ActionsTypeOK, CountInv, RowInv,
           ThreadInv, Unsent, Applying, Settled
<1> QED BY <1>1, <1>2, <1>3, <1>4, <1>5, <1>6

\* Of a killed agent the files are left.
LEMMA CrashStep ==
    ASSUME ActionsInv, Crash
    PROVE  ActionsInv'
<1> USE NoneAssumption DEF ActionsInv
<1>1. ActionsTypeOK'
    BY DEF Crash, webVars, row, ActionsTypeOK, Settled, Threads, Applying
<1>2. RowInv'
    BY DEF Crash, webVars, row, ActionsTypeOK, RowInv, Unsent, PageInv
<1>3. ThreadInv'
    BY DEF Crash, webVars, row, ActionsTypeOK, ThreadInv, RowInv, Applying, Settled
<1>4. PageInv'
    BY DEF Crash, webVars, row, PageInv
<1>5. VerdictsAgree'
    BY DEF Crash, webVars, row, VerdictsAgree
<1>6. CountInv'
    <2>1. /\ thread' = [r \in Requests |-> "none"]
          /\ UNCHANGED <<target, file, env, writer>>
          /\ scaled' = scaled \/ \E q \in Scales : thread[q] = "scaling" /\ scaled' = target[q]
        BY DEF Crash, webVars
    <2>2. CASE scaled' = scaled
        BY <2>1, <2>2 DEF CountInv, ActionsTypeOK
    <2>3. ASSUME NEW q \in Scales, thread[q] = "scaling", scaled' = target[q] PROVE CountInv'
        <3>1. q \in Requests
            BY DEF Requests
        <3>2. writer = q /\ file[q] = "running"
            BY <2>3, <3>1 DEF CountInv, ThreadInv, Applying
        <3> QED BY <2>1, <3>1, <3>2 DEF CountInv
    <2> QED BY <2>1, <2>2, <2>3
<1> QED BY <1>1, <1>2, <1>3, <1>4, <1>5, <1>6

\* The next agent settles what the files show unfinished.
LEMMA StartStep ==
    ASSUME ActionsInv, Start
    PROVE  ActionsInv'
<1> USE NoneAssumption DEF ActionsInv
<1>1. ActionsTypeOK'
    BY DEF Start, webVars, hostVars, row, PrepareFile, ActionsTypeOK, Files, Settled
<1>2. RowInv'
    BY DEF Start, webVars, hostVars, row, PrepareFile, ActionsTypeOK, RowInv, Unsent,
           PageInv
<1>3. ThreadInv'
    BY DEF Start, webVars, hostVars, row, PrepareFile, ActionsTypeOK, ThreadInv,
           RowInv, Applying, Settled
<1>4. PageInv'
    BY DEF Start, webVars, hostVars, row, PrepareFile, ActionsTypeOK, PageInv, RowInv,
           ThreadInv, Settled, Applying, NoPage
<1>5. VerdictsAgree'
    BY Mapped DEF Start, webVars, hostVars, row, PrepareFile, ActionsTypeOK,
                  VerdictsAgree, RowInv, ThreadInv, PageInv, Final, Files,
                  Settled, Applying
<1>6. CountInv'
    BY DEF Start, webVars, hostVars, row, PrepareFile, ActionsTypeOK, CountInv, RowInv,
           ThreadInv, Unsent, Applying, Settled
<1> QED BY <1>1, <1>2, <1>3, <1>4, <1>5, <1>6

-----------------------------------------------------------------------------
\* The invariant is inductive.
LEMMA NextIInv ==
    ASSUME ActionsInv, [ActionsNext]_actionVars
    PROVE  ActionsInv'
<1>1. CASE ActionsNext
    BY <1>1, AllowStep, CreateRowStep, SubmitStep, GiveUpStep, SaveAcceptedStep, KillViewStep,
       AskStatusStep, SaveStatusStep, AcceptStep, RejectStep, MarkRunningStep, WriteCountStep,
       RunCommandStep, ConcludeStep, ClearActiveStep, LoseThreadStep, CrashStep, StartStep
       DEF ActionsNext, ViewStep, Work
<1>2. CASE UNCHANGED actionVars
    BY <1>2 DEF actionVars, webVars, agentVars, hostVars, row, ActionsInv, ActionsTypeOK, RowInv, ThreadInv, PageInv,
                VerdictsAgree, CountInv
<1> QED BY <1>1, <1>2

\* A linked row whose file is not settled waits for the active operation.
LEMMA IInvWait ==
    ASSUME ActionsInv
    PROVE  WaitIsOwed
BY Mapped DEF ActionsInv, ActionsTypeOK, RowInv, ThreadInv, WaitIsOwed, Final, Files, Settled

\* A row that says "succeeded" is linked, so its file does.
LEMMA IInvSuccess ==
    ASSUME ActionsInv
    PROVE  SuccessStands
<1> SUFFICES ASSUME writer # None, status[writer] = "SUCCEEDED"
             PROVE  env = target[writer] /\ scaled = target[writer]
    BY DEF SuccessStands
<1>1. writer \in Requests /\ file[writer] \in Files /\ file[writer] # "none"
    BY DEF ActionsInv, ActionsTypeOK, CountInv
<1>2. status[writer] = StatusMap(file[writer])
    BY <1>1 DEF ActionsInv, RowInv, VerdictsAgree, Final
<1>3. file[writer] = "succeeded"
    BY <1>1, <1>2, Mapped DEF Files, Settled
<1> QED BY <1>3 DEF ActionsInv, CountInv

-----------------------------------------------------------------------------
\* A settled row says what the agent's file says, and "succeeded" only of a
\* command that ended well (synchronize_action, perform_action).
THEOREM VerdictsStayTrue == ActionsSpec => []VerdictsAgree
<1>1. ActionsInit => ActionsInv
    BY ActionsInitInv
<1>2. ActionsInv /\ [ActionsNext]_actionVars => ActionsInv'
    BY NextIInv
<1>3. ActionsInv => VerdictsAgree
    BY DEF ActionsInv
<1> QED BY <1>1, <1>2, <1>3, PTL DEF ActionsSpec

\* A count that is reported as applied is the one in .env and the one compose
\* runs (write_worker_count, perform_action, accept_action).
THEOREM SuccessStaysTrue == ActionsSpec => []SuccessStands
<1>1. ActionsInit => ActionsInv
    BY ActionsInitInv
<1>2. ActionsInv /\ [ActionsNext]_actionVars => ActionsInv'
    BY NextIInv
<1>3. ActionsInv => SuccessStands
    BY IInvSuccess
<1> QED BY <1>1, <1>2, <1>3, PTL DEF ActionsSpec

\* A row the agent answered for never waits for nothing (accept_action,
\* prepare_runtime).
THEOREM WaitsAreOwed == ActionsSpec => []WaitIsOwed
<1>1. ActionsInit => ActionsInv
    BY ActionsInitInv
<1>2. ActionsInv /\ [ActionsNext]_actionVars => ActionsInv'
    BY NextIInv
<1>3. ActionsInv => WaitIsOwed
    BY IInvWait
<1> QED BY <1>1, <1>2, <1>3, PTL DEF ActionsSpec
=============================================================================
