--------------------------- MODULE RecoveryProofs ---------------------------
(***************************************************************************)
(* Proofs about the owner's operations after an incomplete rollback, for   *)
(* every number of repairs, owners, workers, reports, kills and faults.    *)
(* First what the operations do to the receiver, its configuration and     *)
(* their records; then what the scan of a log means; last the evidence a   *)
(* reviewed completion has when it moves traffic and cleans up.            *)
(***************************************************************************)
EXTENDS RecoveryProperties, FiniteSetTheorems, SequenceTheorems, WellFoundedInduction, TLAPS

-----------------------------------------------------------------------------
(* The inductive invariant.                                                *)

CopyStates == {"none", "partial", "whole"}
Types ==
  /\ runtime \in 0..Repairs /\ backups \in [1..Repairs -> CopyStates]
  /\ config \in {"old", "new"} /\ kept \in CopyStates /\ configured \in BOOLEAN
  /\ kills \in Nat /\ faults \in Nat

(* What a call consists of.                                                *)
Fields == {"op", "repair", "step", "phase", "started", "status", "seen", "runtime", "config"}
CallAt(p) ==
  \/ call[p] = Idle
  \/ /\ DOMAIN call[p] = Fields
     /\ call[p].op \in {"install", "complete", "apply"}
     /\ call[p].op = "install" => call[p].repair \in 1..Repairs

(* Whoever is past the lock holds it.                                      *)
Working(p) == call[p].op # "none" /\ call[p].step # "lock"
LockAt(p) == Working(p) <=> lock = p

Doing(p, op, steps) == call[p].op = op /\ call[p].step \in steps
Wholes(k) == \A j \in 1..k : backups[j] = "whole"

(* Until its first change a call finds what it noted.                      *)
NotedAt(p) ==
  call[p].op # "none" /\ call[p].step = "check" =>
    runtime = call[p].runtime /\ config = call[p].config

(* The repair installed is the one before until it is activated, which its *)
(* own backup precedes; the plan pins that there is no completion.         *)
InstallAt(p) ==
  Doing(p, "install", {"copy", "activate", "receipt", "restore"}) =>
    /\ plan /\ Wholes(call[p].repair - 1)
    /\ call[p].runtime = call[p].repair - 1 /\ config = call[p].config
    /\ call[p].step # "copy" => backups[call[p].repair] = "whole"
    /\ call[p].step \in {"copy", "activate"} => runtime = call[p].repair - 1
    /\ runtime \in {call[p].repair - 1, call[p].repair}

(* A completion works on the receiver it verified, without a receipt.      *)
CompleteAt(p) ==
  call[p].op = "complete" /\ call[p].step \notin {"lock", "check"} =>
    /\ completion = NoReceipt /\ runtime = call[p].repair
    /\ runtime = call[p].runtime /\ config = call[p].config
    /\ call[p].step \in {"clean", "forget", "record"} => upstream = "final"
    /\ call[p].step \in {"forget", "record"} => ~slots
    /\ call[p].step = "record" => ~plan

(* A maintenance works on a recovered receiver, in its order, and undoes   *)
(* nothing unless a step failed.                                           *)
ApplyAt(p) ==
  Doing(p, "apply", {"copy", "write", "record", "replan", "undo", "unlink"}) =>
    /\ Recovered
    /\ runtime = call[p].runtime /\ call[p].config = "old"
    /\ call[p].step # "copy" => kept = "whole"
    /\ call[p].step \in {"copy", "write"} => config = "old" /\ ~configured
    /\ call[p].step = "record" => config = "new" /\ ~configured
    /\ call[p].step = "replan" => config = "new" /\ configured
    /\ call[p].step \in {"undo", "unlink"} => faults >= 1
    /\ call[p].step = "unlink" => config = "old"

CallInv == DOMAIN call = Owners /\ \A p \in Owners : CallAt(p) /\ LockAt(p)
WorkInv == \A p \in Owners : NotedAt(p) /\ InstallAt(p) /\ CompleteAt(p) /\ ApplyAt(p)

(* The configuration and its receipt differ only in the middle of one.     *)
ConfigInv ==
  /\ config = "new" \/ configured => completion.reviewed
  /\ \/ kills > 0 \/ faults >= 2 \/ (config = "new" <=> configured)
     \/ \E p \in Owners : lock = p /\ Doing(p, "apply", {"record", "undo", "unlink"})

IInv == Types /\ CallInv /\ WorkInv /\ ChangesAreRestorable /\ CompletionNamesTheRuntime /\ ConfigInv

-----------------------------------------------------------------------------
(* How a step changes the calls.                                           *)
Others(p) == DOMAIN call' = Owners /\ \A q \in Owners \ {p} : call'[q] = call[q]
Moved(p, step) ==
  /\ Others(p) /\ lock' = lock /\ DOMAIN call'[p] = Fields
  /\ call'[p].step = step /\ call'[p].op = call[p].op /\ call'[p].repair = call[p].repair
  /\ call'[p].runtime = call[p].runtime /\ call'[p].config = call[p].config
Left(p) == Others(p) /\ call'[p] = Idle /\ lock' = IF lock = p THEN Nobody ELSE lock

LEMMA IdleFields == Idle.op = "none" /\ Idle.step = "idle"
BY DEF Idle

LEMMA StepEffect ==
  ASSUME CallInv, NEW p \in Owners, call[p].op # "none", lock' = lock, NEW step,
         call' = [call EXCEPT ![p].step = step]
  PROVE  Moved(p, step)
<1>1. DOMAIN call[p] = Fields
  BY IdleFields DEF CallInv, CallAt
<1>2. "step" \in Fields /\ "op" \in Fields /\ "repair" \in Fields /\ "runtime" \in Fields
      /\ "config" \in Fields
  BY DEF Fields
<1>3. call'[p] = [call[p] EXCEPT !.step = step] /\ Others(p)
  BY DEF CallInv, Others
<1>4. DOMAIN call'[p] = Fields
  BY <1>1, <1>3
<1>5. call'[p].step = step /\ call'[p].op = call[p].op /\ call'[p].repair = call[p].repair
      /\ call'[p].runtime = call[p].runtime /\ call'[p].config = call[p].config
  BY <1>1, <1>2, <1>3
<1> QED
  BY <1>3, <1>4, <1>5 DEF Moved

LEMMA GoesEffect ==
  ASSUME CallInv, NEW p \in Owners, call[p].op # "none", NEW step, Goes(p, step)
  PROVE  Moved(p, step) /\ UNCHANGED counts
BY StepEffect DEF Goes

LEMMA LeavesEffect ==
  ASSUME CallInv, NEW p \in Owners, NEW how, Leaves(p, how)
  PROVE  Left(p)
BY DEF Leaves, Left, Others, CallInv

(* While p holds the lock, nobody else works.                              *)
LEMMA MovedKeeps ==
  ASSUME IInv, NEW p \in Owners, lock = p, NEW step, step # "lock", Moved(p, step),
         Types', ChangesAreRestorable', CompletionNamesTheRuntime', ConfigInv',
         NotedAt(p)', InstallAt(p)', CompleteAt(p)', ApplyAt(p)'
  PROVE  IInv'
<1>1. CallAt(p)' /\ LockAt(p)'
  BY IdleFields DEF IInv, CallInv, CallAt, LockAt, Working, Moved
<1>2. ASSUME NEW q \in Owners \ {p}
      PROVE  CallAt(q)' /\ LockAt(q)' /\ NotedAt(q)' /\ InstallAt(q)' /\ CompleteAt(q)' /\ ApplyAt(q)'
  <2>1. call'[q] = call[q] /\ ~Working(q) /\ lock' = p
    BY DEF IInv, CallInv, LockAt, Moved, Others
  <2>2. CallAt(q)' /\ LockAt(q)'
    BY <2>1 DEF IInv, CallInv, CallAt, LockAt, Working
  <2> QED
    BY <2>1, <2>2 DEF Working, NotedAt, InstallAt, CompleteAt, ApplyAt, Doing
<1> QED
  BY <1>1, <1>2 DEF IInv, CallInv, WorkInv, Moved, Others

LEMMA LeftKeeps ==
  ASSUME IInv, NEW p \in Owners, lock = p, Left(p),
         Types', ChangesAreRestorable', CompletionNamesTheRuntime', ConfigInv'
  PROVE  IInv'
<1>1. ASSUME NEW q \in Owners
      PROVE  CallAt(q)' /\ LockAt(q)' /\ ~Working(q)'
  <2>1. CASE q = p
    BY <2>1, IdleFields, OwnersAssumption DEF CallAt, LockAt, Working, Left, Nobody
  <2>2. CASE q # p
    <3>1. call'[q] = call[q] /\ ~Working(q) /\ lock' = Nobody
      BY <2>2 DEF IInv, CallInv, LockAt, Left, Others
    <3> QED
      BY <3>1, OwnersAssumption DEF IInv, CallInv, CallAt, LockAt, Working, Nobody
  <2> QED
    BY <2>1, <2>2
<1>2. ASSUME NEW q \in Owners
      PROVE  NotedAt(q)' /\ InstallAt(q)' /\ CompleteAt(q)' /\ ApplyAt(q)'
  BY <1>1 DEF Working, NotedAt, InstallAt, CompleteAt, ApplyAt, Doing
<1> QED
  BY <1>1, <1>2 DEF IInv, CallInv, WorkInv, Left, Others
-----------------------------------------------------------------------------
(* One lemma per kind of step.                                             *)

(* What is the same as before keeps what speaks of it alone.               *)
LEMMA GlobalsKeep ==
  ASSUME IInv, UNCHANGED <<runtime, backups, recovery, maintenance, kills, faults>>,
         \A q \in Owners : ~(lock = q /\ Doing(q, "apply", {"record", "undo", "unlink"}))
  PROVE  Types' /\ ChangesAreRestorable' /\ CompletionNamesTheRuntime' /\ ConfigInv'
BY DEF IInv, Types, ChangesAreRestorable, CompletionNamesTheRuntime, ConfigInv, recovery, maintenance

(* Whoever works on a step of its operation holds the lock, and its call   *)
(* is whole.                                                               *)
LEMMA Holder ==
  ASSUME IInv, NEW p \in Owners, Working(p)
  PROVE  /\ lock = p /\ DOMAIN call[p] = Fields /\ call[p].op # "none"
         /\ call[p].op = "install" => call[p].repair \in 1..Repairs
         /\ \A q \in Owners : lock = q => q = p
         /\ CallInv
BY IdleFields DEF IInv, CallInv, CallAt, LockAt, Working

LEMMA InstallKeeps ==
  ASSUME IInv, NEW p \in Owners, Install(p)
  PROVE  IInv'
<1> USE DEF At, Doing
<1>1. call[p].op = "install" /\ Working(p)
  BY DEF Install, CheckInstall, CopyInstall, Activate, RecordInstall, RestoreFile, Working
<1>2. /\ lock = p /\ call[p].repair \in 1..Repairs /\ CallInv
      /\ \A q \in Owners : ~(lock = q /\ Doing(q, "apply", {"record", "undo", "unlink"}))
  BY <1>1, Holder
<1>3. NotedAt(p) /\ InstallAt(p)
  BY DEF IInv, WorkInv
<1> DEFINE k == call[p].repair
<1>4. Types /\ ChangesAreRestorable /\ CompletionNamesTheRuntime /\ ConfigInv
  BY DEF IInv
<1>5. k \in Nat /\ Repairs \in Nat /\ runtime \in Nat
  BY <1>2, <1>4, ChainAssumption DEF Types
<1>6. CASE CheckInstall(p)
  <2>1. CASE Installable(k) /\ backups' = [backups EXCEPT ![k] = "partial"] /\ Goes(p, "copy")
    <3>1. Moved(p, "copy") /\ UNCHANGED counts
      BY <1>1, <1>2, <2>1, GoesEffect
    <3>2. UNCHANGED <<runtime, receipts, recovery, maintenance>>
      BY <1>6 DEF CheckInstall
    <3>3. \A j \in 1..Repairs : backups'[j] = IF j = k THEN "partial" ELSE backups[j]
      BY <1>2, <1>4, <2>1 DEF Types
    <3>4. runtime = k - 1 /\ plan /\ Wholes(k - 1) /\ config = call[p].config
          /\ runtime = call[p].runtime
      BY <1>1, <1>3, <1>6, <2>1 DEF Installable, Pinned, Parents, Wholes, NotedAt, CheckInstall
    <3>5. Types'
      BY <1>2, <1>4, <2>1, <3>1, <3>2 DEF Types, CopyStates, counts, maintenance
    <3>6. ChangesAreRestorable' /\ CompletionNamesTheRuntime' /\ ConfigInv'
      BY <1>2, <1>4, <1>5, <3>1, <3>2, <3>3, <3>4
         DEF ChangesAreRestorable, CompletionNamesTheRuntime, ConfigInv, recovery, maintenance,
             counts, Types
    <3>7. InstallAt(p)'
      BY <1>2, <1>5, <3>1, <3>2, <3>3, <3>4 DEF InstallAt, Moved, Wholes, recovery, maintenance
    <3>8. NotedAt(p)' /\ CompleteAt(p)' /\ ApplyAt(p)'
      BY <1>1, <3>1 DEF NotedAt, CompleteAt, ApplyAt, Moved
    <3> QED
      BY <1>2, <3>1, <3>5, <3>6, <3>7, <3>8, MovedKeeps
  <2>2. CASE UNCHANGED backups /\ Ends(p, "refused")
    <3>1. Left(p) /\ UNCHANGED counts
      BY <1>2, <2>2, LeavesEffect DEF Ends
    <3> QED
      BY <1>2, <1>6, <2>2, <3>1, GlobalsKeep, LeftKeeps DEF CheckInstall, counts
  <2> QED
    BY <1>6, <2>1, <2>2 DEF CheckInstall
<1>7. CASE CopyInstall(p)
  <2>1. Moved(p, "activate") /\ UNCHANGED counts
    BY <1>1, <1>2, <1>7, GoesEffect DEF CopyInstall
  <2>2. UNCHANGED <<runtime, receipts, recovery, maintenance>> /\ call[p].step = "copy"
    BY <1>7 DEF CopyInstall
  <2>3. \A j \in 1..Repairs : backups'[j] = IF j = k THEN "whole" ELSE backups[j]
    BY <1>2, <1>4, <1>7 DEF Types, CopyInstall
  <2>4. Types'
    BY <1>2, <1>4, <1>7, <2>1, <2>2 DEF Types, CopyStates, counts, maintenance, CopyInstall
  <2>5. ChangesAreRestorable' /\ CompletionNamesTheRuntime' /\ ConfigInv'
    BY <1>2, <1>4, <1>5, <2>1, <2>2, <2>3
       DEF ChangesAreRestorable, CompletionNamesTheRuntime, ConfigInv, recovery, maintenance,
           counts, Types
  <2>6. InstallAt(p)'
    BY <1>1, <1>2, <1>3, <1>5, <2>1, <2>2, <2>3
       DEF InstallAt, Moved, Wholes, recovery, maintenance
  <2>7. NotedAt(p)' /\ CompleteAt(p)' /\ ApplyAt(p)'
    BY <1>1, <2>1 DEF NotedAt, CompleteAt, ApplyAt, Moved
  <2> QED
    BY <1>2, <2>1, <2>4, <2>5, <2>6, <2>7, MovedKeeps
<1>8. CASE Activate(p)
  <2>1. Moved(p, "receipt") /\ UNCHANGED counts
    BY <1>1, <1>2, <1>8, GoesEffect DEF Activate
  <2>2. /\ UNCHANGED <<backups, receipts, recovery, maintenance>> /\ call[p].step = "activate"
        /\ runtime' = k
    BY <1>8 DEF Activate
  <2>3. plan /\ Wholes(k - 1) /\ backups[k] = "whole" /\ call[p].runtime = k - 1
        /\ config = call[p].config
    BY <1>1, <1>3, <2>2 DEF InstallAt
  <2>4. Types' /\ Wholes(k)
    BY <1>2, <1>4, <1>5, <2>1, <2>2, <2>3 DEF Types, counts, maintenance, Wholes
  <2>5. ChangesAreRestorable' /\ CompletionNamesTheRuntime' /\ ConfigInv'
    BY <1>2, <1>4, <1>5, <2>1, <2>2, <2>3, <2>4
       DEF ChangesAreRestorable, CompletionNamesTheRuntime, ConfigInv, recovery, maintenance,
           counts, Types, Wholes
  <2>6. InstallAt(p)'
    BY <1>1, <1>2, <1>5, <2>1, <2>2, <2>3 DEF InstallAt, Moved, Wholes, recovery, maintenance
  <2>7. NotedAt(p)' /\ CompleteAt(p)' /\ ApplyAt(p)'
    BY <1>1, <2>1 DEF NotedAt, CompleteAt, ApplyAt, Moved
  <2> QED
    BY <1>2, <2>1, <2>4, <2>5, <2>6, <2>7, MovedKeeps
<1>9. CASE RecordInstall(p)
  <2>1. UNCHANGED <<runtime, backups, recovery, maintenance>> /\ call[p].step = "receipt"
    BY <1>9 DEF RecordInstall
  <2>2. CASE Ends(p, "done")
    <3>1. Left(p) /\ UNCHANGED counts
      BY <1>2, <2>2, LeavesEffect DEF Ends
    <3> QED
      BY <1>2, <2>1, <3>1, GlobalsKeep, LeftKeeps DEF counts
  <2>3. CASE Goes(p, "restore")
    <3>1. Moved(p, "restore") /\ UNCHANGED counts
      BY <1>1, <1>2, <2>3, GoesEffect
    <3>2. InstallAt(p)' /\ NotedAt(p)' /\ CompleteAt(p)' /\ ApplyAt(p)'
      BY <1>1, <1>3, <2>1, <3>1
         DEF InstallAt, Moved, Wholes, recovery, maintenance, NotedAt, CompleteAt, ApplyAt
    <3> QED
      BY <1>2, <2>1, <3>1, <3>2, GlobalsKeep, MovedKeeps DEF counts
  <2> QED
    BY <1>9, <2>2, <2>3 DEF RecordInstall
<1>10. CASE RestoreFile(p)
  <2>1. Left(p) /\ UNCHANGED counts
    BY <1>2, <1>10, LeavesEffect DEF RestoreFile, Ends
  <2>2. /\ UNCHANGED <<backups, receipts, recovery, maintenance>> /\ runtime' = k - 1
        /\ plan /\ Wholes(k - 1)
    BY <1>1, <1>3, <1>10 DEF RestoreFile, InstallAt
  <2>3. Types'
    BY <1>2, <1>4, <1>5, <2>1, <2>2 DEF Types, counts, maintenance
  <2>4. ChangesAreRestorable' /\ CompletionNamesTheRuntime' /\ ConfigInv'
    BY <1>2, <1>4, <1>5, <2>1, <2>2
       DEF ChangesAreRestorable, CompletionNamesTheRuntime, ConfigInv, recovery, maintenance,
           counts, Types, Wholes
  <2> QED
    BY <1>2, <2>1, <2>3, <2>4, LeftKeeps
<1> QED
  BY <1>6, <1>7, <1>8, <1>9, <1>10 DEF Install

(* A step of a completion that changes nothing but where the call is.      *)
LEMMA CompletionMoves ==
  ASSUME IInv, NEW p \in Owners, Working(p), call[p].op = "complete",
         NEW step, step \notin {"lock", "check", "clean", "forget", "record"}, Moved(p, step),
         UNCHANGED <<runtime, backups, receipts, maintenance, kills, faults>>,
         UNCHANGED <<plan, slots, completion>>,
         completion = NoReceipt /\ runtime = call[p].repair
         /\ runtime = call[p].runtime /\ config = call[p].config
  PROVE  IInv'
<1>1. /\ lock = p /\ CallInv
      /\ \A q \in Owners : ~(lock = q /\ Doing(q, "apply", {"record", "undo", "unlink"}))
  BY Holder DEF Doing
<1>2. Types' /\ ChangesAreRestorable' /\ CompletionNamesTheRuntime' /\ ConfigInv'
  BY <1>1 DEF IInv, Types, ChangesAreRestorable, CompletionNamesTheRuntime, ConfigInv, maintenance
<1>3. NotedAt(p)' /\ InstallAt(p)' /\ CompleteAt(p)' /\ ApplyAt(p)'
  BY DEF NotedAt, InstallAt, CompleteAt, ApplyAt, Moved, Doing, maintenance
<1> QED
  BY <1>1, <1>2, <1>3, MovedKeeps

LEMMA CompletionLeaves ==
  ASSUME IInv, NEW p \in Owners, Working(p), call[p].op = "complete", NEW how, Leaves(p, how),
         UNCHANGED <<runtime, backups, recovery, maintenance, kills, faults>>
  PROVE  IInv'
<1>1. /\ lock = p /\ CallInv
      /\ \A q \in Owners : ~(lock = q /\ Doing(q, "apply", {"record", "undo", "unlink"}))
  BY Holder DEF Doing
<1> QED
  BY <1>1, GlobalsKeep, LeavesEffect, LeftKeeps

(* The call after the checks are started (again).                          *)
LEMMA ChecksEffect ==
  ASSUME CallInv, NEW p \in Owners, call[p].op # "none", lock' = lock,
         \/ call' = [call EXCEPT ![p] = [Checks(p) EXCEPT !.phase = "rollback"]]
         \/ \E t : call' = [call EXCEPT ![p] = [Checks(p) EXCEPT !.started = t]]
  PROVE  Moved(p, IF Reviewed(p) THEN "sync" ELSE "scan")
<1>1. DOMAIN call[p] = Fields
  BY IdleFields DEF CallInv, CallAt
<1>2. "step" \in Fields /\ "op" \in Fields /\ "repair" \in Fields /\ "runtime" \in Fields
      /\ "config" \in Fields
  BY DEF Fields
<1> DEFINE step == IF Reviewed(p) THEN "sync" ELSE "scan"
<1>3. /\ DOMAIN Checks(p) = Fields /\ Checks(p).step = step
      /\ Checks(p).op = call[p].op /\ Checks(p).repair = call[p].repair
      /\ Checks(p).runtime = call[p].runtime /\ Checks(p).config = call[p].config
  BY <1>1, <1>2 DEF Checks
<1>4. CASE call' = [call EXCEPT ![p] = [Checks(p) EXCEPT !.phase = "rollback"]]
  <2>1. call'[p] = [Checks(p) EXCEPT !.phase = "rollback"] /\ Others(p)
    BY <1>4 DEF CallInv, Others
  <2>2. DOMAIN call'[p] = Fields /\ call'[p].step = step /\ call'[p].op = call[p].op
        /\ call'[p].repair = call[p].repair /\ call'[p].runtime = call[p].runtime
        /\ call'[p].config = call[p].config
    BY <1>2, <1>3, <2>1
  <2> QED
    BY <2>1, <2>2 DEF Moved
<1>5. ASSUME NEW t, call' = [call EXCEPT ![p] = [Checks(p) EXCEPT !.started = t]]
      PROVE  Moved(p, step)
  <2>1. call'[p] = [Checks(p) EXCEPT !.started = t] /\ Others(p)
    BY <1>5 DEF CallInv, Others
  <2>2. DOMAIN call'[p] = Fields /\ call'[p].step = step /\ call'[p].op = call[p].op
        /\ call'[p].repair = call[p].repair /\ call'[p].runtime = call[p].runtime
        /\ call'[p].config = call[p].config
    BY <1>2, <1>3, <2>1
  <2> QED
    BY <2>1, <2>2 DEF Moved
<1> QED
  BY <1>4, <1>5

(* A scan or the syncs note what they saw in the call as well.             *)
LEMMA NotesEffect ==
  ASSUME CallInv, NEW p \in Owners, call[p].op # "none", lock' = lock, NEW step, NEW value,
         \/ call' = [call EXCEPT ![p].step = step, ![p].status = value]
         \/ call' = [call EXCEPT ![p].seen = value, ![p].step = step]
  PROVE  Moved(p, step)
<1>1. DOMAIN call[p] = Fields
  BY IdleFields DEF CallInv, CallAt
<1>2. "step" \in Fields /\ "op" \in Fields /\ "repair" \in Fields /\ "runtime" \in Fields
      /\ "config" \in Fields
  BY DEF Fields
<1>3. CASE call' = [call EXCEPT ![p].step = step, ![p].status = value]
  <2> DEFINE first == [call[p] EXCEPT !.step = step]
  <2>1. /\ DOMAIN first = Fields /\ first.step = step /\ first.op = call[p].op
        /\ first.repair = call[p].repair /\ first.runtime = call[p].runtime
        /\ first.config = call[p].config
    BY <1>1, <1>2
  <2>2. call'[p] = [first EXCEPT !.status = value] /\ Others(p)
    BY <1>3 DEF CallInv, Others
  <2> HIDE DEF first
  <2>3. DOMAIN call'[p] = Fields /\ call'[p].step = step /\ call'[p].op = call[p].op
        /\ call'[p].repair = call[p].repair /\ call'[p].runtime = call[p].runtime
        /\ call'[p].config = call[p].config
    BY <1>2, <2>1, <2>2
  <2> QED
    BY <2>2, <2>3 DEF Moved
<1>4. CASE call' = [call EXCEPT ![p].seen = value, ![p].step = step]
  <2> DEFINE first == [call[p] EXCEPT !.seen = value]
  <2>1. /\ DOMAIN first = Fields /\ first.op = call[p].op
        /\ first.repair = call[p].repair /\ first.runtime = call[p].runtime
        /\ first.config = call[p].config
    BY <1>1, <1>2
  <2>2. call'[p] = [first EXCEPT !.step = step] /\ Others(p)
    BY <1>4 DEF CallInv, Others
  <2> HIDE DEF first
  <2>3. DOMAIN call'[p] = Fields /\ call'[p].step = step /\ call'[p].op = call[p].op
        /\ call'[p].repair = call[p].repair /\ call'[p].runtime = call[p].runtime
        /\ call'[p].config = call[p].config
    BY <1>2, <2>1, <2>2
  <2> QED
    BY <2>2, <2>3 DEF Moved
<1> QED
  BY <1>3, <1>4

LEMMA ChecksKeep ==
  ASSUME IInv, NEW p \in Owners,
         \/ CheckComplete(p) \/ CheckSync(p) \/ StartCoverage(p) \/ EndCoverage(p)
         \/ (\E w \in Workers : ScanWorker(p, w)) \/ RetainEvidence(p)
  PROVE  IInv'
<1>1. call[p].op = "complete" /\ Working(p) /\ Keeps
  BY DEF CheckComplete, CheckSync, StartCoverage, EndCoverage, ScanWorker, RetainEvidence, At,
         Working
<1>2. lock = p /\ CallInv
  BY <1>1, Holder
<1>3. UNCHANGED <<runtime, backups, receipts, recovery, maintenance, plan, slots, completion>>
  BY <1>1 DEF Keeps, receiver, recovery
<1>4. ASSUME NEW how, Ends(p, how)
      PROVE  IInv'
  BY <1>1, <1>3, <1>4, CompletionLeaves DEF Ends, counts
<1>5. ASSUME call[p].step # "check", UNCHANGED counts,
             NEW step, step \notin {"lock", "check", "clean", "forget", "record"}, Moved(p, step)
      PROVE  IInv'
  <2>1. completion = NoReceipt /\ runtime = call[p].repair
        /\ runtime = call[p].runtime /\ config = call[p].config
    BY <1>1, <1>5 DEF IInv, WorkInv, CompleteAt, Working
  <2> QED
    BY <1>1, <1>3, <1>5, <2>1, CompletionMoves DEF counts
<1>6. CASE CheckComplete(p)
  <2>1. CASE /\ Verified(call[p].repair) /\ completion = NoReceipt
             /\ call' = [call EXCEPT ![p] =
                           [Checks(p) EXCEPT !.started = IF Reviewed(p) THEN now ELSE 0]]
             /\ UNCHANGED <<lock, result, counts>>
    <3>1. Moved(p, IF Reviewed(p) THEN "sync" ELSE "scan")
      BY <1>1, <1>2, <2>1, ChecksEffect
    <3>2. runtime = call[p].repair /\ runtime = call[p].runtime /\ config = call[p].config
      BY <1>1, <1>6, <2>1 DEF Verified, Pinned, IInv, WorkInv, NotedAt, CheckComplete, At
    <3>3. UNCHANGED <<kills, faults>>
      BY <2>1 DEF counts
    <3> QED
      BY <1>1, <1>3, <2>1, <3>1, <3>2, <3>3, CompletionMoves
  <2>2. CASE Ends(p, "refused")
    BY <1>4, <2>2
  <2> QED
    BY <1>6, <2>1, <2>2 DEF CheckComplete
<1>7. CASE CheckSync(p)
  <2>1. CASE call' = [call EXCEPT ![p].step = "start", ![p].status = status]
             /\ UNCHANGED <<lock, result, counts>>
    <3>1. Moved(p, "start")
      BY <1>1, <1>2, <2>1, NotesEffect
    <3> QED
      BY <1>5, <1>7, <2>1, <3>1 DEF CheckSync, At
  <2> QED
    BY <1>4, <1>7, <2>1 DEF CheckSync
<1>8. CASE StartCoverage(p) \/ EndCoverage(p) \/ RetainEvidence(p)
  <2>1. ASSUME NEW step \in {"scan", "retain", "final", "switch"}, Goes(p, step)
        PROVE  IInv'
    BY <1>1, <1>2, <1>5, <1>8, <2>1, GoesEffect DEF StartCoverage, EndCoverage, RetainEvidence, At
  <2> QED
    BY <1>4, <1>8, <2>1 DEF StartCoverage, EndCoverage, RetainEvidence
<1>9. ASSUME NEW w \in Workers, ScanWorker(p, w)
      PROVE  IInv'
  <2> DEFINE step == IF DOMAIN call[p].seen \cup {w} = Workers THEN "end" ELSE call[p].step
             value == WithScan(call[p].seen, w)
  <2>1. call[p].step = "scan"
    BY <1>9 DEF ScanWorker, At
  <2>2. CASE call' = [call EXCEPT ![p].seen = value, ![p].step = step]
             /\ UNCHANGED <<lock, result, counts>>
    <3>1. Moved(p, step)
      BY <1>1, <1>2, <2>2, NotesEffect
    <3> QED
      BY <1>5, <2>1, <2>2, <3>1
  <2> QED
    BY <1>4, <1>9, <2>2 DEF ScanWorker
<1> QED
  BY <1>6, <1>7, <1>8, <1>9

LEMMA RollbackKeeps ==
  ASSUME IInv, NEW p \in Owners, Rollback(p)
  PROVE  IInv'
<1>1. /\ call[p].op = "complete" /\ Working(p)
      /\ call[p].step \in {"switch", "restored", "final", "clean", "forget", "record"}
      /\ UNCHANGED <<receiver, maintenance>>
  BY DEF Rollback, SwitchFirst, SwitchRestored, SwitchFinal, RemoveSlots, CompletePlan,
         RecordCompletion, At, Working
<1>2. /\ lock = p /\ CallInv
      /\ \A q \in Owners : ~(lock = q /\ Doing(q, "apply", {"record", "undo", "unlink"}))
  BY <1>1, Holder DEF Doing
<1>3. UNCHANGED <<runtime, backups, receipts, maintenance>>
  BY <1>1 DEF receiver
<1>4. completion = NoReceipt /\ runtime = call[p].repair
      /\ runtime = call[p].runtime /\ config = call[p].config
  BY <1>1 DEF IInv, WorkInv, CompleteAt
<1>5. ASSUME NEW step \in {"sync", "scan", "restored"}, Moved(p, step), UNCHANGED counts,
             UNCHANGED <<plan, slots, completion>>
      PROVE  IInv'
  BY <1>1, <1>3, <1>4, <1>5, CompletionMoves DEF counts
<1>6. ASSUME NEW step \in {"clean", "forget", "record"}, Moved(p, step), UNCHANGED counts,
             completion' = completion, upstream' = "final",
             step \in {"forget", "record"} => ~slots',
             step = "record" => ~plan'
      PROVE  IInv'
  <2>1. Types' /\ ChangesAreRestorable' /\ CompletionNamesTheRuntime' /\ ConfigInv'
    BY <1>2, <1>3, <1>4, <1>6
       DEF IInv, Types, ChangesAreRestorable, CompletionNamesTheRuntime, ConfigInv, maintenance,
           counts
  <2>2. NotedAt(p)' /\ InstallAt(p)' /\ CompleteAt(p)' /\ ApplyAt(p)'
    BY <1>1, <1>3, <1>4, <1>6
       DEF NotedAt, InstallAt, CompleteAt, ApplyAt, Moved, Doing, maintenance
  <2> QED
    BY <1>2, <1>6, <2>1, <2>2, MovedKeeps
<1>7. CASE SwitchFirst(p)
  BY <1>1, <1>2, <1>5, <1>7, GoesEffect DEF SwitchFirst
<1>8. CASE SwitchRestored(p)
  <2>1. Moved(p, IF Reviewed(p) THEN "sync" ELSE "scan")
    BY <1>1, <1>2, <1>8, ChecksEffect DEF SwitchRestored
  <2> QED
    BY <1>5, <1>8, <2>1 DEF SwitchRestored
<1>9. CASE SwitchFinal(p)
  BY <1>1, <1>2, <1>6, <1>9, GoesEffect DEF SwitchFinal
<1>10. CASE RemoveSlots(p)
  <2>1. upstream = "final"
    BY <1>10 DEF IInv, WorkInv, CompleteAt, RemoveSlots, At
  <2> QED
    BY <1>1, <1>2, <1>6, <1>10, <2>1, GoesEffect DEF RemoveSlots
<1>11. CASE CompletePlan(p)
  <2>1. upstream = "final" /\ ~slots
    BY <1>11 DEF IInv, WorkInv, CompleteAt, CompletePlan, At
  <2> QED
    BY <1>1, <1>2, <1>6, <1>11, <2>1, GoesEffect DEF CompletePlan
<1>12. CASE RecordCompletion(p)
  <2>1. upstream = "final" /\ ~slots /\ ~plan
    BY <1>12 DEF IInv, WorkInv, CompleteAt, RecordCompletion, At
  <2>2. Left(p) /\ UNCHANGED counts /\ completion' = Receipt(p) /\ UNCHANGED <<plan, slots, upstream>>
    BY <1>2, <1>12, LeavesEffect DEF RecordCompletion, Ends
  <2>3. config = "old" /\ ~configured
    BY <1>4 DEF IInv, ConfigInv, NoReceipt, Types
  <2>4. completion'.runtime = runtime
    BY <1>4, <2>2 DEF Receipt
  <2>5. Types' /\ ChangesAreRestorable' /\ ConfigInv'
    BY <1>3, <2>2, <2>3 DEF IInv, Types, ChangesAreRestorable, ConfigInv, maintenance, counts
  <2>6. CompletionNamesTheRuntime'
    BY <1>3, <2>1, <2>2, <2>4 DEF CompletionNamesTheRuntime
  <2> QED
    BY <1>2, <2>2, <2>5, <2>6, LeftKeeps
<1> QED
  BY <1>7, <1>8, <1>9, <1>10, <1>11, <1>12 DEF Rollback

LEMMA ApplyKeeps ==
  ASSUME IInv, NEW p \in Owners, Apply(p)
  PROVE  IInv'
<1> USE DEF At
<1>1. /\ call[p].op = "apply" /\ Working(p) /\ UNCHANGED <<receiver, recovery>>
  BY DEF Apply, CheckApply, CopyConfig, WriteConfig, RecordConfig, PlanAgain, RestoreConfig,
         UnlinkReceipt, Working, Keeps
<1>2. /\ lock = p /\ CallInv /\ \A q \in Owners : lock = q => q = p
  BY <1>1, Holder
<1>3. UNCHANGED <<runtime, backups, receipts, recovery>>
  BY <1>1 DEF receiver
<1>4. Types /\ ChangesAreRestorable /\ CompletionNamesTheRuntime /\ ConfigInv
      /\ NotedAt(p) /\ ApplyAt(p)
  BY DEF IInv, WorkInv
<1>5. /\ CompletionNamesTheRuntime' /\ Recovered' = Recovered
  BY <1>3, <1>4 DEF CompletionNamesTheRuntime, Recovered, Parents, recovery
<1>6. ASSUME NEW step \in {"copy", "write", "record", "replan", "undo", "unlink"}, Moved(p, step),
             Types', ChangesAreRestorable', ConfigInv', ApplyAt(p)'
      PROVE  IInv'
  <2>1. NotedAt(p)' /\ InstallAt(p)' /\ CompleteAt(p)'
    BY <1>1, <1>6 DEF NotedAt, InstallAt, CompleteAt, Moved, Doing
  <2> QED
    BY <1>2, <1>5, <1>6, <2>1, MovedKeeps
<1>7. ASSUME NEW how, Ends(p, how), Types', ChangesAreRestorable', ConfigInv'
      PROVE  IInv'
  BY <1>2, <1>5, <1>7, LeavesEffect, LeftKeeps DEF Ends
<1>8. ASSUME NEW step, Goes(p, step)
      PROVE  Moved(p, step) /\ UNCHANGED <<kills, faults, lock>>
  BY <1>1, <1>2, <1>8, GoesEffect DEF counts, Moved, Working
<1>9. CASE CheckApply(p)
  <2>1. UNCHANGED <<config, configured>> /\ call[p].step = "check"
        /\ runtime = call[p].runtime /\ config = call[p].config
    BY <1>1, <1>4, <1>9 DEF CheckApply, NotedAt
  <2>2. ASSUME NEW how, Ends(p, how), UNCHANGED kept
        PROVE  IInv'
    BY <1>2, <1>3, <1>4, <1>7, <2>1, <2>2
       DEF Types, ChangesAreRestorable, ConfigInv, Ends, counts, Doing, recovery
  <2>3. CASE Appliable /\ kept = "none" /\ kept' = "partial" /\ Goes(p, "copy")
    <3>1. Moved(p, "copy") /\ UNCHANGED <<kills, faults, lock>>
      BY <1>8, <2>3
    <3>2. Types' /\ ChangesAreRestorable' /\ ConfigInv'
      BY <1>3, <1>4, <2>1, <2>3, <3>1
         DEF Types, CopyStates, ChangesAreRestorable, ConfigInv, Appliable, recovery
    <3>3. ApplyAt(p)'
      BY <1>3, <1>5, <2>1, <2>3, <3>1 DEF ApplyAt, Appliable, Moved
    <3> QED
      BY <1>6, <3>1, <3>2, <3>3
  <2>4. CASE Appliable /\ kept = "whole" /\ UNCHANGED kept /\ Goes(p, "write")
    <3>1. Moved(p, "write") /\ UNCHANGED <<kills, faults, lock>>
      BY <1>8, <2>4
    <3>2. Types' /\ ChangesAreRestorable' /\ ConfigInv'
      BY <1>3, <1>4, <2>1, <2>4, <3>1
         DEF Types, CopyStates, ChangesAreRestorable, ConfigInv, Appliable, recovery
    <3>3. ApplyAt(p)'
      BY <1>3, <1>5, <2>1, <2>4, <3>1 DEF ApplyAt, Appliable, Moved
    <3> QED
      BY <1>6, <3>1, <3>2, <3>3
  <2> QED
    BY <1>9, <2>2, <2>3, <2>4 DEF CheckApply
<1>10. CASE CopyConfig(p)
  <2>1. Moved(p, "write") /\ UNCHANGED <<kills, faults, lock>> /\ kept' = "whole"
        /\ UNCHANGED <<config, configured>> /\ call[p].step = "copy"
    BY <1>8, <1>10 DEF CopyConfig
  <2>2. Recovered /\ runtime = call[p].runtime /\ call[p].config = "old"
        /\ config = "old" /\ ~configured
    BY <1>1, <1>4, <2>1 DEF ApplyAt, Doing
  <2>3. Types' /\ ChangesAreRestorable' /\ ConfigInv' /\ ApplyAt(p)'
    BY <1>3, <1>4, <1>5, <2>1, <2>2
       DEF Types, CopyStates, ChangesAreRestorable, ConfigInv, recovery, ApplyAt, Moved
  <2> QED
    BY <1>6, <2>1, <2>3
<1>11. CASE WriteConfig(p)
  <2>1. Moved(p, "record") /\ UNCHANGED <<kills, faults, lock>> /\ config' = "new"
        /\ UNCHANGED <<kept, configured>> /\ call[p].step = "write"
    BY <1>8, <1>11 DEF WriteConfig
  <2>2. Recovered /\ runtime = call[p].runtime /\ call[p].config = "old" /\ kept = "whole"
        /\ ~configured
    BY <1>1, <1>4, <2>1 DEF ApplyAt, Doing
  <2>3. Types' /\ ChangesAreRestorable' /\ ConfigInv' /\ ApplyAt(p)'
    BY <1>1, <1>2, <1>3, <1>4, <1>5, <2>1, <2>2
       DEF Types, ChangesAreRestorable, ConfigInv, recovery, ApplyAt, Moved, Doing, Recovered
  <2> QED
    BY <1>6, <2>1, <2>3
<1>12. CASE RecordConfig(p)
  <2>1. Moved(p, "replan") /\ UNCHANGED <<kills, faults, lock>> /\ configured' = TRUE
        /\ UNCHANGED <<kept, config>> /\ call[p].step = "record"
    BY <1>8, <1>12 DEF RecordConfig
  <2>2. Recovered /\ runtime = call[p].runtime /\ call[p].config = "old" /\ kept = "whole"
        /\ config = "new"
    BY <1>1, <1>4, <2>1 DEF ApplyAt, Doing
  <2>3. Types' /\ ChangesAreRestorable' /\ ConfigInv' /\ ApplyAt(p)'
    BY <1>1, <1>2, <1>3, <1>4, <1>5, <2>1, <2>2
       DEF Types, ChangesAreRestorable, ConfigInv, recovery, ApplyAt, Moved, Doing, Recovered
  <2> QED
    BY <1>6, <2>1, <2>3
<1>13. CASE PlanAgain(p)
  <2>1. Applied /\ UNCHANGED <<config, kept, configured>>
    BY <1>1, <1>4, <1>13 DEF ApplyAt, Doing, Applied, PlanAgain, Keeps, maintenance
  <2>2. Ends(p, "done")
    BY <1>13, <2>1 DEF PlanAgain
  <2>3. Types' /\ ChangesAreRestorable' /\ ConfigInv'
    BY <1>3, <1>4, <2>1, <2>2
       DEF Types, ChangesAreRestorable, ConfigInv, recovery, Applied, Ends, counts
  <2> QED
    BY <1>7, <2>2, <2>3
<1>14. CASE RestoreConfig(p)
  <2>1. Moved(p, "unlink") /\ UNCHANGED <<kills, faults, lock>> /\ config' = "old"
        /\ UNCHANGED <<kept, configured>> /\ call[p].step = "undo"
    BY <1>8, <1>14 DEF RestoreConfig
  <2>2. Recovered /\ runtime = call[p].runtime /\ call[p].config = "old" /\ kept = "whole"
        /\ faults >= 1
    BY <1>1, <1>4, <2>1 DEF ApplyAt, Doing
  <2>3. Types' /\ ChangesAreRestorable' /\ ConfigInv' /\ ApplyAt(p)'
    BY <1>1, <1>2, <1>3, <1>4, <1>5, <2>1, <2>2
       DEF Types, ChangesAreRestorable, ConfigInv, recovery, ApplyAt, Moved, Doing, Recovered
  <2> QED
    BY <1>6, <2>1, <2>3
<1>15. CASE UnlinkReceipt(p)
  <2>1. Ends(p, "failed") /\ configured' = FALSE /\ UNCHANGED <<config, kept>>
        /\ config = "old"
    BY <1>1, <1>4, <1>15 DEF UnlinkReceipt, ApplyAt, Doing
  <2>2. Types' /\ ChangesAreRestorable' /\ ConfigInv'
    BY <1>3, <1>4, <2>1 DEF Types, ChangesAreRestorable, ConfigInv, recovery, Ends, counts
  <2> QED
    BY <1>7, <2>1, <2>2
<1> QED
  BY <1>9, <1>10, <1>11, <1>12, <1>13, <1>14, <1>15 DEF Apply

LEMMA FaultKeeps ==
  ASSUME IInv, NEW p \in Owners, Fault(p)
  PROVE  IInv'
<1>1. /\ Working(p) /\ kills' = kills /\ faults' = faults + 1
      /\ FaultInstall(p) \/ FaultComplete(p) \/ FaultApply(p)
  BY DEF Fault, FaultInstall, FaultComplete, FaultApply, Working
<1>2. /\ lock = p /\ CallInv /\ call[p].op # "none" /\ \A q \in Owners : lock = q => q = p
      /\ call[p].op = "install" => call[p].repair \in 1..Repairs
  BY <1>1, Holder
<1>3. Types /\ ChangesAreRestorable /\ CompletionNamesTheRuntime /\ ConfigInv
      /\ NotedAt(p) /\ InstallAt(p) /\ CompleteAt(p) /\ ApplyAt(p)
  BY DEF IInv, WorkInv
<1>4. ASSUME NEW how, Leaves(p, how)
      PROVE  Left(p)
  BY <1>2, <1>4, LeavesEffect
<1>5. ASSUME NEW step, Handles(p, step)
      PROVE  Moved(p, step)
  BY <1>2, <1>5, StepEffect DEF Handles
<1>6. CASE FaultInstall(p)
  <2> DEFINE k == call[p].repair
  <2>1. call[p].op = "install" /\ UNCHANGED <<recovery, maintenance, backups>>
    BY <1>6 DEF FaultInstall
  <2>2. k \in 1..Repairs /\ k \in Nat /\ Repairs \in Nat /\ runtime \in Nat
    BY <1>2, <1>3, <2>1, ChainAssumption DEF Types
  <2>3. ~Doing(p, "apply", {"record", "undo", "unlink"})
    BY <2>1 DEF Doing
  <2>4. ASSUME runtime' \in 0..Repairs, Wholes(runtime'),
               runtime' # runtime => plan
        PROVE  Types' /\ ChangesAreRestorable' /\ CompletionNamesTheRuntime' /\ ConfigInv'
    BY <1>1, <1>2, <1>3, <2>1, <2>3, <2>4
       DEF Types, ChangesAreRestorable, CompletionNamesTheRuntime, ConfigInv, Wholes, recovery,
           maintenance
  <2>5. Wholes(runtime)
    BY <1>3 DEF ChangesAreRestorable, Wholes
  <2>6. CASE call[p].step = "copy" /\ Leaves(p, "failed") /\ UNCHANGED <<runtime, receipts>>
    BY <1>2, <1>3, <1>4, <2>4, <2>5, <2>6, LeftKeeps DEF Types
  <2>7. CASE /\ call[p].step = "activate" /\ Handles(p, "restore")
             /\ runtime' \in {runtime, k} /\ UNCHANGED receipts
    <3>1. plan /\ Wholes(k - 1) /\ backups[k] = "whole" /\ call[p].runtime = k - 1
          /\ runtime = k - 1 /\ config = call[p].config
      BY <1>3, <2>1, <2>7 DEF InstallAt, Doing
    <3>2. Wholes(k)
      BY <2>2, <3>1 DEF Wholes
    <3>3. Types' /\ ChangesAreRestorable' /\ CompletionNamesTheRuntime' /\ ConfigInv'
      BY <1>3, <2>2, <2>4, <2>5, <2>7, <3>1, <3>2 DEF Types
    <3>4. Moved(p, "restore")
      BY <1>5, <2>7
    <3>5. NotedAt(p)' /\ InstallAt(p)' /\ CompleteAt(p)' /\ ApplyAt(p)'
      BY <2>1, <2>2, <2>7, <3>1, <3>4
         DEF NotedAt, InstallAt, CompleteAt, ApplyAt, Moved, Doing, Wholes, recovery, maintenance
    <3> QED
      BY <1>2, <3>3, <3>4, <3>5, MovedKeeps
  <2>8. CASE call[p].step = "receipt" /\ Handles(p, "restore") /\ UNCHANGED runtime
    <3>1. Types' /\ ChangesAreRestorable' /\ CompletionNamesTheRuntime' /\ ConfigInv'
      BY <1>3, <2>4, <2>5, <2>8 DEF Types
    <3>2. Moved(p, "restore")
      BY <1>5, <2>8
    <3>3. NotedAt(p)' /\ InstallAt(p)' /\ CompleteAt(p)' /\ ApplyAt(p)'
      BY <1>3, <2>1, <2>8, <3>2
         DEF NotedAt, InstallAt, CompleteAt, ApplyAt, Moved, Doing, Wholes, recovery, maintenance
    <3> QED
      BY <1>2, <3>1, <3>2, <3>3, MovedKeeps
  <2>9. CASE /\ call[p].step = "restore" /\ Leaves(p, "unrestored")
             /\ runtime' \in {runtime, k - 1} /\ UNCHANGED receipts
    <3>1. plan /\ Wholes(k - 1)
      BY <1>3, <2>1, <2>9 DEF InstallAt, Doing
    <3> QED
      BY <1>2, <1>3, <1>4, <2>2, <2>4, <2>5, <2>9, <3>1, LeftKeeps DEF Types
  <2> QED
    BY <1>6, <2>6, <2>7, <2>8, <2>9 DEF FaultInstall
<1>7. CASE FaultComplete(p)
  <2>1. call[p].op = "complete" /\ Left(p) /\ UNCHANGED <<receiver, maintenance>>
    BY <1>4, <1>7 DEF FaultComplete
  <2>2. UNCHANGED <<runtime, backups, receipts>> /\ ~Doing(p, "apply", {"record", "undo", "unlink"})
    BY <2>1 DEF receiver, Doing
  <2>3. CASE call[p].step = "check"
    <3>1. UNCHANGED recovery
      BY <1>7, <2>3 DEF FaultComplete, recovery
    <3>2. Types' /\ ChangesAreRestorable' /\ CompletionNamesTheRuntime' /\ ConfigInv'
      BY <1>1, <1>2, <1>3, <2>1, <2>2, <3>1
         DEF Types, ChangesAreRestorable, CompletionNamesTheRuntime, ConfigInv, recovery,
             maintenance
    <3> QED
      BY <1>2, <2>1, <3>2, LeftKeeps
  <2>4. CASE call[p].step # "check"
    <3>1. completion = NoReceipt /\ runtime = call[p].repair
          /\ (call[p].step = "record" => upstream = "final" /\ ~slots /\ ~plan)
      BY <1>1, <1>3, <2>1, <2>4 DEF CompleteAt, Working
    <3>2. config = "old" /\ ~configured
      BY <1>3, <3>1 DEF ConfigInv, NoReceipt, Types
    <3>3. Types' /\ ChangesAreRestorable' /\ ConfigInv'
      BY <1>1, <1>3, <2>1, <2>2, <3>2 DEF Types, ChangesAreRestorable, ConfigInv, maintenance
    <3>4. CASE completion' = completion
      BY <1>2, <2>1, <3>1, <3>3, <3>4, LeftKeeps DEF CompletionNamesTheRuntime
    <3>5. CASE completion' = Receipt(p) /\ call[p].step = "record"
      <4>1. completion'.runtime = runtime
        BY <3>1, <3>5 DEF Receipt
      <4>2. UNCHANGED <<upstream, slots, plan>>
        BY <1>7, <3>5 DEF FaultComplete
      <4>3. CompletionNamesTheRuntime'
        BY <2>2, <3>1, <3>5, <4>1, <4>2 DEF CompletionNamesTheRuntime
      <4> QED
        BY <1>2, <2>1, <3>3, <4>3, LeftKeeps
    <3> QED
      BY <1>7, <3>4, <3>5 DEF FaultComplete
  <2> QED
    BY <2>3, <2>4
<1>8. CASE FaultApply(p)
  <2>1. call[p].op = "apply" /\ UNCHANGED <<runtime, backups, receipts, recovery, kept>>
    BY <1>8 DEF FaultApply, receiver
  <2>2. CompletionNamesTheRuntime' /\ Recovered' = Recovered
    BY <1>3, <2>1 DEF CompletionNamesTheRuntime, Recovered, Parents, recovery
  <2>3. call[p].step \in {"copy", "write", "record", "replan", "undo", "unlink"}
    BY <1>8 DEF FaultApply
  <2>4. /\ Recovered /\ completion.reviewed
        /\ runtime = call[p].runtime /\ call[p].config = "old"
        /\ call[p].step # "copy" => kept = "whole"
        /\ call[p].step = "copy" => config = "old" /\ ~configured
        /\ call[p].step \in {"undo", "unlink"} => faults >= 1
    BY <1>3, <2>1, <2>3 DEF ApplyAt, Doing, Recovered
  <2>5. CASE call[p].step = "copy" /\ Leaves(p, "failed") /\ UNCHANGED <<config, configured>>
    <3>1. Types' /\ ChangesAreRestorable' /\ ConfigInv'
      BY <1>1, <1>3, <2>1, <2>4, <2>5 DEF Types, ChangesAreRestorable, ConfigInv, recovery
    <3> QED
      BY <1>2, <1>4, <2>2, <2>5, <3>1, LeftKeeps
  <2>6. CASE /\ call[p].step \in {"write", "record", "replan"} /\ Handles(p, "undo")
             /\ config' \in {config, "new"} /\ configured' \in {configured, TRUE}
    <3>1. Moved(p, "undo")
      BY <1>5, <2>6
    <3>2. Types' /\ ChangesAreRestorable' /\ ConfigInv'
      <4>1. Types'
        <5>1. configured' \in BOOLEAN
          BY <1>3, <2>6 DEF Types
        <5> QED
          BY <1>1, <1>3, <2>1, <2>6, <5>1 DEF Types
      <4>2. ChangesAreRestorable'
        BY <1>3, <2>1, <2>4, <2>6 DEF ChangesAreRestorable
      <4>3. completion'.reviewed
        BY <2>1, <2>4 DEF recovery
      <4>4. lock' = p /\ Doing(p, "apply", {"record", "undo", "unlink"})'
        BY <1>2, <2>1, <3>1 DEF Doing, Moved
      <4> QED
        BY <4>1, <4>2, <4>3, <4>4 DEF ConfigInv
    <3>3. ApplyAt(p)'
      BY <1>1, <1>3, <2>1, <2>2, <2>4, <2>6, <3>1 DEF ApplyAt, Doing, Moved, Types
    <3>4. NotedAt(p)' /\ InstallAt(p)' /\ CompleteAt(p)'
      BY <2>1, <3>1 DEF NotedAt, InstallAt, CompleteAt, Doing, Moved
    <3> QED
      BY <1>2, <2>2, <3>1, <3>2, <3>3, <3>4, MovedKeeps
  <2>7. CASE /\ call[p].step \in {"undo", "unlink"} /\ Leaves(p, "unrestored")
             /\ config' \in {config, "old"} /\ UNCHANGED configured
    <3>1. Types' /\ ChangesAreRestorable' /\ ConfigInv'
      BY <1>1, <1>3, <2>1, <2>4, <2>7 DEF Types, ChangesAreRestorable, ConfigInv, recovery
    <3> QED
      BY <1>2, <1>4, <2>2, <2>7, <3>1, LeftKeeps
  <2> QED
    BY <1>8, <2>5, <2>6, <2>7 DEF FaultApply
<1> QED
  BY <1>1, <1>6, <1>7, <1>8

(* A step of the call of p that touches nothing it or another relies on.   *)
LEMMA OutsideKeeps ==
  ASSUME IInv, NEW p \in Owners, Others(p), UNCHANGED <<receiver, recovery, maintenance, kills, faults>>,
         CallAt(p)', LockAt(p)', NotedAt(p)', ~Working(p), lock' \in {lock, p},
         Working(p)' => call'[p].step = "check",
         lock' # lock => lock = Nobody
  PROVE  IInv'
<1>1. UNCHANGED <<runtime, backups, receipts, plan, slots, upstream, completion, config, kept, configured>>
  BY DEF receiver, recovery, maintenance
<1>2. Recovered' = Recovered
  BY <1>1 DEF Recovered, Parents
<1>3. lock # p /\ \A q \in Owners : q # p => (lock' = q <=> lock = q)
  BY OwnersAssumption DEF IInv, CallInv, LockAt, Nobody
<1>4. InstallAt(p)' /\ CompleteAt(p)' /\ ApplyAt(p)'
  BY DEF Working, InstallAt, CompleteAt, ApplyAt, Doing
<1>5. ASSUME NEW q \in Owners \ {p}
      PROVE  CallAt(q)' /\ LockAt(q)' /\ NotedAt(q)' /\ InstallAt(q)' /\ CompleteAt(q)' /\ ApplyAt(q)'
  <2>1. call'[q] = call[q]
    BY DEF Others
  <2>2. CallAt(q)' /\ LockAt(q)'
    BY <1>3, <2>1 DEF IInv, CallInv, CallAt, LockAt, Working
  <2>3. NotedAt(q) /\ InstallAt(q) /\ CompleteAt(q) /\ ApplyAt(q)
    BY DEF IInv, WorkInv
  <2>4. NotedAt(q)' /\ InstallAt(q)' /\ CompleteAt(q)' /\ ApplyAt(q)'
    BY <1>1, <1>2, <2>1, <2>3 DEF NotedAt, InstallAt, CompleteAt, ApplyAt, Doing, Wholes
  <2> QED
    BY <2>2, <2>4
<1>6. Types' /\ ChangesAreRestorable' /\ CompletionNamesTheRuntime'
  BY <1>1 DEF IInv, Types, ChangesAreRestorable, CompletionNamesTheRuntime
<1>7. ConfigInv'
  <2>1. ASSUME NEW q \in Owners, lock = q, Doing(q, "apply", {"record", "undo", "unlink"})
        PROVE  lock' = q /\ Doing(q, "apply", {"record", "undo", "unlink"})'
    BY <1>3, <2>1 DEF Doing, Others
  <2> QED
    BY <1>1, <2>1 DEF IInv, ConfigInv
<1> QED
  BY <1>4, <1>5, <1>6, <1>7 DEF IInv, CallInv, WorkInv, Others

LEMMA BeginKeeps ==
  ASSUME IInv, NEW p \in Owners, NEW o \in Operations, Begin(p, o)
  PROVE  IInv'
<1>1. /\ call'[p] = [op |-> o.op, repair |-> o.repair, step |-> "lock", phase |-> "verify",
                     started |-> 0, status |-> NoStatus, seen |-> [w \in {} |-> 0],
                     runtime |-> runtime, config |-> config]
      /\ Others(p) /\ call[p].op = "none" /\ lock' = lock
      /\ UNCHANGED <<receiver, recovery, maintenance, kills, faults>>
  BY DEF Begin, Keeps, IInv, CallInv, Others
<1>2. DOMAIN call'[p] = Fields /\ call'[p].op = o.op /\ call'[p].step = "lock"
      /\ call'[p].repair = o.repair
  BY <1>1 DEF Fields
<1>3. o.op \in {"install", "complete", "apply"} /\ (o.op = "install" => o.repair \in 1..Repairs)
  BY DEF Operations
<1>4. CallAt(p)' /\ LockAt(p)' /\ NotedAt(p)' /\ ~Working(p) /\ ~Working(p)'
  BY <1>1, <1>2, <1>3 DEF CallAt, LockAt, NotedAt, Working, IInv, CallInv
<1> QED
  BY <1>1, <1>4, OutsideKeeps

LEMMA LockKeeps ==
  ASSUME IInv, NEW p \in Owners, Lock(p)
  PROVE  IInv'
<1>1. call[p].op # "none" /\ call[p].step = "lock" /\ UNCHANGED <<receiver, recovery, maintenance, kills, faults>>
      /\ CallInv /\ lock # p /\ ~Working(p)
  BY DEF Lock, Keeps, counts, IInv, CallInv, LockAt, Working
<1>2. DOMAIN call[p] = Fields /\ CallAt(p)
  BY <1>1, IdleFields DEF CallInv, CallAt
<1>3. CASE lock = Nobody
  <2> DEFINE first == [call[p] EXCEPT !.step = "check"]
             second == [first EXCEPT !.runtime = runtime]
  <2>1. lock' = p /\ call'[p] = [second EXCEPT !.config = config] /\ Others(p)
    BY <1>1, <1>3 DEF Lock, CallInv, Others
  <2>2. "step" \in Fields /\ "op" \in Fields /\ "repair" \in Fields /\ "runtime" \in Fields
        /\ "config" \in Fields
    BY DEF Fields
  <2>3. DOMAIN first = Fields /\ first.step = "check" /\ first.op = call[p].op
        /\ first.repair = call[p].repair
    BY <1>2, <2>2
  <2> HIDE DEF first
  <2>4. DOMAIN second = Fields /\ second.step = "check" /\ second.op = call[p].op
        /\ second.repair = call[p].repair /\ second.runtime = runtime
    BY <2>2, <2>3
  <2> HIDE DEF second
  <2>5. /\ DOMAIN call'[p] = Fields /\ call'[p].step = "check" /\ call'[p].op = call[p].op
        /\ call'[p].repair = call[p].repair /\ call'[p].runtime = runtime /\ call'[p].config = config
    BY <2>1, <2>2, <2>4
  <2>6. CallAt(p)'
    BY <1>1, <1>2, <2>5, IdleFields DEF CallAt
  <2>7. LockAt(p)' /\ NotedAt(p)'
    BY <1>1, <2>1, <2>5 DEF LockAt, NotedAt, Working, receiver, maintenance
  <2> QED
    BY <1>1, <1>3, <2>1, <2>5, <2>6, <2>7, OutsideKeeps
<1>4. CASE lock # Nobody
  <2>1. Left(p)
    BY <1>1, <1>4, LeavesEffect DEF Lock
  <2>2. CallAt(p)' /\ LockAt(p)' /\ NotedAt(p)' /\ ~Working(p)'
    BY <1>1, <2>1, IdleFields DEF Left, CallAt, LockAt, NotedAt, Working
  <2> QED
    BY <1>1, <2>1, <2>2, OutsideKeeps DEF Left
<1> QED
  BY <1>3, <1>4

LEMMA KillKeeps ==
  ASSUME IInv, NEW p \in Owners, Kill(p)
  PROVE  IInv'
<1>1. CallInv /\ Left(p) /\ kills' = kills + 1 /\ faults' = faults
      /\ UNCHANGED <<receiver, recovery, maintenance>> /\ call[p].op # "none"
  BY LeavesEffect DEF IInv, Kill, Keeps
<1>2. UNCHANGED <<runtime, backups, receipts, plan, slots, upstream, completion, config, kept, configured>>
  BY <1>1 DEF receiver, recovery, maintenance
<1>3. Types' /\ ChangesAreRestorable' /\ CompletionNamesTheRuntime'
  BY <1>1, <1>2 DEF IInv, Types, ChangesAreRestorable, CompletionNamesTheRuntime
<1>4. ConfigInv'
  <2>1. kills' > 0
    BY <1>1 DEF IInv, Types
  <2> QED
    BY <1>2, <2>1 DEF IInv, ConfigInv
<1>5. CASE lock = p
  BY <1>1, <1>3, <1>4, <1>5, LeftKeeps
<1>6. CASE lock # p
  <2>1. Others(p) /\ call'[p] = Idle /\ lock' = lock
    BY <1>1, <1>6 DEF Left
  <2>2. Recovered' = Recovered
    BY <1>2 DEF Recovered, Parents
  <2>3. ASSUME NEW q \in Owners \ {p}
        PROVE  CallAt(q)' /\ LockAt(q)' /\ NotedAt(q)' /\ InstallAt(q)' /\ CompleteAt(q)' /\ ApplyAt(q)'
    <3>1. call'[q] = call[q]
      BY <2>1 DEF Others
    <3>2. CallAt(q)' /\ LockAt(q)'
      BY <2>1, <3>1 DEF CallInv, IInv, CallAt, LockAt, Working
    <3>3. NotedAt(q) /\ InstallAt(q) /\ CompleteAt(q) /\ ApplyAt(q)
      BY DEF IInv, WorkInv
    <3>4. NotedAt(q)' /\ InstallAt(q)' /\ CompleteAt(q)' /\ ApplyAt(q)'
      BY <1>1, <1>2, <2>2, <3>1, <3>3 DEF NotedAt, InstallAt, CompleteAt, ApplyAt, Doing, Wholes
    <3> QED
      BY <3>2, <3>4
  <2>4. CallAt(p)' /\ LockAt(p)' /\ NotedAt(p)' /\ InstallAt(p)' /\ CompleteAt(p)' /\ ApplyAt(p)'
    BY <1>6, <2>1, IdleFields
       DEF CallAt, LockAt, Working, NotedAt, InstallAt, CompleteAt, ApplyAt, Doing
  <2> QED
    BY <1>3, <1>4, <2>1, <2>3, <2>4 DEF IInv, CallInv, WorkInv, Others
<1> QED
  BY <1>5, <1>6

LEMMA ProductionKeeps ==
  ASSUME IInv, UNCHANGED <<receiver, recovery, maintenance, calling, kills, faults>>
  PROVE  IInv'
<1>1. UNCHANGED <<runtime, backups, receipts, plan, slots, upstream, completion, config, kept,
                  configured, lock, call>>
  BY DEF receiver, recovery, maintenance, calling
<1>2. Recovered' = Recovered
  BY <1>1 DEF Recovered, Parents
<1>3. Types' /\ ChangesAreRestorable' /\ CompletionNamesTheRuntime' /\ ConfigInv'
  BY <1>1 DEF IInv, Types, ChangesAreRestorable, CompletionNamesTheRuntime, ConfigInv, Doing
<1>4. CallInv'
  BY <1>1 DEF IInv, CallInv, CallAt, LockAt, Working
<1>5. WorkInv'
  BY <1>1, <1>2 DEF IInv, WorkInv, NotedAt, InstallAt, CompleteAt, ApplyAt, Doing, Wholes
<1> QED
  BY <1>3, <1>4, <1>5 DEF IInv

LEMMA Step == IInv /\ [Next]_vars => IInv'
<1> SUFFICES ASSUME IInv, [Next]_vars PROVE IInv'
  OBVIOUS
<1>1. CASE Environment \/ UNCHANGED vars
  BY <1>1, ProductionKeeps
     DEF Environment, Tick, Sync, Rotate, Replace, Report, vars, counts
<1>2. ASSUME NEW p \in Owners, Call(p) \/ Fault(p) \/ Kill(p)
      PROVE  IInv'
  BY <1>2, BeginKeeps, LockKeeps, InstallKeeps, ChecksKeep, RollbackKeeps, ApplyKeeps, FaultKeeps,
     KillKeeps DEF Call, Complete
<1> QED
  BY <1>1, <1>2 DEF Next

LEMMA Start == Init => IInv
<1> SUFFICES ASSUME Init PROVE IInv
  OBVIOUS
<1> USE DEF Init
<1>1. Types
  BY ChainAssumption DEF Types, CopyStates
<1>2. CallInv
  BY OwnersAssumption, IdleFields DEF CallInv, CallAt, LockAt, Working, Nobody
<1>3. WorkInv
  BY IdleFields DEF WorkInv, NotedAt, InstallAt, CompleteAt, ApplyAt, Doing
<1>4. ChangesAreRestorable /\ CompletionNamesTheRuntime /\ ConfigInv
  BY ChainAssumption DEF ChangesAreRestorable, CompletionNamesTheRuntime, ConfigInv
<1> QED
  BY <1>1, <1>2, <1>3, <1>4 DEF IInv

-----------------------------------------------------------------------------
(* Whatever is killed or fails, the bytes a repair or the maintenance      *)
(* replaced are in a complete backup while the new ones are in place.      *)
THEOREM BackupsStay == Spec => []ChangesAreRestorable
<1>1. IInv => ChangesAreRestorable
  BY DEF IInv
<1> QED
  BY <1>1, Start, Step, PTL DEF Spec

(* The completion's receipt names the receiver that is installed; the      *)
(* configuration changes only after it, and with its receipt.              *)
THEOREM RecordsStayTrue == Spec => []RecordsAreTrue
<1>1. IInv => RecordsAreTrue
  <2> SUFFICES ASSUME IInv PROVE RecordsAreTrue
    OBVIOUS
  <2>1. \A p \in Owners : lock = Nobody => lock # p
    BY OwnersAssumption DEF Nobody
  <2> QED
    BY <2>1 DEF IInv, RecordsAreTrue, ConfigInv, ConfigFollowsCompletion, Types
<1> QED
  BY <1>1, Start, Step, PTL DEF Spec

-----------------------------------------------------------------------------
(* A call that ends with a failure.                                        *)
LEMMA MovedIsNotIdle ==
  ASSUME NEW p \in Owners, call[p].op # "none", NEW step, Moved(p, step)
  PROVE  call'[p] # Idle
BY IdleFields DEF Moved

LEMMA OwnCallFails ==
  ASSUME IInv, NEW p \in Owners, lock = p, call'[p] = Idle, result' = "failed",
         Call(p) \/ Fault(p) \/ Kill(p)
  PROVE  runtime' = call[p].runtime /\ config' = call[p].config
<1> USE DEF At, Doing
<1>1. Working(p) /\ CallInv /\ call[p].op # "none"
  BY IdleFields DEF IInv, CallInv, CallAt, LockAt, Working
<1>2. NotedAt(p) /\ InstallAt(p) /\ CompleteAt(p) /\ ApplyAt(p)
  BY DEF IInv, WorkInv
<1>3. ASSUME NEW step, call' = [call EXCEPT ![p].step = step], lock' = lock
      PROVE  FALSE
  BY <1>1, <1>3, StepEffect, MovedIsNotIdle
<1>4. ASSUME NEW step, Goes(p, step)
      PROVE  FALSE
  BY <1>3, <1>4 DEF Goes
<1>5. ~(\E o \in Operations : Begin(p, o)) /\ ~Lock(p) /\ ~Kill(p)
  BY <1>1 DEF Begin, Lock, Kill, Leaves, Working
<1>6. CASE Install(p)
  <2>1. RestoreFile(p)
    BY <1>4, <1>6 DEF Install, CheckInstall, CopyInstall, Activate, RecordInstall, Ends, Leaves
  <2> QED
    BY <1>2, <2>1 DEF RestoreFile, InstallAt, maintenance
<1>7. CASE Complete(p)
  <2>1. ~Rollback(p)
    <3>1. ~SwitchRestored(p)
      BY <1>1, ChecksEffect, MovedIsNotIdle DEF SwitchRestored
    <3>2. ~RecordCompletion(p)
      BY DEF RecordCompletion, Ends, Leaves
    <3> QED
      BY <1>4, <3>1, <3>2 DEF Rollback, SwitchFirst, SwitchFinal, RemoveSlots, CompletePlan
  <2>2. ~CheckComplete(p)
    <3>1. CASE call' = [call EXCEPT ![p] =
                          [Checks(p) EXCEPT !.started = IF Reviewed(p) THEN now ELSE 0]]
               /\ UNCHANGED <<lock, result, counts>>
      BY <1>1, <3>1, ChecksEffect, MovedIsNotIdle
    <3>2. ~Ends(p, "refused")
      BY DEF Ends, Leaves
    <3> QED
      BY <3>1, <3>2 DEF CheckComplete
  <2>3. call[p].op = "complete" /\ call[p].step \notin {"lock", "check"} /\ Keeps
    BY <1>7, <2>1, <2>2
       DEF Complete, CheckSync, StartCoverage, EndCoverage, ScanWorker, RetainEvidence
  <2> QED
    BY <1>2, <2>3 DEF CompleteAt, Keeps, receiver, maintenance
<1>8. CASE Apply(p)
  <2>1. UnlinkReceipt(p)
    BY <1>4, <1>8 DEF Apply, CheckApply, CopyConfig, WriteConfig, RecordConfig, PlanAgain,
                      RestoreConfig, Ends, Leaves
  <2> QED
    BY <1>2, <2>1 DEF UnlinkReceipt, ApplyAt, receiver
<1>9. CASE Fault(p)
  <2>1. CASE FaultInstall(p)
    <3>1. call[p].op = "install" /\ call[p].step = "copy" /\ UNCHANGED <<runtime, config>>
      BY <1>3, <2>1 DEF FaultInstall, Handles, Leaves, maintenance
    <3> QED
      BY <1>2, <3>1 DEF InstallAt
  <2>2. CASE FaultComplete(p)
    <3>1. call[p].op = "complete" /\ call[p].step # "lock" /\ UNCHANGED <<runtime, config>>
      BY <2>2 DEF FaultComplete, receiver, maintenance
    <3> QED
      BY <1>2, <3>1 DEF CompleteAt, NotedAt
  <2>3. CASE FaultApply(p)
    <3>1. call[p].op = "apply" /\ call[p].step = "copy" /\ UNCHANGED <<runtime, config>>
      BY <1>3, <2>3 DEF FaultApply, Handles, Leaves, receiver
    <3> QED
      BY <1>2, <3>1 DEF ApplyAt
  <2> QED
    BY <1>9, <2>1, <2>2, <2>3 DEF Fault
<1> QED
  BY <1>5, <1>6, <1>7, <1>8, <1>9 DEF Call

(* A step of another owner is not the end of the holder's call.            *)
LEMMA OtherCalls ==
  ASSUME IInv, NEW p \in Owners, NEW q \in Owners, p # q, Call(q) \/ Fault(q) \/ Kill(q)
  PROVE  call'[p] = call[p]
<1>1. DOMAIN call = Owners
  BY DEF IInv, CallInv
<1>2. CASE Call(q)
  BY <1>1, <1>2
     DEF Call, Begin, Lock, Install, CheckInstall, CopyInstall, Activate, RecordInstall,
         RestoreFile, Complete, CheckComplete, CheckSync, StartCoverage, EndCoverage, ScanWorker,
         RetainEvidence, Rollback, SwitchFirst, SwitchRestored, SwitchFinal, RemoveSlots,
         CompletePlan, RecordCompletion, Apply, CheckApply, CopyConfig, WriteConfig,
         RecordConfig, PlanAgain, RestoreConfig, UnlinkReceipt, Goes, Ends, Leaves
<1>3. CASE Fault(q) \/ Kill(q)
  BY <1>1, <1>3 DEF Fault, FaultInstall, FaultComplete, FaultApply, Handles, Kill, Leaves
<1> QED
  BY <1>2, <1>3

(* A call that reports a failure, and no failed restoration, has left the  *)
(* receiver's file and configuration as it found them.                     *)
THEOREM FailuresRestore == Spec => FailureRestores
<1> DEFINE Restores == \A p \in Owners :
             lock = p /\ call'[p] = Idle /\ result' = "failed" =>
               runtime' = call[p].runtime /\ config' = call[p].config
<1>1. IInv /\ [Next]_vars => [Restores]_vars
  <2> SUFFICES ASSUME IInv, Next, NEW p \in Owners, lock = p, call'[p] = Idle, result' = "failed"
               PROVE  runtime' = call[p].runtime /\ config' = call[p].config
    OBVIOUS
  <2>1. call'[p] # call[p]
    BY IdleFields DEF IInv, CallInv, LockAt, Working
  <2>2. ~Environment
    BY <2>1 DEF Environment, Tick, Sync, Rotate, Replace, Report, calling
  <2>3. PICK q \in Owners : Call(q) \/ Fault(q) \/ Kill(q)
    BY <2>2 DEF Next
  <2>4. q = p
    BY <2>1, <2>3, OtherCalls
  <2> QED
    BY <2>3, <2>4, OwnCallFails
<1> QED
  BY <1>1, Start, Step, PTL DEF Spec, FailureRestores

-----------------------------------------------------------------------------
(***************************************************************************)
(* What the scan of a log means.  A scan reads batches, a batch its        *)
(* records; both are folds.  A series of states is enough to follow one,   *)
(* with what a reader has seen of the ordinary records as its invariant.   *)
(***************************************************************************)
(* The records of a records in their order.                                *)
Ordered(records) ==
  /\ Len(records) \in Nat /\ DOMAIN records = 1..Len(records)
  /\ \A i \in DOMAIN records : records[i].at \in Nat
  /\ \A i, j \in DOMAIN records : i <= j => records[i].at <= records[j].at

Counted(records, D, t) == {j \in D : records[j].kind = "assets" /\ records[j].at = t}
Named(records, D, t) == {records[j].of : j \in {j \in D : records[j].kind = "missing" /\ records[j].at = t}}
Timely(records, i, status0, started) ==
  \/ records[i].kind = "info"
  \/ /\ records[i].at < started
     /\ \/ records[i].kind = "task" /\ records[i].at < status0.task
        \/ records[i].kind \in {"missing", "assets"} /\ records[i].at < status0.assets
        \/ records[i].kind = "limit" /\ MayLimit

(* What a review has seen of the positions D.                              *)
Tally(records, D, incident) ==
  /\ DOMAIN incident = {"at", "characters", "consumed"}
  /\ incident.at \in Nat \cup {-1}
  /\ incident.characters = Named(records, D, incident.at)
  /\ incident.consumed = Cardinality(Counted(records, D, incident.at))
  /\ \A i \in D : records[i].kind \in {"missing", "assets"} => records[i].at <= incident.at
  /\ incident.at = -1 \/ \E i \in D : records[i].at = incident.at
Balanced(records, D) ==
  \A t \in Nat : Cardinality(Counted(records, D, t)) <= Cardinality(Named(records, D, t))
Tallied(records, D, incident, status0, started) ==
  /\ Tally(records, D, incident) /\ Balanced(records, D)
  /\ \A i \in D : Timely(records, i, status0, started)

(* Division by the size of a batch keeps the order.                        *)
LEMMA Div ==
  ASSUME NEW a \in Nat, NEW b \in Nat, a <= b, NEW d \in Nat \ {0}
  PROVE  a \div d \in Nat /\ a \div d <= a /\ a \div d <= b \div d
OBVIOUS

(* One more record changes the counts of its own second and kind alone.    *)
LEMMA CountedMore ==
  ASSUME NEW records, NEW D, NEW i, NEW t, records[i].kind = "assets", records[i].at = t
  PROVE  Counted(records, D \cup {i}, t) = Counted(records, D, t) \cup {i}
BY DEF Counted

LEMMA CountedSame ==
  ASSUME NEW records, NEW D, NEW i, NEW t, ~(records[i].kind = "assets" /\ records[i].at = t)
  PROVE  Counted(records, D \cup {i}, t) = Counted(records, D, t)
BY DEF Counted

(* Nor the characters of another.                                          *)
LEMMA NamedSame ==
  ASSUME NEW records, NEW D, NEW i, NEW t, ~(records[i].kind = "missing" /\ records[i].at = t)
  PROVE  Named(records, D \cup {i}, t) = Named(records, D, t)
<1>1. PICK S : S = {j \in D : records[j].kind = "missing" /\ records[j].at = t}
  OBVIOUS
<1>2. {j \in D \cup {i} : records[j].kind = "missing" /\ records[j].at = t} = S
  BY <1>1
<1> QED BY <1>1, <1>2, Zenon DEF Named

(* The counts of a finite set of records are numbers.                      *)
LEMMA Finite ==
  ASSUME NEW records, NEW D, IsFiniteSet(D), NEW t
  PROVE  /\ IsFiniteSet(Counted(records, D, t)) /\ IsFiniteSet(Named(records, D, t))
         /\ Cardinality(Counted(records, D, t)) \in Nat /\ Cardinality(Named(records, D, t)) \in Nat
<1>1. IsFiniteSet(Counted(records, D, t))
  BY FS_Subset DEF Counted
<1>2. PICK S : S = {j \in D : records[j].kind = "missing" /\ records[j].at = t}
  OBVIOUS
<1>3. IsFiniteSet(S)
  BY <1>2, FS_Subset
<1>4. Named(records, D, t) = {records[j].of : j \in S}
  BY <1>2 DEF Named
<1>5. IsFiniteSet({records[j].of : j \in S})
  <2>1. PICK f : f = [j \in S |-> records[j].of]
    OBVIOUS
  <2>2. PICK T : T = {records[j].of : j \in S}
    OBVIOUS
  <2>3. f \in Surjection(S, T)
    BY <2>1, <2>2 DEF Surjection
  <2> QED BY <1>3, <2>2, <2>3, FS_Surjection
<1> QED BY <1>1, <1>4, <1>5, FS_CardinalityType

(* One more record that is not refused.                                    *)
Reading(records, D, i) ==
  /\ Ordered(records) /\ D \subseteq DOMAIN records /\ i \in DOMAIN records
  /\ (\A j \in D : j < i) /\ ~Relevant(records[i])

(* Only finitely many records were read.                                   *)
LEMMA ReadingFinite ==
  ASSUME NEW records, NEW D, NEW i, Reading(records, D, i)
  PROVE  i \notin D /\ IsFiniteSet(D)
<1>1. PICK n \in Nat : n = Len(records)
  BY DEF Reading, Ordered
<1>2. IsFiniteSet(1..n) /\ DOMAIN records = 1..n
  BY <1>1, FS_Interval DEF Reading, Ordered
<1>3. IsFiniteSet(D)
  BY <1>2, FS_Subset DEF Reading
<1>4. i \in Nat
  BY <1>2 DEF Reading
<1> QED BY <1>3, <1>4 DEF Reading

(* A record that is read without a refusal is timely.                      *)
LEMMA ReadTimely ==
  ASSUME NEW records, NEW i, ~Relevant(records[i]), NEW incident, NEW status0, NEW started,
         Accepts(records[i], incident, status0, started) \/ ~Strict(records[i])
  PROVE  Timely(records, i, status0, started)
BY DEF Relevant, Accepts, Strict, Timely

(* How a record that is read keeps the tally: neither a 404 nor a failed   *)
(* assets task; a failed assets task; a 404.                               *)
LEMMA ReadOther ==
  ASSUME NEW records, NEW D, NEW i, records[i].kind \notin {"missing", "assets"},
         NEW incident, Tally(records, D, incident), Balanced(records, D)
  PROVE  Tally(records, D \cup {i}, incident) /\ Balanced(records, D \cup {i})
<1>1. ASSUME NEW t
      PROVE  /\ Counted(records, D \cup {i}, t) = Counted(records, D, t)
             /\ Named(records, D \cup {i}, t) = Named(records, D, t)
  <2>1. ~(records[i].kind = "assets" /\ records[i].at = t)
        /\ ~(records[i].kind = "missing" /\ records[i].at = t)
    OBVIOUS
  <2>2. Counted(records, D \cup {i}, t) = Counted(records, D, t)
    BY ONLY <2>1, CountedSame
  <2>3. Named(records, D \cup {i}, t) = Named(records, D, t)
    BY ONLY <2>1, NamedSame
  <2> QED BY <2>2, <2>3
<1>2. Balanced(records, D \cup {i})
  BY <1>1 DEF Balanced
<1>3. Tally(records, D \cup {i}, incident)
  BY <1>1 DEF Tally
<1> QED BY <1>2, <1>3

LEMMA ReadAssets ==
  ASSUME NEW records, NEW D, NEW i, Reading(records, D, i), records[i].kind = "assets",
         NEW incident, Tally(records, D, incident), Balanced(records, D),
         incident.at = records[i].at, incident.consumed < Cardinality(incident.characters),
         NEW next, next = [incident EXCEPT !.consumed = @ + 1]
  PROVE  Tally(records, D \cup {i}, next) /\ Balanced(records, D \cup {i})
<1>1. /\ DOMAIN next = {"at", "characters", "consumed"} /\ next.at = incident.at
      /\ next.characters = incident.characters /\ next.consumed = incident.consumed + 1
  BY DEF Tally
<1>2. i \notin D /\ IsFiniteSet(D)
  BY ReadingFinite DEF Reading, Ordered
<1>3. ASSUME NEW t
      PROVE  Named(records, D \cup {i}, t) = Named(records, D, t)
  <2>1. ~(records[i].kind = "missing" /\ records[i].at = t)
    OBVIOUS
  <2> QED BY ONLY <2>1, NamedSame
<1>4. ASSUME NEW t, t # records[i].at
      PROVE  Counted(records, D \cup {i}, t) = Counted(records, D, t)
  <2>1. ~(records[i].kind = "assets" /\ records[i].at = t)
    BY <1>4
  <2> QED BY ONLY <2>1, CountedSame
<1>5. PICK C : C = Counted(records, D, records[i].at)
  OBVIOUS
<1>6. Counted(records, D \cup {i}, records[i].at) = C \cup {i} /\ i \notin C
  BY <1>2, <1>5, CountedMore DEF Counted
<1>7. IsFiniteSet(C) /\ Cardinality(C) \in Nat
  BY <1>2, <1>5, Finite
<1>8. Cardinality(C \cup {i}) = Cardinality(C) + 1
  BY <1>6, <1>7, FS_AddElement
<1>9. Tally(records, D \cup {i}, next)
  <2>1. next.characters = Named(records, D \cup {i}, next.at)
    BY <1>1, <1>3 DEF Tally
  <2>2. next.consumed = Cardinality(Counted(records, D \cup {i}, next.at))
    BY <1>1, <1>5, <1>6, <1>8 DEF Tally
  <2>3. records[i].at <= next.at
    BY <1>1 DEF Reading, Ordered
  <2> QED BY <1>1, <2>1, <2>2, <2>3 DEF Tally
<1>10. Balanced(records, D \cup {i})
  <2>1. PICK at : at = records[i].at
    OBVIOUS
  <2>2. Cardinality(Counted(records, D \cup {i}, at)) = Cardinality(C) + 1
    BY <1>6, <1>8, <2>1
  <2>3. Cardinality(Named(records, D, at)) \in Nat
    BY <1>2, Finite
  <2>4. Cardinality(C) < Cardinality(Named(records, D, at))
    BY <1>5, <2>1 DEF Tally
  <2>5. Cardinality(C) + 1 <= Cardinality(Named(records, D, at))
    BY <1>7, <2>3, <2>4
  <2> QED BY <1>3, <1>4, <2>1, <2>2, <2>5 DEF Balanced
<1> QED BY <1>9, <1>10

LEMMA ReadMissing ==
  ASSUME NEW records, NEW D, NEW i, Reading(records, D, i), records[i].kind = "missing",
         NEW incident, Tally(records, D, incident), Balanced(records, D),
         NEW next, next = Retained(records[i], incident)
  PROVE  Tally(records, D \cup {i}, next) /\ Balanced(records, D \cup {i})
<1> DEFINE old == Named(records, D, records[i].at)
           new == old \cup {records[i].of}
<1>1. i \notin D /\ IsFiniteSet(D) /\ records[i].at \in Nat
  BY ReadingFinite DEF Reading, Ordered
<1>2. ASSUME NEW t
      PROVE  Counted(records, D \cup {i}, t) = Counted(records, D, t)
  <2>1. ~(records[i].kind = "assets" /\ records[i].at = t)
    OBVIOUS
  <2> QED BY ONLY <2>1, CountedSame
<1>3. ASSUME NEW t, t # records[i].at
      PROVE  Named(records, D \cup {i}, t) = Named(records, D, t)
  <2>1. ~(records[i].kind = "missing" /\ records[i].at = t)
    BY <1>3
  <2> QED BY ONLY <2>1, NamedSame
<1>4. Named(records, D \cup {i}, records[i].at) = new
  BY DEF Named
<1>5. Balanced(records, D \cup {i})
  <2>1. \A t \in Nat : /\ Cardinality(Counted(records, D, t)) <= Cardinality(Named(records, D, t))
                       /\ Cardinality(Counted(records, D, t)) \in Nat
                       /\ Cardinality(Named(records, D, t)) \in Nat
    BY <1>1, Finite DEF Balanced
  <2>2. IsFiniteSet(old)
    BY <1>1, Finite
  <2>3. Cardinality(new) = IF records[i].of \in old THEN Cardinality(old) ELSE Cardinality(old) + 1
    BY <2>2, FS_AddElement
  <2>4. Cardinality(new) >= Cardinality(old) /\ Cardinality(new) \in Nat
    BY <1>1, <2>1, <2>3
  <2>5. Cardinality(Counted(records, D, records[i].at)) <= Cardinality(new)
    BY <1>1, <2>1, <2>4
  <2>6. ASSUME NEW t \in Nat
        PROVE  Cardinality(Counted(records, D \cup {i}, t)) <= Cardinality(Named(records, D \cup {i}, t))
    <3>1. CASE t = records[i].at
      BY <1>2, <1>4, <2>5, <3>1
    <3>2. CASE t # records[i].at
      BY <1>2, <1>3, <2>1, <3>2
    <3> QED BY <3>1, <3>2
  <2> QED BY <2>6 DEF Balanced
<1>6. Tally(records, D \cup {i}, next)
  <2>1. CASE incident.at = records[i].at
    <3>1. next = [incident EXCEPT !.characters = @ \cup {records[i].of}]
      BY <2>1 DEF Retained
    <3>2. /\ DOMAIN next = {"at", "characters", "consumed"} /\ next.at = records[i].at
          /\ next.characters = incident.characters \cup {records[i].of}
          /\ next.consumed = incident.consumed
      BY <2>1, <3>1 DEF Tally
    <3>3. next.characters = Named(records, D \cup {i}, next.at)
      BY <1>4, <2>1, <3>2 DEF Tally
    <3>4. next.consumed = Cardinality(Counted(records, D \cup {i}, next.at))
      BY <1>2, <2>1, <3>2 DEF Tally
    <3> QED BY <1>1, <2>1, <3>2, <3>3, <3>4 DEF Tally
  <2>2. CASE incident.at # records[i].at
    <3>1. next = [at |-> records[i].at, characters |-> {records[i].of}, consumed |-> 0]
      BY <2>2 DEF Retained
    <3>2. \A j \in D : records[j].at \in Nat /\ records[j].at <= records[i].at
      BY DEF Reading, Ordered
    <3>3. incident.at < records[i].at
      BY <1>1, <2>2, <3>2 DEF Tally
    <3>4. \A j \in D : records[j].kind \in {"missing", "assets"} => records[j].at # records[i].at
      BY <1>1, <3>2, <3>3 DEF Tally
    <3>5. Counted(records, D, records[i].at) = {} /\ old = {}
      BY <3>4 DEF Counted, Named
    <3>6. next.characters = Named(records, D \cup {i}, next.at)
      <4>1. new = {records[i].of}
        BY <3>5
      <4>2. next.at = records[i].at /\ next.characters = {records[i].of}
        BY <3>1
      <4> QED BY <1>4, <4>1, <4>2
    <3>7. next.consumed = Cardinality(Counted(records, D \cup {i}, next.at))
      BY <1>2, <3>1, <3>5, FS_EmptySet
    <3>8. DOMAIN next = {"at", "characters", "consumed"} /\ next.at = records[i].at
      BY <3>1
    <3>9. \A j \in D \cup {i} : records[j].at <= next.at
      BY <1>1, <3>2, <3>8
    <3>10. next.at \in Nat /\ \E j \in D \cup {i} : records[j].at = next.at
      BY <1>1, <3>8
    <3> HIDE DEF old, new
    <3> QED BY <3>6, <3>7, <3>8, <3>9, <3>10 DEF Tally
  <2> QED BY <2>1, <2>2
<1> QED BY <1>5, <1>6

(* A reader's state.                                                       *)
IsReading(state) == DOMAIN state = {"incident", "refused"} /\ state.refused \in BOOLEAN

(* A record more of a batch.                                               *)
LEMMA ReadOn ==
  ASSUME NEW records, NEW D, NEW i, Reading(records, D, i), NEW state, IsReading(state),
         NEW status0, NEW started,
         ~state.refused => Tallied(records, D, state.incident, status0, started),
         NEW next, next = Read(state, records[i], status0, started)
  PROVE  /\ IsReading(next)
         /\ ~next.refused => Tallied(records, D \cup {i}, next.incident, status0, started)
<1>1. CASE Accepts(records[i], state.incident, status0, started)
  <2>1. PICK r : r = Retained(records[i], state.incident)
    OBVIOUS
  <2>2. next = [state EXCEPT !.incident = r]
    BY <1>1, <2>1 DEF Read
  <2>3. IsReading(next) /\ next.refused = state.refused /\ next.incident = r
    BY <2>2 DEF IsReading
  <2>4. ASSUME ~next.refused
        PROVE  Tallied(records, D \cup {i}, r, status0, started)
    <3>1. /\ Tally(records, D, state.incident) /\ Balanced(records, D)
          /\ \A j \in D : Timely(records, j, status0, started)
      BY <2>3, <2>4 DEF Tallied
    <3>2. Timely(records, i, status0, started)
      BY <1>1, ReadTimely DEF Reading
    <3>3. CASE records[i].kind = "missing"
      <4>1. Tally(records, D \cup {i}, r) /\ Balanced(records, D \cup {i})
        BY <2>1, <3>1, <3>3, ReadMissing
      <4> QED BY <3>1, <3>2, <4>1 DEF Tallied
    <3>4. CASE records[i].kind = "assets"
      <4>1. r = [state.incident EXCEPT !.consumed = @ + 1]
        BY <2>1, <3>4 DEF Retained
      <4>2. /\ state.incident.at = records[i].at
            /\ state.incident.consumed < Cardinality(state.incident.characters)
        BY <1>1, <3>4 DEF Accepts
      <4>3. Tally(records, D \cup {i}, r) /\ Balanced(records, D \cup {i})
        BY <3>1, <3>4, <4>1, <4>2, ReadAssets
      <4> QED BY <3>1, <3>2, <4>3 DEF Tallied
    <3>5. CASE records[i].kind \notin {"missing", "assets"}
      <4>1. r = state.incident
        BY <2>1, <3>5 DEF Retained
      <4>2. Tally(records, D \cup {i}, r) /\ Balanced(records, D \cup {i})
        BY <3>1, <3>5, <4>1, ReadOther
      <4> QED BY <3>1, <3>2, <4>2 DEF Tallied
    <3> QED BY <3>3, <3>4, <3>5
  <2> QED BY <2>3, <2>4
<1>2. CASE ~Accepts(records[i], state.incident, status0, started)
  <2>1. PICK no : no = (state.refused \/ Strict(records[i]))
    OBVIOUS
  <2>2. next = [state EXCEPT !.refused = no]
    BY <1>2, <2>1 DEF Read
  <2>3. IsReading(next) /\ next.refused = no /\ next.incident = state.incident
    BY <2>1, <2>2 DEF IsReading
  <2>4. ASSUME ~next.refused
        PROVE  Tallied(records, D \cup {i}, state.incident, status0, started)
    <3>1. ~state.refused /\ ~Strict(records[i])
      BY <2>1, <2>3, <2>4
    <3>2. /\ Tally(records, D, state.incident) /\ Balanced(records, D)
          /\ \A j \in D : Timely(records, j, status0, started)
      BY <3>1 DEF Tallied
    <3>3. Timely(records, i, status0, started)
      BY <3>1, ReadTimely DEF Reading
    <3>4. records[i].kind \notin {"missing", "assets"}
      BY <3>1 DEF Strict, OwnerKinds, Retries, Denials
    <3>5. Tally(records, D \cup {i}, state.incident) /\ Balanced(records, D \cup {i})
      BY <3>2, <3>4, ReadOther
    <3> QED BY <3>2, <3>3, <3>5 DEF Tallied
  <2> QED BY <2>3, <2>4
<1> QED BY <1>1, <1>2

(* Induction over the naturals as a fact about sets.                       *)
LEMMA NatSetInduction ==
  ASSUME NEW T, 0 \in T, \A n \in Nat : n \in T => n + 1 \in T
  PROVE  Nat \subseteq T
<1> DEFINE Outside == Nat \ T
           Less == OpToRel(<, Nat)
<1>1. SUFFICES ASSUME Outside # {} PROVE FALSE
  BY Zenon
<1>2. IsWellFoundedOn(Less, Nat)
  BY NatLessThanWellFounded, Zenon
<1>3. ASSUME NEW a \in Nat, NEW b \in Nat, a < b
      PROVE  <<a, b>> \in Less
  BY <1>3 DEF OpToRel
<1> HIDE DEF Less
<1>4. Outside \subseteq Nat
  OBVIOUS
<1>5. PICK n \in Outside : \A m \in Outside : ~ (<<m, n>> \in Less)
  <2> HIDE DEF Outside
  <2> QED BY <1>1, <1>2, <1>4, WFMin, Zenon
<1>6. n # 0 /\ n \in Nat
  OBVIOUS
<1>7. n - 1 \in Nat /\ n - 1 < n /\ (n - 1) + 1 = n
  BY <1>6
<1>8. n - 1 \in Outside
  BY <1>7
<1> QED BY <1>3, <1>5, <1>6, <1>7, <1>8

(***************************************************************************)
(* The folds of a scan, over the positions of a batch and over batches.    *)
(***************************************************************************)
Combine(kind, records, status0, started, state, x) ==
  IF kind = "record" THEN Read(state, x, status0, started)
  ELSE ScanBatch(state, records, x, status0, started)
Folds(kind, records, status0, started, base, seq, S, f) ==
  f = [s \in SUBSET S |->
         IF s = {} THEN base
         ELSE Combine(kind, records, status0, started, f[s \ {Max(s)}], seq[Max(s)])]
Series(kind, records, status0, started, base, seq, S, n, t) ==
  /\ t[0] = base
  /\ \A k \in 1..n :
       t[k] = IF k \in S THEN Combine(kind, records, status0, started, t[k - 1], seq[k]) ELSE t[k - 1]

(* The newest position of a set is its greatest.                           *)
LEMMA LastIsMax ==
  ASSUME NEW n \in Nat, NEW s \in SUBSET (1..(n + 1)), n + 1 \in s
  PROVE  Max(s) = n + 1 /\ s \ {Max(s)} \in SUBSET (1..n)
<1>1. PICK m : m = Max(s)
  OBVIOUS
<1>2. n + 1 \in s /\ \A y \in s : n + 1 >= y
  OBVIOUS
<1>3. m \in s /\ \A y \in s : m >= y
  BY <1>1, <1>2, Zenon DEF Max
<1>4. m = n + 1
  BY <1>2, <1>3
<1> QED BY <1>1, <1>4

(* The recursive function of a fold over a set of positions exists, though *)
(* nothing says how it is computed.                                        *)
LEMMA FoldsExists ==
  ASSUME NEW kind, NEW records, NEW status0, NEW started, NEW base, NEW seq, NEW n \in Nat,
         NEW S \in SUBSET (1..n)
  PROVE  \E f : Folds(kind, records, status0, started, base, seq, S, f)
<1> DEFINE Pass(f, s) ==
             IF s = {} THEN base
             ELSE Combine(kind, records, status0, started, f[s \ {Max(s)}], seq[Max(s)])
           T == {m \in Nat : \E f : f = [s \in SUBSET (1..m) |-> Pass(f, s)]}
<1>1. 0 \in T
  <2>1. PICK f : f = [s \in SUBSET (1..0) |-> base]
    OBVIOUS
  <2>2. \A s \in SUBSET (1..0) : s = {}
    OBVIOUS
  <2>3. f = [s \in SUBSET (1..0) |-> Pass(f, s)]
    BY <2>1, <2>2
  <2> QED BY <2>3
<1>2. ASSUME NEW m \in Nat, m \in T
      PROVE  m + 1 \in T
  <2>1. PICK f : f = [s \in SUBSET (1..m) |-> Pass(f, s)]
    BY <1>2
  <2>2. PICK g : g = [s \in SUBSET (1..(m + 1)) |-> IF s \in SUBSET (1..m) THEN f[s] ELSE Pass(f, s)]
    OBVIOUS
  <2>3. SUBSET (1..m) \subseteq SUBSET (1..(m + 1))
    OBVIOUS
  <2>4. \A s \in SUBSET (1..m) : g[s] = f[s]
    BY <2>2, <2>3
  <2>5. ASSUME NEW s \in SUBSET (1..(m + 1))
        PROVE  g[s] = Pass(g, s)
    <3>1. g[s] = Pass(f, s)
      <4>1. CASE s \in SUBSET (1..m)
        <5>1. f[s] = Pass(f, s)
          BY <2>1, <4>1, Zenon
        <5> QED BY <2>4, <4>1, <5>1, Zenon
      <4>2. CASE s \notin SUBSET (1..m)
        BY <2>2, <4>2, Zenon
      <4> QED BY <4>1, <4>2
    <3>2. CASE s = {}
      BY <3>1, <3>2, Zenon
    <3>3. CASE s # {}
      <4>1. s \ {Max(s)} \in SUBSET (1..m)
        <5>1. CASE m + 1 \in s
          BY <5>1, LastIsMax
        <5>2. CASE m + 1 \notin s
          <6>1. s \in SUBSET (1..m)
            BY <5>2
          <6> QED BY <6>1
        <5> QED BY <5>1, <5>2
      <4>2. g[s \ {Max(s)}] = f[s \ {Max(s)}]
        BY <2>4, <4>1, Zenon
      <4>3. Pass(g, s) = Pass(f, s)
        BY <4>2, Zenon
      <4> QED BY <3>1, <4>3, Zenon
    <3> QED BY <3>2, <3>3
  <2>6. DOMAIN g = SUBSET (1..(m + 1)) /\ g = [s \in SUBSET (1..(m + 1)) |-> g[s]]
    <3> HIDE DEF Pass
    <3> QED BY <2>2
  <2>7. g = [s \in SUBSET (1..(m + 1)) |-> Pass(g, s)]
    <3> HIDE DEF Pass
    <3> QED BY <2>5, <2>6
  <2>8. \E h : h = [s \in SUBSET (1..(m + 1)) |-> Pass(h, s)]
    BY <2>7, Zenon
  <2>9. m + 1 \in Nat
    OBVIOUS
  <2> HIDE DEF Pass
  <2> QED BY <2>8, <2>9
<1>3. n \in T
  <2> HIDE DEF T
  <2> QED BY <1>1, <1>2, NatSetInduction
<1>4. PICK f : f = [s \in SUBSET (1..n) |-> Pass(f, s)]
  BY <1>3
<1>5. PICK g : g = [s \in SUBSET S |-> f[s]]
  OBVIOUS
<1>6. ASSUME NEW s \in SUBSET S
      PROVE  g[s] = Pass(g, s)
  <2>1. s \in SUBSET (1..n)
    OBVIOUS
  <2>2. s \ {Max(s)} \in SUBSET S
    OBVIOUS
  <2>3. g[s] = f[s] /\ g[s \ {Max(s)}] = f[s \ {Max(s)}]
    BY <1>5, <2>2, Zenon
  <2>4. f[s] = Pass(f, s)
    BY <1>4, <2>1, Zenon
  <2>5. Pass(g, s) = Pass(f, s)
    BY <2>3, Zenon
  <2> QED BY <2>3, <2>4, <2>5, Zenon
<1>7. DOMAIN g = SUBSET S /\ g = [s \in SUBSET S |-> g[s]]
  <2> HIDE DEF Pass
  <2> QED BY <1>5
<1>8. g = [s \in SUBSET S |-> Pass(g, s)]
  <2> HIDE DEF Pass
  <2> QED BY <1>6, <1>7
<1> QED BY <1>8, Zenon DEF Folds

(* A fold over positions is the last state of a series of readings.        *)
LEMMA FoldsSeries ==
  ASSUME NEW kind, NEW records, NEW status0, NEW started, NEW base, NEW seq, NEW n \in Nat,
         NEW S \in SUBSET (1..n), NEW f, Folds(kind, records, status0, started, base, seq, S, f)
  PROVE  \E t : Series(kind, records, status0, started, base, seq, S, n, t) /\ t[n] = f[S]
<1>1. PICK t : t = [k \in 0..n |-> f[S \cap (1..k)]]
  OBVIOUS
<1>2. \A s \in SUBSET S :
        f[s] = IF s = {} THEN base
               ELSE Combine(kind, records, status0, started, f[s \ {Max(s)}], seq[Max(s)])
  BY Zenon DEF Folds
<1>3. t[0] = base
  <2>1. t[0] = f[S \cap (1..0)] /\ S \cap (1..0) = {}
    BY <1>1
  <2>2. f[{}] = base
    BY <1>2, Zenon
  <2> QED BY <2>1, <2>2
<1>4. ASSUME NEW k \in 1..n
      PROVE  t[k] = IF k \in S THEN Combine(kind, records, status0, started, t[k - 1], seq[k]) ELSE t[k - 1]
  <2>1. k - 1 \in Nat /\ (k - 1) + 1 = k /\ k - 1 \in 0..n /\ k \in 0..n
    OBVIOUS
  <2>2. PICK s : s = S \cap (1..k)
    OBVIOUS
  <2>3. PICK before : before = S \cap (1..(k - 1))
    OBVIOUS
  <2>4. t[k] = f[s] /\ t[k - 1] = f[before]
    BY <1>1, <2>1, <2>2, <2>3
  <2>5. CASE k \in S
    <3>1. s \in SUBSET S /\ s # {} /\ k \in s /\ s \in SUBSET (1..k)
      BY <2>2, <2>5
    <3>2. Max(s) = k
      BY <2>1, <3>1, LastIsMax
    <3>3. s \ {Max(s)} = before
      BY <2>2, <2>3, <3>2
    <3>4. f[s] = Combine(kind, records, status0, started, f[s \ {Max(s)}], seq[Max(s)])
      BY <1>2, <3>1, Zenon
    <3> QED BY <2>4, <2>5, <3>2, <3>3, <3>4, Zenon
  <2>6. CASE k \notin S
    <3>1. s = before
      BY <2>2, <2>3, <2>6
    <3> QED BY <2>4, <2>6, <3>1
  <2> QED BY <2>5, <2>6
<1>5. t[n] = f[S]
  <2>1. S \cap (1..n) = S
    OBVIOUS
  <2>2. n \in 0..n
    OBVIOUS
  <2> QED BY <1>1, <2>1, <2>2
<1> QED BY <1>3, <1>4, <1>5, Zenon DEF Series

ReviewBase(incident) == [incident |-> incident, refused |-> FALSE]
(* So is a review of a batch, and a scan of the batches of a log.          *)
LEMMA ReviewSeries ==
  ASSUME NEW records, NEW status0, NEW started, NEW incident, NEW n \in Nat,
         NEW S \in SUBSET (1..n)
  PROVE  \E t : /\ Series("record", records, status0, started, ReviewBase(incident), records, S, n, t)
                /\ t[n] = Review(records, S, incident, status0, started)
<1>1. PICK base : base = ReviewBase(incident)
  OBVIOUS
<1>2. \A state, x : Combine("record", records, status0, started, state, x)
                      = Read(state, x, status0, started)
  BY DEF Combine
<1> DEFINE Fits(f) == f = [s \in SUBSET S |->
             IF s = {} THEN base ELSE Read(f[s \ {Max(s)}], records[Max(s)], status0, started)]
<1>3. Review(records, S, incident, status0, started) = (CHOOSE f : Fits(f))[S]
  BY <1>1, Zenon DEF Review, MapThenFoldSet, ReviewBase
<1>4. \A f : Folds("record", records, status0, started, base, records, S, f) <=> Fits(f)
  BY <1>2, Zenon DEF Folds
<1> HIDE DEF Fits
<1>5. PICK f : f = CHOOSE g : Fits(g)
  OBVIOUS
<1>6. \E g : Folds("record", records, status0, started, base, records, S, g)
  BY FoldsExists
<1>7. Fits(f)
  BY <1>4, <1>5, <1>6, Zenon
<1>8. Folds("record", records, status0, started, base, records, S, f)
  BY <1>4, <1>7, Zenon
<1>9. PICK t : Series("record", records, status0, started, base, records, S, n, t) /\ t[n] = f[S]
  BY <1>8, FoldsSeries
<1> QED BY <1>1, <1>3, <1>5, <1>9

ScanBase == [incident |-> NoIncident, refused |-> FALSE]
Swept(records, status0, started) ==
  FoldLeft(LAMBDA state, batch : ScanBatch(state, records, batch, status0, started), ScanBase,
           Ordinary(records))
LEMMA ScanSeries ==
  ASSUME NEW records, NEW status0, NEW started, NEW n \in Nat, DOMAIN records = 1..n
  PROVE  \E t : /\ Series("batch", records, status0, started, ScanBase, Ordinary(records), 1..n, n, t)
                /\ t[n] = Swept(records, status0, started)
<1>1. PICK seq : seq = Ordinary(records)
  OBVIOUS
<1>2. \A state, x : Combine("batch", records, status0, started, state, x)
                      = ScanBatch(state, records, x, status0, started)
  BY DEF Combine
<1>3. DOMAIN seq = 1..n
  BY <1>1, Zenon DEF Ordinary
<1> DEFINE Fits(f) == f = [s \in SUBSET DOMAIN seq |->
             IF s = {} THEN ScanBase
             ELSE ScanBatch(f[s \ {Max(s)}], records, seq[Max(s)], status0, started)]
<1>4. Swept(records, status0, started) = (CHOOSE f : Fits(f))[DOMAIN seq]
  BY <1>1, Zenon DEF Swept, FoldLeft, MapThenFoldSet
<1>5. \A f : Folds("batch", records, status0, started, ScanBase, seq, 1..n, f) <=> Fits(f)
  BY <1>2, <1>3, Zenon DEF Folds
<1> HIDE DEF Fits
<1>6. PICK f : f = CHOOSE g : Fits(g)
  OBVIOUS
<1>7. \E g : Folds("batch", records, status0, started, ScanBase, seq, 1..n, g)
  BY FoldsExists
<1>8. Fits(f)
  BY <1>5, <1>6, <1>7, Zenon
<1>9. Folds("batch", records, status0, started, ScanBase, seq, 1..n, f)
  BY <1>5, <1>8, Zenon
<1>10. PICK t : Series("batch", records, status0, started, ScanBase, seq, 1..n, n, t) /\ t[n] = f[1..n]
  BY <1>9, FoldsSeries
<1> QED BY <1>1, <1>3, <1>4, <1>6, <1>10

(***************************************************************************)
(* What a scan accepts is what the whole log deserves.                     *)
(***************************************************************************)
Rank(records, i) == Cardinality(Before(records, i))
Done(records, k) == {i \in DOMAIN records : ~Relevant(records[i]) /\ Rank(records, i) \div BatchSize < k}

(* The ordinary records are numbered in their order.                       *)
LEMMA Ranks ==
  ASSUME NEW records, Ordered(records), NEW i \in DOMAIN records, NEW j \in DOMAIN records, i <= j
  PROVE  /\ Rank(records, i) \in Nat /\ Rank(records, i) < i
         /\ Rank(records, j) \in Nat /\ Rank(records, i) <= Rank(records, j)
<1>1. /\ i \in Nat /\ j \in Nat /\ i >= 1 /\ j >= 1
      /\ i - 1 \in Int /\ j - 1 \in Int
  BY DEF Ordered
<1>2. PICK u \in Int : u = i - 1
  BY <1>1
<1>3. PICK v \in Int : v = j - 1
  BY <1>1
<1> DEFINE a == 1..u
           b == 1..v
<1>4. IsFiniteSet(a) /\ Cardinality(a) = IF 1 > u THEN 0 ELSE u - 1 + 1
  BY FS_Interval
<1>5. IsFiniteSet(b)
  BY FS_Interval
<1>6. Cardinality(a) < i
  BY <1>1, <1>2, <1>4
<1>7. /\ Before(records, i) \subseteq a /\ Before(records, j) \subseteq b
      /\ Before(records, i) \subseteq Before(records, j)
  BY <1>1, <1>2, <1>3 DEF Before
<1>8. /\ IsFiniteSet(Before(records, i)) /\ IsFiniteSet(Before(records, j))
      /\ Cardinality(Before(records, i)) <= Cardinality(a)
  BY <1>4, <1>5, <1>7, FS_Subset
<1>9. Cardinality(Before(records, i)) <= Cardinality(Before(records, j))
  BY <1>7, <1>8, FS_Subset
<1>10. /\ Cardinality(Before(records, i)) \in Nat /\ Cardinality(Before(records, j)) \in Nat
       /\ Cardinality(a) \in Nat
  BY <1>4, <1>8, FS_CardinalityType
<1> QED BY <1>1, <1>6, <1>8, <1>9, <1>10 DEF Rank

(* An ordinary position comes before those of later batches.               *)
LEMMA BatchesInOrder ==
  ASSUME NEW records, Ordered(records), NEW i \in DOMAIN records, NEW j \in DOMAIN records,
         Rank(records, i) \div BatchSize < Rank(records, j) \div BatchSize
  PROVE  i < j
<1> SUFFICES ASSUME j <= i PROVE FALSE
  BY DEF Ordered
<1>1. PICK a \in Nat : a = Rank(records, i)
  BY Ranks
<1>2. PICK b \in Nat : b = Rank(records, j) /\ b <= a
  BY <1>1, Ranks
<1>3. a \div BatchSize \in Nat /\ b \div BatchSize \in Nat /\ b \div BatchSize <= a \div BatchSize
  BY <1>1, <1>2, Div, BatchAssumption
<1> QED BY <1>1, <1>2, <1>3

(* The reader stays a reader.                                              *)
LEMMA ReadKeeps ==
  ASSUME NEW state, IsReading(state), NEW r, NEW status0, NEW started
  PROVE  IsReading(Read(state, r, status0, started))
<1>1. PICK a : a = Retained(r, state.incident)
  OBVIOUS
<1>2. PICK b : b = (state.refused \/ Strict(r))
  OBVIOUS
<1>3. \/ Read(state, r, status0, started) = [state EXCEPT !.incident = a]
      \/ Read(state, r, status0, started) = [state EXCEPT !.refused = b]
  BY <1>1, <1>2 DEF Read
<1>4. b \in BOOLEAN
  BY <1>2
<1> QED BY <1>3, <1>4 DEF IsReading

LEMMA BaseReads ==
  ASSUME NEW incident
  PROVE  /\ IsReading(ReviewBase(incident)) /\ ~ReviewBase(incident).refused
         /\ ReviewBase(incident).incident = incident
BY DEF IsReading, ReviewBase

(* A review of any batch, after anything.                                  *)
LEMMA ReviewReads ==
  ASSUME NEW records, NEW n \in Nat, NEW S \in SUBSET (1..n), NEW incident, NEW status0, NEW started
  PROVE  IsReading(Review(records, S, incident, status0, started))
<1>1. PICK base : base = ReviewBase(incident)
  OBVIOUS
<1>2. PICK t : /\ Series("record", records, status0, started, base, records, S, n, t)
               /\ t[n] = Review(records, S, incident, status0, started)
  BY <1>1, ReviewSeries
<1> DEFINE T == {k \in Nat : k <= n => IsReading(t[k])}
<1>3. 0 \in T
  BY <1>1, <1>2, BaseReads DEF Series
<1>4. ASSUME NEW k \in Nat, k \in T
      PROVE  k + 1 \in T
  <2>1. SUFFICES ASSUME k + 1 <= n PROVE IsReading(t[k + 1])
    OBVIOUS
  <2>2. k + 1 \in 1..n /\ (k + 1) - 1 = k /\ IsReading(t[k])
    BY <1>4, <2>1
  <2>3. t[k + 1] = t[k] \/ t[k + 1] = Combine("record", records, status0, started, t[k], records[k + 1])
    BY <1>2, <2>2 DEF Series
  <2>4. t[k + 1] = t[k] \/ t[k + 1] = Read(t[k], records[k + 1], status0, started)
    BY <2>3 DEF Combine
  <2> QED BY <2>2, <2>4, ReadKeeps
<1>5. n \in T
  <2> HIDE DEF T
  <2> QED BY <1>3, <1>4, NatSetInduction
<1> QED BY <1>2, <1>5

(* What a batch that passes says: nothing in it was refused and every      *)
(* incident of an owner in it is whole.                                    *)
LEMMA ClassifyIs ==
  ASSUME NEW records, NEW batch, NEW incident, NEW status0, NEW started,
         NEW c, c = Review(records, batch, incident, status0, started), IsReading(c),
         NEW d, d = ClassifyBatch(records, batch, incident, status0, started)
  PROVE  /\ IsReading(d) /\ d.incident = c.incident
         /\ ~d.refused => ~c.refused /\ \A i \in Owned(records, batch) :
                                           OwnersIncident(records, SameSecond(records, Owned(records, batch), i))
<1>1. PICK bad : bad = \E i \in Owned(records, batch) :
                         ~OwnersIncident(records, SameSecond(records, Owned(records, batch), i))
  OBVIOUS
<1>2. d = [c EXCEPT !.refused = c.refused \/ bad]
  BY <1>1, Zenon DEF ClassifyBatch
<1>3. PICK no : no = (c.refused \/ bad)
  OBVIOUS
<1>4. no \in BOOLEAN
  BY <1>3
<1>5. IsReading(d) /\ d.incident = c.incident /\ d.refused = no
  BY <1>2, <1>3, <1>4 DEF IsReading
<1>6. ~d.refused => ~c.refused /\ ~bad
  BY <1>3, <1>5
<1> QED BY <1>1, <1>5, <1>6

LEMMA ScanBatchIs ==
  ASSUME NEW state, IsReading(state), NEW records, NEW batch, NEW status0, NEW started,
         NEW d, d = ClassifyBatch(records, batch, state.incident, status0, started), IsReading(d),
         NEW next, next = ScanBatch(state, records, batch, status0, started)
  PROVE  /\ IsReading(next) /\ next.incident = d.incident
         /\ ~next.refused => ~state.refused /\ ~d.refused
<1>1. next = [incident |-> d.incident, refused |-> state.refused \/ d.refused]
  BY Zenon DEF ScanBatch
<1> QED BY <1>1 DEF IsReading

(* One more batch.                                                         *)
LEMMA BatchOn ==
  ASSUME NEW records, Ordered(records), NEW n \in Nat, DOMAIN records = 1..n, NEW k \in Nat, NEW batch,
         batch = {i \in DOMAIN records : ~Relevant(records[i]) /\ Rank(records, i) \div BatchSize = k},
         NEW incident, NEW status0, NEW started,
         Tallied(records, Done(records, k), incident, status0, started),
         NEW c, c = Review(records, batch, incident, status0, started), ~c.refused
  PROVE  Tallied(records, Done(records, k + 1), c.incident, status0, started)
<1>1. PICK base : base = ReviewBase(incident)
  OBVIOUS
<1>2. batch \in SUBSET (1..n)
  OBVIOUS
<1>3. PICK t : /\ Series("record", records, status0, started, base, records, batch, n, t)
               /\ t[n] = Review(records, batch, incident, status0, started)
  BY ONLY n \in Nat, <1>1, <1>2, ReviewSeries
<1> DEFINE Seen(m) == Done(records, k) \cup (batch \cap (1..m))
           T == {m \in Nat : m <= n =>
                   /\ IsReading(t[m])
                   /\ ~t[m].refused => Tallied(records, Seen(m), t[m].incident, status0, started)}
<1>4. 0 \in T
  <2>1. Seen(0) = Done(records, k)
    OBVIOUS
  <2>2. t[0] = base
    BY <1>3 DEF Series
  <2> QED BY <1>1, <2>1, <2>2, BaseReads
<1>5. ASSUME NEW m \in Nat, m \in T
      PROVE  m + 1 \in T
  <2>1. SUFFICES ASSUME m + 1 <= n
                 PROVE  /\ IsReading(t[m + 1])
                        /\ ~t[m + 1].refused =>
                             Tallied(records, Seen(m + 1), t[m + 1].incident, status0, started)
    OBVIOUS
  <2>2. PICK i : i = m + 1
    OBVIOUS
  <2>3. i \in 1..n /\ i - 1 = m /\ i \in DOMAIN records
    BY <2>1, <2>2
  <2>4. PICK old : old = Seen(m)
    OBVIOUS
  <2>5. IsReading(t[m]) /\ (~t[m].refused => Tallied(records, old, t[m].incident, status0, started))
    BY <1>5, <2>1, <2>4
  <2>6. CASE i \notin batch
    <3>1. Seen(m + 1) = old
      BY <2>2, <2>4, <2>6
    <3>2. t[i] = t[m]
      BY <1>3, <2>3, <2>6 DEF Series
    <3> QED BY <2>2, <2>5, <3>1, <3>2
  <2>7. CASE i \in batch
    <3>1. Seen(m + 1) = old \cup {i}
      BY <2>2, <2>3, <2>4, <2>7
    <3>2. t[i] = Read(t[m], records[i], status0, started)
      BY <1>3, <2>3, <2>7 DEF Series, Combine
    <3>3. ASSUME NEW j \in old
          PROVE  j < i
      <4>1. CASE j \in batch \cap (1..m)
        BY <2>2, <4>1
      <4>2. CASE j \in Done(records, k)
        <5>1. j \in DOMAIN records /\ Rank(records, j) \div BatchSize < Rank(records, i) \div BatchSize
          BY <2>7, <4>2 DEF Done
        <5> QED BY <2>3, <5>1, BatchesInOrder
      <4> QED BY <2>4, <4>1, <4>2
    <3>4. old \subseteq DOMAIN records
      BY <2>4 DEF Done
    <3>5. Reading(records, old, i)
      BY <2>3, <2>7, <3>3, <3>4 DEF Reading
    <3>6. /\ IsReading(t[i])
          /\ ~t[i].refused => Tallied(records, old \cup {i}, t[i].incident, status0, started)
      BY <2>5, <3>2, <3>5, ReadOn
    <3> QED BY <2>2, <3>1, <3>6
  <2> QED BY <2>6, <2>7
<1>6. n \in T
  <2> HIDE DEF T
  <2> QED BY <1>4, <1>5, NatSetInduction
<1>7. Seen(n) = Done(records, k + 1)
  <2>1. ASSUME NEW i \in DOMAIN records
        PROVE  Rank(records, i) \div BatchSize \in Nat
    <3>1. PICK a \in Nat : a = Rank(records, i)
      <4>1. i <= i
        BY DEF Ordered
      <4> QED BY <4>1, Ranks
    <3> QED BY <3>1, Div, BatchAssumption
  <2>2. batch \cap (1..n) = batch
    OBVIOUS
  <2>3. Done(records, k) \cup batch = Done(records, k + 1)
    BY <2>1 DEF Done
  <2> QED BY <2>2, <2>3
<1>8. t[n] = c
  BY <1>3
<1>9. ~t[n].refused => Tallied(records, Seen(n), t[n].incident, status0, started)
  BY <1>6
<1> HIDE DEF Seen, T
<1>10. Tallied(records, Seen(n), c.incident, status0, started)
  BY <1>8, <1>9
<1> QED BY <1>7, <1>10

(* Nothing was seen before the first batch.                                *)
LEMMA NoIncidentTallies ==
  ASSUME NEW records, Ordered(records), NEW status0, NEW started
  PROVE  Tallied(records, Done(records, 0), NoIncident, status0, started)
<1>1. Done(records, 0) = {}
  <2>1. ASSUME NEW i \in DOMAIN records
        PROVE  ~(Rank(records, i) \div BatchSize < 0)
    <3>1. i <= i
      BY DEF Ordered
    <3>2. PICK a \in Nat : a = Rank(records, i)
      BY <3>1, Ranks
    <3>3. a \div BatchSize \in Nat
      BY <3>2, Div, BatchAssumption
    <3> QED BY <3>2, <3>3
  <2> QED BY <2>1 DEF Done
<1>2. /\ DOMAIN NoIncident = {"at", "characters", "consumed"}
      /\ NoIncident.at = -1 /\ NoIncident.characters = {} /\ NoIncident.consumed = 0
  BY DEF NoIncident
<1>3. ASSUME NEW t
      PROVE  Counted(records, {}, t) = {} /\ Named(records, {}, t) = {}
  BY DEF Counted, Named
<1>4. Balanced(records, {})
  BY <1>3, FS_EmptySet DEF Balanced
<1>5. Tally(records, {}, NoIncident)
  BY <1>2, <1>3, FS_EmptySet DEF Tally
<1> QED BY <1>1, <1>4, <1>5 DEF Tallied

(* What was seen of all the ordinary records of a log that passed.         *)
LEMMA SweptTallies ==
  ASSUME NEW records, Ordered(records), NEW status0, NEW started,
         NEW read, read = Swept(records, status0, started)
  PROVE  ~read.refused =>
           \E incident :
             Tallied(records, {i \in DOMAIN records : ~Relevant(records[i])}, incident, status0, started)
<1>1. PICK n \in Nat : n = Len(records) /\ DOMAIN records = 1..n
  BY DEF Ordered
<1>2. PICK seq : seq = Ordinary(records)
  OBVIOUS
<1>3. PICK t : /\ Series("batch", records, status0, started, ScanBase, seq, 1..n, n, t)
               /\ t[n] = Swept(records, status0, started)
  BY ONLY n \in Nat, <1>1, <1>2, ScanSeries
<1> DEFINE T == {k \in Nat : k <= n =>
                   /\ IsReading(t[k])
                   /\ ~t[k].refused => Tallied(records, Done(records, k), t[k].incident, status0, started)}
<1>4. 0 \in T
  <2>1. t[0] = ScanBase
    BY <1>3 DEF Series
  <2>2. IsReading(ScanBase) /\ ScanBase.incident = NoIncident
    BY DEF ScanBase, IsReading
  <2> QED BY <2>1, <2>2, NoIncidentTallies
<1>5. ASSUME NEW k \in Nat, k \in T
      PROVE  k + 1 \in T
  <2>1. SUFFICES ASSUME k + 1 <= n
                 PROVE  /\ IsReading(t[k + 1])
                        /\ ~t[k + 1].refused =>
                             Tallied(records, Done(records, k + 1), t[k + 1].incident, status0, started)
    OBVIOUS
  <2>2. PICK m : m = k + 1
    OBVIOUS
  <2>3. m \in 1..n /\ m - 1 = k /\ m \in DOMAIN records
    BY <1>1, <2>1, <2>2
  <2>4. /\ IsReading(t[k])
        /\ ~t[k].refused => Tallied(records, Done(records, k), t[k].incident, status0, started)
    BY <1>5, <2>1
  <2>5. PICK batch : batch = seq[m]
    OBVIOUS
  <2>6. batch = {i \in DOMAIN records : ~Relevant(records[i]) /\ Rank(records, i) \div BatchSize = k}
    BY <1>2, <2>3, <2>5 DEF Ordinary, Rank
  <2>7. t[m] = ScanBatch(t[k], records, batch, status0, started)
    BY <1>3, <2>3, <2>5 DEF Series, Combine
  <2>8. PICK incident : incident = t[k].incident
    OBVIOUS
  <2>9. PICK c : c = Review(records, batch, incident, status0, started)
    OBVIOUS
  <2>10. IsReading(c)
    <3>1. batch \in SUBSET (1..n)
      BY <1>1, <2>6
    <3> QED BY ONLY n \in Nat, <2>9, <3>1, ReviewReads
  <2>11. PICK d : d = ClassifyBatch(records, batch, incident, status0, started)
    OBVIOUS
  <2>12. IsReading(d) /\ d.incident = c.incident /\ (~d.refused => ~c.refused)
    BY ONLY <2>9, <2>10, <2>11, ClassifyIs
  <2>13. /\ IsReading(t[m]) /\ t[m].incident = d.incident
         /\ ~t[m].refused => ~t[k].refused /\ ~d.refused
    BY <2>4, <2>7, <2>8, <2>11, <2>12, ScanBatchIs
  <2>14. ASSUME ~t[m].refused
         PROVE  Tallied(records, Done(records, m), t[m].incident, status0, started)
    <3>1. Tallied(records, Done(records, k), incident, status0, started) /\ ~c.refused
      BY <2>4, <2>8, <2>12, <2>13, <2>14
    <3>2. Tallied(records, Done(records, k + 1), c.incident, status0, started)
      BY <1>1, <2>6, <2>9, <3>1, BatchOn
    <3> QED BY <2>2, <2>12, <2>13, <3>2
  <2> QED BY <2>2, <2>13, <2>14
<1>6. n \in T
  <2> HIDE DEF T
  <2> QED BY <1>4, <1>5, NatSetInduction
<1>7. Done(records, n) = {i \in DOMAIN records : ~Relevant(records[i])}
  <2>1. ASSUME NEW i \in DOMAIN records
        PROVE  Rank(records, i) \div BatchSize < n
    <3>1. i <= i /\ i \in Nat /\ i <= n
      BY <1>1
    <3>2. PICK a \in Nat : a = Rank(records, i) /\ a < i
      BY <3>1, Ranks
    <3>3. a \div BatchSize \in Nat /\ a \div BatchSize <= a
      BY <3>2, Div, BatchAssumption
    <3> QED BY <3>1, <3>2, <3>3
  <2> QED BY <2>1 DEF Done
<1>8. ~t[n].refused => Tallied(records, Done(records, n), t[n].incident, status0, started)
  BY <1>6
<1>9. t[n] = read
  BY <1>3
<1> HIDE DEF T
<1> QED BY <1>7, <1>8, <1>9

(* An ordinary record of what a passing review saw is acceptable.          *)
LEMMA TalliedIsOk ==
  ASSUME NEW records, Ordered(records), NEW incident, NEW status0, NEW started, NEW i \in DOMAIN records,
         ~Relevant(records[i]),
         Tallied(records, {j \in DOMAIN records : ~Relevant(records[j])}, incident, status0, started)
  PROVE  Ok(records, i, status0, started)
<1>1. PICK D : D = {j \in DOMAIN records : ~Relevant(records[j])}
  OBVIOUS
<1>2. Timely(records, i, status0, started) /\ Balanced(records, D)
  BY <1>1 DEF Tallied
<1>3. PICK at \in Nat : at = records[i].at
  BY DEF Ordered
<1>4. PICK same : same = SameSecond(records, DOMAIN records, i)
  OBVIOUS
<1>5. same = {j \in DOMAIN records : records[j].at = at}
  BY <1>3, <1>4 DEF SameSecond
<1>6. "assets" \notin OwnerKinds /\ "missing" \notin OwnerKinds
  BY DEF OwnerKinds, Retries, Denials
<1>7. Counted(records, D, at) = {j \in same : records[j].kind = "assets"}
  BY <1>1, <1>5, <1>6 DEF Counted, Relevant
<1>8. Named(records, D, at) = {records[j].of : j \in {j \in same : records[j].kind = "missing"}}
  <2>1. {j \in D : records[j].kind = "missing" /\ records[j].at = at}
          = {j \in same : records[j].kind = "missing"}
    BY <1>1, <1>5, <1>6 DEF Relevant
  <2> QED BY <2>1, Zenon DEF Named
<1>9. Cardinality({j \in same : records[j].kind = "assets"}) <=
        Cardinality({records[j].of : j \in {j \in same : records[j].kind = "missing"}})
  BY <1>2, <1>3, <1>7, <1>8, Zenon DEF Balanced
<1>10. records[i].kind \notin OwnerKinds
  BY DEF Relevant
<1>11. CASE records[i].kind = "info"
  <2>1. records[i].kind \notin {"task", "missing", "assets", "limit"}
    BY <1>11
  <2> QED BY <1>10, <1>11, <2>1, Zenon DEF Ok
<1>12. CASE records[i].kind = "task"
  <2>1. records[i].at < started /\ records[i].at < status0.task
    BY <1>2, <1>12 DEF Timely
  <2>2. records[i].kind \notin {"info", "missing", "assets", "limit"}
    BY <1>12
  <2> QED BY <1>10, <1>12, <2>1, <2>2, Zenon DEF Ok
<1>13. CASE records[i].kind = "missing"
  <2>1. records[i].at < started /\ records[i].at < status0.assets
    BY <1>2, <1>13 DEF Timely
  <2>2. records[i].kind \notin {"info", "task", "assets", "limit"}
    BY <1>13
  <2> QED BY <1>10, <1>13, <2>1, <2>2, Zenon DEF Ok
<1>14. CASE records[i].kind = "assets"
  <2>1. records[i].at < started /\ records[i].at < status0.assets
    BY <1>2, <1>14 DEF Timely
  <2>2. records[i].kind \notin {"info", "task", "missing", "limit"}
    BY <1>14
  <2> QED BY <1>4, <1>9, <1>10, <1>14, <2>1, <2>2, Zenon DEF Ok
<1>15. CASE records[i].kind = "limit"
  <2>1. records[i].at < started /\ MayLimit
    BY <1>2, <1>15 DEF Timely
  <2>2. records[i].kind \notin {"info", "task", "missing", "assets"}
    BY <1>15
  <2> QED BY <1>10, <1>15, <2>1, <2>2, Zenon DEF Ok
<1> QED BY <1>2, <1>11, <1>12, <1>13, <1>14, <1>15 DEF Timely

(* So is one of an incident of an owner that passed.                       *)
LEMMA OwnersAreOk ==
  ASSUME NEW records, Ordered(records), NEW incident, NEW status0, NEW started, NEW i \in DOMAIN records,
         Relevant(records[i]),
         \A batch \in Incidents(records) :
           ~ClassifyBatch(records, batch, incident, status0, started).refused
  PROVE  Ok(records, i, status0, started)
<1>1. PICK owners : owners = Owned(records, DOMAIN records)
  OBVIOUS
<1>2. PICK batch : batch = SameSecond(records, owners, i)
  OBVIOUS
<1>3. owners = {j \in DOMAIN records : Relevant(records[j])} /\ i \in owners
  BY <1>1 DEF Owned
<1>4. batch = {j \in DOMAIN records : Relevant(records[j]) /\ records[j].at = records[i].at} /\ i \in batch
  BY <1>2, <1>3 DEF SameSecond
<1>5. batch \in Incidents(records)
  BY <1>1, <1>2, <1>3 DEF Incidents
<1>6. Owned(records, batch) = batch
  BY <1>4 DEF Owned
<1>7. SameSecond(records, batch, i) = batch
  BY <1>4 DEF SameSecond
<1>8. PICK n \in Nat : DOMAIN records = 1..n
  BY DEF Ordered
<1>9. batch \in SUBSET (1..n)
  BY <1>4, <1>8
<1>10. PICK c : c = Review(records, batch, incident, status0, started)
  OBVIOUS
<1>11. IsReading(c)
  BY ONLY n \in Nat, <1>9, <1>10, ReviewReads
<1>12. PICK d : d = ClassifyBatch(records, batch, incident, status0, started)
  OBVIOUS
<1>13. ~d.refused =>
         \A j \in Owned(records, batch) :
           OwnersIncident(records, SameSecond(records, Owned(records, batch), j))
  BY ONLY <1>10, <1>11, <1>12, ClassifyIs
<1>14. ~d.refused
  BY <1>5, <1>12
<1>15. OwnersIncident(records, batch)
  BY <1>4, <1>6, <1>7, <1>13, <1>14
<1>16. Owned(records, SameSecond(records, DOMAIN records, i)) = batch
  BY <1>4 DEF Owned, SameSecond
<1>17. records[i].kind \in OwnerKinds
  BY DEF Relevant
<1>18. records[i].kind \notin {"info", "task", "missing", "assets", "limit"}
  BY <1>17 DEF OwnerKinds, Retries, Denials
<1> QED BY <1>15, <1>16, <1>17, <1>18, Zenon DEF Ok

(* A log that passes a scan has no record that did not recover, judged by  *)
(* the whole of it.                                                        *)
THEOREM ScanMeansOk ==
  ASSUME NEW records, Ordered(records), NEW status0, NEW started, Scan(records, status0, started),
         NEW i \in DOMAIN records
  PROVE  Ok(records, i, status0, started)
<1>1. PICK read : read = Swept(records, status0, started)
  OBVIOUS
<1>2. /\ ~read.refused
      /\ \A batch \in Incidents(records) :
           ~ClassifyBatch(records, batch, read.incident, status0, started).refused
  BY <1>1, Zenon DEF Scan, Swept, ScanBase
<1>3. CASE Relevant(records[i])
  BY <1>2, <1>3, OwnersAreOk
<1>4. CASE ~Relevant(records[i])
  <2>1. PICK incident :
          Tallied(records, {j \in DOMAIN records : ~Relevant(records[j])}, incident, status0, started)
    BY <1>1, <1>2, SweptTallies
  <2> QED BY <1>4, <2>1, TalliedIsOk
<1> QED BY <1>3, <1>4

-----------------------------------------------------------------------------
(* The evidence of a reviewed completion.                                  *)

(* What a worker has logged is in the order it was written in, and not of  *)
(* the future.                                                             *)
Written == {[at |-> t, kind |-> r.kind, of |-> r.of] : t \in Nat, r \in Said}
Logged(records, t) ==
  /\ records \in Seq(Written)
  /\ \A i \in 1..Len(records) : records[i].at <= t
  /\ \A i, j \in 1..Len(records) : i <= j => records[i].at <= records[j].at
LogInv ==
  /\ now \in Nat /\ DOMAIN log = Workers /\ \A w \in Workers : Logged(log[w], now)
  /\ rotated \in [Workers -> Nat]

(* The logs up to the counted records, as the scans found them.            *)
Scanned(seen, status0, started) ==
  /\ DOMAIN seen \subseteq Workers
  /\ \A w \in DOMAIN seen :
       /\ seen[w] \in 0..Len(log[w])
       /\ Scan(SubSeq(log[w], 1, seen[w]), status0, started)

(* The scans of one pass read whole logs as long as the last look at their *)
(* start may still succeed.                                                *)
Vouching == {"retain", "switch", "restored", "final", "clean", "forget", "record"}
Evident(step, seen, status0, started) ==
  /\ step \in {"sync", "start"} => DOMAIN seen = {}
  /\ step \in {"scan", "end"} /\ Covered => Scanned(seen, status0, started)
  /\ step \in {"end"} \cup Vouching => DOMAIN seen = Workers
  /\ step \in Vouching => Scanned(seen, status0, started)
EvidenceAt(p) ==
  call[p].op = "complete" /\ Reviewed(p) =>
    Evident(call[p].step, call[p].seen, call[p].status, call[p].started)
ReceiptInv ==
  completion.reviewed =>
    /\ DOMAIN completion.seen = Workers
    /\ Scanned(completion.seen, completion.status, completion.started)
EvidenceInv == LogInv /\ (\A p \in Owners : EvidenceAt(p)) /\ ReceiptInv

(* How a step changes what a call noted.                                   *)
Noting(p, step, seen, status0, started) ==
  /\ Others(p) /\ call'[p].op = call[p].op /\ call'[p].repair = call[p].repair
  /\ call'[p].step = step /\ call'[p].seen = seen
  /\ call'[p].status = status0 /\ call'[p].started = started
Notes(p, step) == Noting(p, step, call[p].seen, call[p].status, call[p].started)

(* A call under way has its fields.                                        *)
LEMMA WholeCall ==
  ASSUME CallInv, NEW p \in Owners, call[p].op # "none"
  PROVE  /\ DOMAIN call[p] = Fields /\ DOMAIN call = Owners
         /\ {"step", "op", "repair", "seen", "status", "started", "phase"} \subseteq Fields
BY IdleFields DEF CallInv, CallAt, Fields

(* What a step, the syncs and a scan note in the call.                     *)
LEMMA StepNotes ==
  ASSUME CallInv, NEW p \in Owners, call[p].op # "none", NEW step,
         call' = [call EXCEPT ![p].step = step]
  PROVE  Notes(p, step)
<1>1. /\ DOMAIN call[p] = Fields /\ DOMAIN call = Owners
      /\ {"step", "op", "repair", "seen", "status", "started", "phase"} \subseteq Fields
  BY WholeCall
<1>2. call'[p] = [call[p] EXCEPT !.step = step] /\ Others(p)
  BY <1>1 DEF Others
<1>3. /\ call'[p].op = call[p].op /\ call'[p].repair = call[p].repair /\ call'[p].step = step
      /\ call'[p].seen = call[p].seen /\ call'[p].status = call[p].status
      /\ call'[p].started = call[p].started
  BY <1>1, <1>2
<1> QED BY <1>2, <1>3 DEF Notes, Noting

LEMMA StatusNotes ==
  ASSUME CallInv, NEW p \in Owners, call[p].op # "none", NEW step, NEW value,
         call' = [call EXCEPT ![p].step = step, ![p].status = value]
  PROVE  Noting(p, step, call[p].seen, value, call[p].started)
<1>1. /\ DOMAIN call[p] = Fields /\ DOMAIN call = Owners
      /\ {"step", "op", "repair", "seen", "status", "started", "phase"} \subseteq Fields
  BY WholeCall
<1> DEFINE first == [call[p] EXCEPT !.step = step]
<1>2. /\ DOMAIN first = Fields /\ first.step = step /\ first.op = call[p].op
      /\ first.repair = call[p].repair /\ first.seen = call[p].seen
      /\ first.started = call[p].started
  BY <1>1
<1>3. call'[p] = [first EXCEPT !.status = value] /\ Others(p)
  BY <1>1 DEF Others
<1> HIDE DEF first
<1>4. /\ call'[p].op = call[p].op /\ call'[p].repair = call[p].repair /\ call'[p].step = step
      /\ call'[p].seen = call[p].seen /\ call'[p].status = value
      /\ call'[p].started = call[p].started
  BY <1>1, <1>2, <1>3
<1> QED BY <1>3, <1>4 DEF Noting

LEMMA SeenNotes ==
  ASSUME CallInv, NEW p \in Owners, call[p].op # "none", NEW step, NEW value,
         call' = [call EXCEPT ![p].seen = value, ![p].step = step]
  PROVE  Noting(p, step, value, call[p].status, call[p].started)
<1>1. /\ DOMAIN call[p] = Fields /\ DOMAIN call = Owners
      /\ {"step", "op", "repair", "seen", "status", "started", "phase"} \subseteq Fields
  BY WholeCall
<1> DEFINE first == [call[p] EXCEPT !.seen = value]
<1>2. /\ DOMAIN first = Fields /\ first.seen = value /\ first.op = call[p].op
      /\ first.repair = call[p].repair /\ first.status = call[p].status
      /\ first.started = call[p].started
  BY <1>1
<1>3. call'[p] = [first EXCEPT !.step = step] /\ Others(p)
  BY <1>1 DEF Others
<1> HIDE DEF first
<1>4. /\ call'[p].op = call[p].op /\ call'[p].repair = call[p].repair /\ call'[p].step = step
      /\ call'[p].seen = value /\ call'[p].status = call[p].status
      /\ call'[p].started = call[p].started
  BY <1>1, <1>2, <1>3
<1> QED BY <1>3, <1>4 DEF Noting

(* The checks of a reviewed completion begin (again) with nothing seen.    *)
LEMMA ChecksNote ==
  ASSUME CallInv, NEW p \in Owners, call[p].op # "none", Reviewed(p),
         \/ call' = [call EXCEPT ![p] = [Checks(p) EXCEPT !.phase = "rollback"]]
         \/ \E t : call' = [call EXCEPT ![p] = [Checks(p) EXCEPT !.started = t]]
  PROVE  /\ Others(p) /\ call'[p].op = call[p].op /\ call'[p].repair = call[p].repair
         /\ call'[p].step = "sync" /\ DOMAIN call'[p].seen = {}
<1>1. /\ DOMAIN call[p] = Fields /\ DOMAIN call = Owners
      /\ {"step", "op", "repair", "seen", "status", "started", "phase"} \subseteq Fields
  BY WholeCall
<1>2. PICK checks : checks = Checks(p)
  OBVIOUS
<1>3. PICK nothing : nothing = [w \in {} |-> 0]
  OBVIOUS
<1>4. DOMAIN nothing = {}
  BY <1>3
<1>5. /\ DOMAIN checks = Fields /\ checks.step = "sync" /\ checks.seen = nothing
      /\ checks.op = call[p].op /\ checks.repair = call[p].repair
  BY <1>1, <1>2, <1>3 DEF Checks
<1>6. CASE call' = [call EXCEPT ![p] = [checks EXCEPT !.phase = "rollback"]]
  <2>1. call'[p] = [checks EXCEPT !.phase = "rollback"] /\ Others(p)
    BY <1>1, <1>6 DEF Others
  <2> QED BY <1>1, <1>4, <1>5, <2>1
<1>7. ASSUME NEW t, call' = [call EXCEPT ![p] = [checks EXCEPT !.started = t]]
      PROVE  /\ Others(p) /\ call'[p].op = call[p].op /\ call'[p].repair = call[p].repair
             /\ call'[p].step = "sync" /\ DOMAIN call'[p].seen = {}
  <2>1. call'[p] = [checks EXCEPT !.started = t] /\ Others(p)
    BY <1>1, <1>7 DEF Others
  <2> QED BY <1>1, <1>4, <1>5, <2>1
<1> QED BY <1>2, <1>6, <1>7

-----------------------------------------------------------------------------
(* The logs.                                                               *)

(* The beginning of a log is in order as well.                             *)
LEMMA LoggedIsOrdered ==
  ASSUME NEW records, NEW t, Logged(records, t), NEW n \in 0..Len(records)
  PROVE  Ordered(SubSeq(records, 1, n))
<1>1. records \in Seq(Written) /\ Len(records) \in Nat /\ DOMAIN records = 1..Len(records)
  BY DEF Logged
<1>2. \A i \in 1..Len(records) : records[i].at \in Nat
  BY <1>1 DEF Written
<1>3. PICK part : part = SubSeq(records, 1, n)
  OBVIOUS
<1>4. Len(part) = n /\ DOMAIN part = 1..n /\ \A i \in 1..n : part[i] = records[i]
  BY <1>1, <1>3
<1>5. part \in Seq(Written)
  BY <1>1, <1>3
<1>6. \A i \in 1..n : part[i].at = records[i].at
  BY <1>4
<1>7. \A i, j \in 1..n : i <= j => part[i].at <= part[j].at
  BY <1>1, <1>6 DEF Logged
<1> QED BY <1>1, <1>2, <1>3, <1>4, <1>6, <1>7 DEF Ordered

(* What was scanned of every worker has no error that did not recover.     *)
LEMMA EvidenceMeansOk ==
  ASSUME LogInv, NEW seen, NEW status0, NEW started, DOMAIN seen = Workers,
         Scanned(seen, status0, started)
  PROVE  AllOk(seen, status0, started)
<1>1. SUFFICES ASSUME NEW w \in Workers
               PROVE  \A i \in DOMAIN SubSeq(log[w], 1, seen[w]) :
                        Ok(SubSeq(log[w], 1, seen[w]), i, status0, started)
  BY DEF AllOk
<1>2. PICK records : records = SubSeq(log[w], 1, seen[w])
  OBVIOUS
<1>3. seen[w] \in 0..Len(log[w]) /\ Scan(records, status0, started)
  BY <1>2 DEF Scanned
<1>4. Ordered(records)
  BY <1>2, <1>3, LoggedIsOrdered DEF LogInv
<1> QED BY <1>2, <1>3, <1>4, ScanMeansOk

(* What the workers log next does not change what was scanned.             *)
Grows == DOMAIN log' = Workers /\ \A w \in Workers : \A n \in 0..Len(log[w]) :
           n \in 0..Len(log'[w]) /\ SubSeq(log'[w], 1, n) = SubSeq(log[w], 1, n)

LEMMA ScannedKeeps ==
  ASSUME Grows, NEW seen, NEW status0, NEW started, Scanned(seen, status0, started)
  PROVE  /\ DOMAIN seen \subseteq Workers
         /\ \A w \in DOMAIN seen : /\ seen[w] \in 0..Len(log'[w])
                                   /\ Scan(SubSeq(log'[w], 1, seen[w]), status0, started)
BY DEF Grows, Scanned

LEMMA GrowsAnyway ==
  ASSUME LogInv, log' = log
  PROVE  Grows
BY DEF LogInv, Grows

(* A worker's loss of the beginning of its log is never undone.            *)
Loses == Covered' => Covered

(* So the evidence of a call and of the receipt stays.                     *)
LEMMA EvidenceGrows ==
  ASSUME EvidenceInv, Grows, Loses, LogInv', completion' = completion, DOMAIN call' = Owners,
         NEW p \in Owners, call'[p] = call[p]
  PROVE  EvidenceAt(p)' /\ ReceiptInv'
<1>1. ASSUME NEW seen, NEW status0, NEW started, Scanned(seen, status0, started)
      PROVE  /\ DOMAIN seen \subseteq Workers
             /\ \A w \in DOMAIN seen : /\ seen[w] \in 0..Len(log'[w])
                                       /\ Scan(SubSeq(log'[w], 1, seen[w]), status0, started)
  BY <1>1, ScannedKeeps
<1>2. ASSUME Scanned(call[p].seen, call[p].status, call[p].started)
      PROVE  Scanned(call[p].seen, call[p].status, call[p].started)'
  BY <1>1, <1>2 DEF Scanned
<1>3. EvidenceAt(p)'
  BY <1>2 DEF EvidenceInv, EvidenceAt, Evident, Reviewed, Loses
<1>4. ReceiptInv'
  <2>1. CASE completion.reviewed
    <3>1. /\ DOMAIN completion.seen = Workers
          /\ Scanned(completion.seen, completion.status, completion.started)
      BY <2>1 DEF EvidenceInv, ReceiptInv
    <3>2. Scanned(completion.seen, completion.status, completion.started)'
      BY <1>1, <3>1 DEF Scanned
    <3> QED BY <3>1, <3>2 DEF ReceiptInv
  <2> QED BY <2>1 DEF ReceiptInv
<1> QED BY <1>3, <1>4

-----------------------------------------------------------------------------
(* The steps of the production.                                            *)

LEMMA Steady ==
  ASSUME LogInv, UNCHANGED <<now, log, rotated, replaced>>
  PROVE  Grows /\ Loses /\ LogInv'
<1>1. Grows
  BY GrowsAnyway
<1>2. Loses
  BY DEF Loses, Covered
<1>3. LogInv'
  BY DEF LogInv, Logged
<1> QED BY <1>1, <1>2, <1>3

(* A report is written after what was logged before it.                    *)
LEMMA ReportKeepsTheOrder ==
  ASSUME NEW records, NEW t \in Nat, Logged(records, t), NEW report \in Reports,
         NEW more, more = [i \in DOMAIN report |->
                             [at |-> t, kind |-> report[i].kind, of |-> report[i].of]]
  PROVE  /\ Logged(records \o more, t)
         /\ \A n \in 0..Len(records) : /\ n \in 0..Len(records \o more)
                                       /\ SubSeq(records \o more, 1, n) = SubSeq(records, 1, n)
<1>1. report \in Seq(Said) /\ DOMAIN report = 1..Len(report) /\ Len(report) \in Nat
  BY ReportsAssumption
<1>2. ASSUME NEW i \in DOMAIN report
      PROVE  [at |-> t, kind |-> report[i].kind, of |-> report[i].of] \in Written
  <2>1. PICK r \in Said : r = report[i]
    BY <1>1
  <2> QED BY <2>1 DEF Written
<1>3. more \in Seq(Written)
  BY <1>1, <1>2
<1>4. records \in Seq(Written)
  BY DEF Logged
<1>5. PICK whole : whole = records \o more
  OBVIOUS
<1>6. PICK m \in Nat : m = Len(records)
  BY <1>4
<1>7. PICK k \in Nat : k = Len(more)
  BY <1>3
<1>8. /\ whole \in Seq(Written) /\ Len(whole) = m + k
      /\ \A i \in 1..(m + k) : whole[i] = IF i <= m THEN records[i] ELSE more[i - m]
  BY <1>3, <1>4, <1>5, <1>6, <1>7
<1>9. \A i \in 1..k : more[i].at = t
  BY <1>1, <1>3, <1>7
<1>10. ASSUME NEW i \in 1..(m + k)
       PROVE  IF i <= m THEN whole[i].at = records[i].at ELSE whole[i].at = t
  <2>1. CASE i <= m
    BY <1>8, <2>1
  <2>2. CASE ~(i <= m)
    <3>1. i - m \in 1..k /\ whole[i] = more[i - m]
      BY <1>8, <2>2
    <3> QED BY <1>9, <2>2, <3>1
  <2> QED BY <2>1, <2>2
<1>11. /\ \A i \in 1..m : records[i].at <= t
       /\ \A i, j \in 1..m : i <= j => records[i].at <= records[j].at
       /\ \A i \in 1..m : records[i].at \in Nat
  BY <1>4, <1>6 DEF Logged, Written
<1>12. Logged(whole, t)
  <2>1. ASSUME NEW i \in 1..(m + k)
        PROVE  whole[i].at <= t
    BY <1>10, <1>11
  <2>2. ASSUME NEW i \in 1..(m + k), NEW j \in 1..(m + k), i <= j
        PROVE  whole[i].at <= whole[j].at
    <3>1. CASE j <= m
      BY <1>10, <1>11, <2>2, <3>1
    <3>2. CASE ~(j <= m)
      BY <1>10, <2>1, <3>2
    <3> QED BY <3>1, <3>2
  <2> QED BY <1>8, <2>1, <2>2 DEF Logged
<1>13. ASSUME NEW n \in 0..m
       PROVE  n \in 0..(m + k) /\ SubSeq(whole, 1, n) = SubSeq(records, 1, n)
  BY <1>3, <1>4, <1>5, <1>6, SubSeqOfConcat1
<1> QED BY <1>5, <1>6, <1>8, <1>12, <1>13

LEMMA LogsGrow ==
  ASSUME LogInv, NEW w \in Workers, NEW report \in Reports, Report(w, report)
  PROVE  Grows /\ Loses /\ LogInv'
<1>1. UNCHANGED <<now, rotated, replaced>> /\ now \in Nat /\ DOMAIN log = Workers
  BY DEF Report, LogInv
<1>2. PICK more : more = [i \in DOMAIN report |->
                            [at |-> now, kind |-> report[i].kind, of |-> report[i].of]]
  OBVIOUS
<1>3. log' = [log EXCEPT ![w] = @ \o more]
  BY <1>2, Zenon DEF Report
<1>4. DOMAIN log' = Workers /\ \A v \in Workers : log'[v] = IF v = w THEN log[w] \o more ELSE log[v]
  BY <1>1, <1>3
<1>5. /\ Logged(log[w] \o more, now)
      /\ \A n \in 0..Len(log[w]) : /\ n \in 0..Len(log[w] \o more)
                                   /\ SubSeq(log[w] \o more, 1, n) = SubSeq(log[w], 1, n)
  <2>1. PICK records : records = log[w]
    OBVIOUS
  <2>2. Logged(records, now)
    BY <2>1 DEF LogInv
  <2> QED BY <1>1, <1>2, <2>1, <2>2, ReportKeepsTheOrder
<1>6. Grows
  BY <1>4, <1>5 DEF Grows
<1>7. Loses
  BY <1>1 DEF Loses, Covered
<1>8. LogInv'
  <2>1. ASSUME NEW v \in Workers
        PROVE  Logged(log'[v], now)
    BY <1>4, <1>5 DEF LogInv
  <2>2. ASSUME NEW v \in Workers
        PROVE  Logged(log[v], now)'
    BY <1>1, <2>1 DEF Logged
  <2> QED BY <1>1, <1>4, <2>2 DEF LogInv
<1> QED BY <1>6, <1>7, <1>8

LEMMA ProductionGrows ==
  ASSUME LogInv, Environment
  PROVE  Grows /\ Loses /\ LogInv'
<1>1. CASE Tick
  <2>1. now' = now + 1 /\ UNCHANGED <<log, rotated, replaced>>
    BY <1>1 DEF Tick
  <2>2. Grows /\ Loses
    BY <2>1, GrowsAnyway DEF Loses, Covered
  <2>3. ASSUME NEW w \in Workers
        PROVE  Logged(log[w], now)'
    <3>1. /\ log[w] \in Seq(Written) /\ \A i \in 1..Len(log[w]) : log[w][i].at <= now
          /\ \A i, j \in 1..Len(log[w]) : i <= j => log[w][i].at <= log[w][j].at
      BY DEF LogInv, Logged
    <3>2. \A i \in 1..Len(log[w]) : log[w][i].at \in Nat
      BY <3>1 DEF Written
    <3>3. \A i \in 1..Len(log[w]) : log[w][i].at <= now + 1
      BY <3>1, <3>2 DEF LogInv
    <3> QED BY <2>1, <3>1, <3>3 DEF Logged
  <2> QED BY <2>1, <2>2, <2>3 DEF LogInv
<1>2. CASE Sync
  BY <1>2, Steady DEF Sync
<1>3. ASSUME NEW w \in Workers, Rotate(w)
      PROVE  Grows /\ Loses /\ LogInv'
  <2>1. UNCHANGED <<now, log, replaced>> /\ rotated \in [Workers -> Nat] /\ DOMAIN log = Workers
        /\ Len(log[w]) \in Nat
    BY <1>3 DEF Rotate, LogInv, Logged
  <2>2. PICK n \in (rotated[w] + 1)..(Len(log[w]) + 1) : rotated' = [rotated EXCEPT ![w] = n]
    BY <1>3 DEF Rotate
  <2>3. n \in Nat /\ n # 0
    BY <2>1, <2>2
  <2>4. rotated' \in [Workers -> Nat] /\ rotated'[w] # 0
    BY <2>1, <2>2, <2>3
  <2>5. Loses
    BY <2>4 DEF Loses, Covered
  <2>6. LogInv'
    BY <2>1, <2>4 DEF LogInv, Logged
  <2> QED BY <2>1, <2>5, <2>6, GrowsAnyway
<1>4. ASSUME NEW w \in Workers, Replace(w)
      PROVE  Grows /\ Loses /\ LogInv'
  <2>1. UNCHANGED <<now, log, rotated>> /\ replaced' # {}
    BY <1>4 DEF Replace
  <2>2. Loses
    BY <2>1 DEF Loses, Covered
  <2>3. LogInv'
    BY <2>1 DEF LogInv, Logged
  <2> QED BY <2>1, <2>2, <2>3, GrowsAnyway
<1> QED BY <1>1, <1>2, <1>3, <1>4, LogsGrow DEF Environment

-----------------------------------------------------------------------------
(* The steps of the calls.                                                 *)

(* A step of a call keeps its evidence when what it notes is evidence.     *)
LEMMA NotedEvidence ==
  ASSUME UNCHANGED <<log, rotated, replaced>>, NEW p \in Owners, NEW step, NEW seen, NEW status0,
         NEW started, Noting(p, step, seen, status0, started),
         Reviewed(p) => Evident(step, seen, status0, started)
  PROVE  EvidenceAt(p)'
<1>1. ASSUME Scanned(seen, status0, started)
      PROVE  Scanned(call[p].seen, call[p].status, call[p].started)'
  <2>1. /\ DOMAIN seen \subseteq Workers
        /\ \A w \in DOMAIN seen : /\ seen[w] \in 0..Len(log'[w])
                                  /\ Scan(SubSeq(log'[w], 1, seen[w]), status0, started)
    BY <1>1 DEF Scanned
  <2> QED BY <2>1 DEF Scanned, Noting
<1>2. Covered' = Covered
  BY DEF Covered
<1>3. Reviewed(p)' = Reviewed(p) /\ call'[p].step = step /\ call'[p].seen = seen
  BY DEF Reviewed, Noting
<1> QED BY <1>1, <1>2, <1>3 DEF EvidenceAt, Evident

(* A call that is not among the checks or after them claims nothing.       *)
Silent(p) == call[p].op # "complete" \/ call[p].step \in {"lock", "check"} \/ ~Reviewed(p)

LEMMA SilentEvidence ==
  ASSUME NEW p \in Owners, Silent(p)'
  PROVE  EvidenceAt(p)'
BY DEF Silent, EvidenceAt, Evident, Vouching

LEMMA CallSteps ==
  ASSUME EvidenceInv, NEW p \in Owners, UNCHANGED <<now, log, rotated, replaced>>, Others(p),
         EvidenceAt(p)', completion' = completion \/ ReceiptInv'
  PROVE  EvidenceInv'
<1>1. Grows /\ Loses /\ LogInv' /\ DOMAIN call' = Owners
  BY Steady DEF EvidenceInv, Others
<1>2. ASSUME NEW q \in Owners \ {p}
      PROVE  EvidenceAt(q)'
  <2>1. call'[q] = call[q]
    BY DEF Others
  <2>2. UNCHANGED <<log, rotated, replaced>> /\ EvidenceAt(q)
    BY DEF EvidenceInv
  <2> QED BY <2>1, <2>2 DEF EvidenceAt, Evident, Scanned, Covered, Reviewed
<1>3. ReceiptInv'
  BY DEF EvidenceInv, ReceiptInv, Scanned
<1> QED BY <1>1, <1>2, <1>3 DEF EvidenceInv

LEMMA SilentSteps ==
  ASSUME EvidenceInv, NEW p \in Owners, UNCHANGED <<now, log, rotated, replaced, completion>>,
         Others(p), Silent(p)'
  PROVE  EvidenceInv'
BY SilentEvidence, CallSteps

(* A call that ends claims nothing.                                        *)
LEMMA LeavingSteps ==
  ASSUME IInv, EvidenceInv, NEW p \in Owners, NEW how, Leaves(p, how),
         UNCHANGED <<now, log, rotated, replaced>>, completion' = completion \/ ReceiptInv'
  PROVE  EvidenceInv'
<1>1. Left(p)
  BY LeavesEffect DEF IInv
<1>2. EvidenceAt(p)'
  BY <1>1, IdleFields, SilentEvidence DEF Left, Silent
<1> QED BY <1>1, <1>2, CallSteps DEF Left

LEMMA NotingSteps ==
  ASSUME EvidenceInv, NEW p \in Owners, UNCHANGED <<now, log, rotated, replaced, completion>>,
         NEW step, NEW seen, NEW status0, NEW started, Noting(p, step, seen, status0, started),
         Reviewed(p) => Evident(step, seen, status0, started)
  PROVE  EvidenceInv'
<1>1. EvidenceAt(p)'
  BY NotedEvidence
<1>2. Others(p)
  BY DEF Noting
<1> QED BY <1>1, <1>2, CallSteps

(* What each check notes.                                                  *)
LEMMA ScanVouches ==
  ASSUME IInv, EvidenceInv, NEW p \in Owners, Reviewed(p), NEW w \in Workers,
         At(p, "complete", "scan"), Covered,
         Scan(Readable(w), call[p].status, call[p].started),
         NEW seen, seen = WithScan(call[p].seen, w)
  PROVE  /\ DOMAIN seen = DOMAIN call[p].seen \cup {w}
         /\ Scanned(seen, call[p].status, call[p].started)
<1>1. PICK before : before = call[p].seen
  OBVIOUS
<1>2. PICK status0 : status0 = call[p].status
  OBVIOUS
<1>3. PICK started : started = call[p].started
  OBVIOUS
<1>4. Scanned(before, status0, started)
  BY <1>1, <1>2, <1>3 DEF EvidenceInv, EvidenceAt, Evident, At
<1>5. PICK n : n = Len(log[w])
  OBVIOUS
<1>6. /\ DOMAIN seen = DOMAIN before \cup {w}
      /\ \A v \in DOMAIN seen : seen[v] = IF v = w THEN n ELSE before[v]
  BY <1>1, <1>5 DEF WithScan
<1>7. Readable(w) = SubSeq(log[w], 1, n)
  BY <1>5 DEF Readable, Covered
<1>8. Scan(SubSeq(log[w], 1, n), status0, started)
  BY <1>2, <1>3, <1>7
<1>9. n \in 0..Len(log[w])
  BY <1>5 DEF EvidenceInv, LogInv, Logged
<1>10. ASSUME NEW v \in DOMAIN seen
       PROVE  v \in Workers /\ seen[v] \in 0..Len(log[v])
              /\ Scan(SubSeq(log[v], 1, seen[v]), status0, started)
  <2>1. CASE v = w
    BY <1>6, <1>8, <1>9, <2>1
  <2>2. CASE v # w
    <3>1. v \in DOMAIN before /\ seen[v] = before[v]
      BY <1>6, <2>2
    <3> QED BY <1>4, <3>1 DEF Scanned
  <2> QED BY <2>1, <2>2
<1>11. Scanned(seen, status0, started)
  BY <1>10 DEF Scanned
<1> QED BY <1>1, <1>2, <1>3, <1>6, <1>11

LEMMA ChecksVouch ==
  ASSUME IInv, EvidenceInv, NEW p \in Owners,
         \/ CheckComplete(p) \/ CheckSync(p) \/ StartCoverage(p) \/ EndCoverage(p)
         \/ (\E w \in Workers : ScanWorker(p, w)) \/ RetainEvidence(p)
  PROVE  EvidenceInv'
<1> USE DEF At
<1>1. call[p].op = "complete" /\ call[p].op # "none" /\ CallInv
      /\ UNCHANGED <<now, log, rotated, replaced, completion>>
  BY DEF CheckComplete, CheckSync, StartCoverage, EndCoverage, ScanWorker, RetainEvidence,
         Keeps, production, recovery, IInv
<1>2. ASSUME NEW how, Ends(p, how)
      PROVE  EvidenceInv'
  BY <1>1, <1>2, LeavingSteps DEF Ends
<1>3. EvidenceAt(p)
  BY DEF EvidenceInv
<1>4. ASSUME NEW step, Goes(p, step),
             Reviewed(p) => Evident(step, call[p].seen, call[p].status, call[p].started)
      PROVE  EvidenceInv'
  <2>1. Notes(p, step)
    BY <1>1, <1>4, StepNotes DEF Goes
  <2> QED BY <1>1, <1>4, <2>1, NotingSteps DEF Notes
<1>5. CASE CheckComplete(p)
  <2>1. CASE call' = [call EXCEPT ![p] =
                        [Checks(p) EXCEPT !.started = IF Reviewed(p) THEN now ELSE 0]]
             /\ UNCHANGED <<lock, result, counts>>
    <3>1. PICK t : t = IF Reviewed(p) THEN now ELSE 0
      OBVIOUS
    <3>2. call' = [call EXCEPT ![p] = [Checks(p) EXCEPT !.started = t]] /\ lock' = lock
      BY <2>1, <3>1
    <3>3. CASE Reviewed(p)
      <4>1. /\ Others(p) /\ call'[p].op = call[p].op /\ call'[p].repair = call[p].repair
            /\ call'[p].step = "sync" /\ DOMAIN call'[p].seen = {}
        BY <1>1, <3>2, <3>3, ChecksNote
      <4>2. EvidenceAt(p)'
        BY <4>1 DEF EvidenceAt, Evident, Vouching
      <4> QED BY <1>1, <4>1, <4>2, CallSteps
    <3>4. CASE ~Reviewed(p)
      <4>1. Moved(p, IF Reviewed(p) THEN "sync" ELSE "scan")
        BY <1>1, <3>2, ChecksEffect
      <4>2. Silent(p)' /\ Others(p)
        BY <3>4, <4>1 DEF Silent, Reviewed, Moved
      <4> QED BY <1>1, <4>2, SilentSteps
    <3> QED BY <3>3, <3>4
  <2> QED BY <1>2, <1>5, <2>1 DEF CheckComplete
<1>6. CASE CheckSync(p)
  <2>1. CASE call' = [call EXCEPT ![p].step = "start", ![p].status = status]
             /\ UNCHANGED <<lock, result, counts>>
    <3>1. Noting(p, "start", call[p].seen, status, call[p].started)
      BY <1>1, <2>1, StatusNotes
    <3>2. Reviewed(p) => Evident("start", call[p].seen, status, call[p].started)
      BY <1>1, <1>3, <1>6 DEF CheckSync, EvidenceAt, Evident, Vouching
    <3> QED BY <1>1, <3>1, <3>2, NotingSteps
  <2> QED BY <1>2, <1>6, <2>1 DEF CheckSync
<1>7. CASE StartCoverage(p)
  <2>1. CASE Goes(p, "scan")
    <3>1. Reviewed(p) => DOMAIN call[p].seen = {}
      BY <1>1, <1>3, <1>7 DEF StartCoverage, EvidenceAt, Evident
    <3>2. Reviewed(p) => Evident("scan", call[p].seen, call[p].status, call[p].started)
      BY <3>1 DEF Evident, Scanned, Vouching
    <3> QED BY <1>4, <2>1, <3>2
  <2> QED BY <1>2, <1>7, <2>1 DEF StartCoverage
<1>8. CASE EndCoverage(p)
  <2>1. ASSUME NEW step \in {"retain", "final"}, Goes(p, step), ~Reviewed(p) \/ Covered
        PROVE  EvidenceInv'
    <3>1. Reviewed(p) => Evident(step, call[p].seen, call[p].status, call[p].started)
      BY <1>1, <1>3, <1>8, <2>1 DEF EndCoverage, EvidenceAt, Evident, Vouching
    <3> QED BY <1>4, <2>1, <3>1
  <2> QED BY <1>2, <1>8, <2>1 DEF EndCoverage
<1>9. CASE RetainEvidence(p)
  <2>1. CASE Goes(p, "switch")
    <3>1. Reviewed(p) => Evident("switch", call[p].seen, call[p].status, call[p].started)
      BY <1>1, <1>3, <1>9 DEF RetainEvidence, EvidenceAt, Evident, Vouching
    <3> QED BY <1>4, <2>1, <3>1
  <2> QED BY <1>2, <1>9, <2>1 DEF RetainEvidence
<1>10. ASSUME NEW w \in Workers, ScanWorker(p, w)
       PROVE  EvidenceInv'
  <2>1. CASE Ends(p, "failed")
    BY <1>2, <2>1
  <2>2. CASE ~Ends(p, "failed")
    <3>1. PICK seen : seen = WithScan(call[p].seen, w)
      OBVIOUS
    <3>2. PICK step : step = IF DOMAIN call[p].seen \cup {w} = Workers THEN "end" ELSE call[p].step
      OBVIOUS
    <3>3. /\ call[p].step = "scan" /\ Scan(Readable(w), call[p].status, call[p].started)
          /\ call' = [call EXCEPT ![p].seen = seen, ![p].step = step]
      BY <1>10, <2>2, <3>1, <3>2 DEF ScanWorker
    <3>4. Noting(p, step, seen, call[p].status, call[p].started)
      BY <1>1, <3>3, SeenNotes
    <3>5. Reviewed(p) /\ Covered => Scanned(seen, call[p].status, call[p].started)
      BY <1>1, <3>1, <3>3, ScanVouches
    <3>6. DOMAIN seen = DOMAIN call[p].seen \cup {w}
      BY <3>1 DEF WithScan
    <3>7. step \in {"scan", "end"} /\ (step = "end" => DOMAIN seen = Workers)
      BY <3>2, <3>3, <3>6
    <3>8. Reviewed(p) => Evident(step, seen, call[p].status, call[p].started)
      BY <3>5, <3>7 DEF Evident, Vouching
    <3> QED BY <1>1, <3>4, <3>8, NotingSteps
  <2> QED BY <2>1, <2>2
<1> QED BY <1>5, <1>6, <1>7, <1>8, <1>9, <1>10

(* The receipt repeats the evidence of its call.                           *)
LEMMA ReceiptVouches ==
  ASSUME EvidenceInv, NEW p \in Owners, At(p, "complete", "record"), completion' = Receipt(p),
         UNCHANGED log
  PROVE  ReceiptInv'
<1>1. Reviewed(p) => /\ DOMAIN call[p].seen = Workers
                     /\ Scanned(call[p].seen, call[p].status, call[p].started)
  BY DEF EvidenceInv, EvidenceAt, Evident, Vouching, At
<1>2. PICK receipt : receipt = Receipt(p)
  OBVIOUS
<1>3. /\ receipt.reviewed = Reviewed(p) /\ receipt.seen = call[p].seen
      /\ receipt.status = call[p].status /\ receipt.started = call[p].started
  BY <1>2 DEF Receipt
<1>4. receipt.reviewed => /\ DOMAIN receipt.seen = Workers
                          /\ Scanned(receipt.seen, receipt.status, receipt.started)
  BY <1>1, <1>3
<1> QED BY <1>2, <1>4 DEF ReceiptInv, Scanned

LEMMA RollbackVouches ==
  ASSUME IInv, EvidenceInv, NEW p \in Owners, Rollback(p)
  PROVE  EvidenceInv'
<1> USE DEF At
<1>1. call[p].op = "complete" /\ call[p].op # "none" /\ CallInv
      /\ UNCHANGED <<now, log, rotated, replaced>>
  BY DEF Rollback, SwitchFirst, SwitchRestored, SwitchFinal, RemoveSlots, CompletePlan,
         RecordCompletion, production, IInv
<1>2. EvidenceAt(p)
  BY DEF EvidenceInv
<1>3. ASSUME NEW step \in Vouching, Goes(p, step), call[p].step \in Vouching,
             completion' = completion
      PROVE  EvidenceInv'
  <2>1. Notes(p, step)
    BY <1>1, <1>3, StepNotes DEF Goes
  <2>2. Reviewed(p) => Evident(step, call[p].seen, call[p].status, call[p].started)
    BY <1>1, <1>2, <1>3 DEF EvidenceAt, Evident, Vouching
  <2> QED BY <1>1, <1>3, <2>1, <2>2, NotingSteps DEF Notes
<1>4. CASE SwitchFirst(p) \/ SwitchFinal(p) \/ RemoveSlots(p) \/ CompletePlan(p)
  BY <1>3, <1>4 DEF SwitchFirst, SwitchFinal, RemoveSlots, CompletePlan, Vouching
<1>5. CASE SwitchRestored(p)
  <2>1. /\ call' = [call EXCEPT ![p] = [Checks(p) EXCEPT !.phase = "rollback"]]
        /\ lock' = lock /\ completion' = completion
    BY <1>5 DEF SwitchRestored
  <2>2. CASE Reviewed(p)
    <3>1. /\ Others(p) /\ call'[p].op = call[p].op /\ call'[p].repair = call[p].repair
          /\ call'[p].step = "sync" /\ DOMAIN call'[p].seen = {}
      BY <1>1, <2>1, <2>2, ChecksNote
    <3>2. EvidenceAt(p)'
      BY <3>1 DEF EvidenceAt, Evident, Vouching
    <3> QED BY <1>1, <2>1, <3>1, <3>2, CallSteps
  <2>3. CASE ~Reviewed(p)
    <3>1. Moved(p, IF Reviewed(p) THEN "sync" ELSE "scan")
      BY <1>1, <2>1, ChecksEffect
    <3>2. Silent(p)' /\ Others(p)
      BY <2>3, <3>1 DEF Silent, Reviewed, Moved
    <3> QED BY <1>1, <2>1, <3>2, SilentSteps
  <2> QED BY <2>2, <2>3
<1>6. CASE RecordCompletion(p)
  <2>1. ReceiptInv'
    BY <1>1, <1>6, ReceiptVouches DEF RecordCompletion
  <2> QED BY <1>1, <1>6, <2>1, LeavingSteps DEF RecordCompletion, Ends
<1> QED BY <1>4, <1>5, <1>6 DEF Rollback

(* A failed step claims nothing; a receipt that was written nevertheless is*)
(* that of the call.                                                       *)
LEMMA FaultVouches ==
  ASSUME IInv, EvidenceInv, NEW p \in Owners, Fault(p)
  PROVE  EvidenceInv'
<1>1. UNCHANGED <<now, log, rotated, replaced>> /\ CallInv
  BY DEF Fault, production, IInv
<1>2. CASE FaultComplete(p)
  <2>1. CASE completion' = completion
    BY <1>1, <1>2, <2>1, LeavingSteps DEF FaultComplete
  <2>2. CASE completion' # completion
    <3>1. At(p, "complete", "record") /\ completion' = Receipt(p)
      BY <1>2, <2>2 DEF FaultComplete, At
    <3>2. ReceiptInv'
      BY <1>1, <3>1, ReceiptVouches
    <3> QED BY <1>1, <1>2, <3>2, LeavingSteps DEF FaultComplete
  <2> QED BY <2>1, <2>2
<1>3. CASE FaultInstall(p) \/ FaultApply(p)
  <2>1. completion' = completion /\ call[p].op \in {"install", "apply"} /\ call[p].op # "none"
    BY <1>3 DEF FaultInstall, FaultApply, recovery
  <2>2. ASSUME NEW how, Leaves(p, how)
        PROVE  EvidenceInv'
    BY <1>1, <2>1, <2>2, LeavingSteps
  <2>3. ASSUME NEW step, Handles(p, step)
        PROVE  EvidenceInv'
    <3>1. Notes(p, step)
      BY <1>1, <2>1, <2>3, StepNotes DEF Handles
    <3>2. Silent(p)' /\ Others(p)
      BY <2>1, <3>1 DEF Notes, Noting, Silent
    <3> QED BY <1>1, <2>1, <3>2, SilentSteps
  <2> QED BY <1>3, <2>2, <2>3 DEF FaultInstall, FaultApply
<1> QED BY <1>2, <1>3 DEF Fault

(* No other operation looks at the logs.                                   *)
LEMMA OtherOperations ==
  ASSUME IInv, EvidenceInv, NEW p \in Owners,
         (\E o \in Operations : Begin(p, o)) \/ Lock(p) \/ Install(p) \/ Apply(p) \/ Kill(p)
  PROVE  EvidenceInv'
<1>1. CallInv /\ DOMAIN call = Owners
  BY DEF IInv, CallInv
<1>2. ASSUME NEW o \in Operations, Begin(p, o)
      PROVE  EvidenceInv'
  <2>1. /\ UNCHANGED <<now, log, rotated, replaced, completion>>
        /\ call'[p].step = "lock" /\ Others(p)
    BY <1>1, <1>2 DEF Begin, Keeps, production, recovery, Others
  <2> QED BY <2>1, SilentSteps DEF Silent
<1>3. CASE Lock(p)
  <2>1. UNCHANGED <<now, log, rotated, replaced, completion>> /\ call[p].op # "none"
    BY <1>3 DEF Lock, Keeps, production, recovery
  <2>2. CASE lock = Nobody
    <3> DEFINE first == [call[p] EXCEPT !.step = "check"]
               second == [first EXCEPT !.runtime = runtime]
    <3>1. call'[p] = [second EXCEPT !.config = config] /\ Others(p)
      BY <1>1, <1>3, <2>2 DEF Lock, Others
    <3>2. DOMAIN call[p] = Fields /\ {"step", "runtime", "config"} \subseteq Fields
      BY <1>1, <2>1, WholeCall DEF Fields
    <3>3. DOMAIN first = Fields /\ first.step = "check"
      BY <3>2
    <3> HIDE DEF first
    <3>4. DOMAIN second = Fields /\ second.step = "check"
      BY <3>2, <3>3
    <3> HIDE DEF second
    <3>5. call'[p].step = "check"
      BY <3>1, <3>2, <3>4
    <3> QED BY <2>1, <3>1, <3>5, SilentSteps DEF Silent
  <2>3. CASE lock # Nobody
    BY <1>3, <2>1, <2>3, LeavingSteps DEF Lock
  <2> QED BY <2>2, <2>3
<1>4. CASE Kill(p)
  BY <1>4, LeavingSteps DEF Kill, Keeps, production, recovery
<1>5. CASE Install(p) \/ Apply(p)
  <2>1. /\ call[p].op \in {"install", "apply"} /\ call[p].op # "none"
        /\ UNCHANGED <<now, log, rotated, replaced, completion>>
    BY <1>5 DEF Install, CheckInstall, CopyInstall, Activate, RecordInstall, RestoreFile, Apply,
       CheckApply, CopyConfig, WriteConfig, RecordConfig, PlanAgain, RestoreConfig, UnlinkReceipt,
       At, Keeps, recovery, production
  <2>2. ASSUME NEW how, Ends(p, how)
        PROVE  EvidenceInv'
    BY <2>1, <2>2, LeavingSteps DEF Ends
  <2>3. ASSUME NEW step, Goes(p, step)
        PROVE  EvidenceInv'
    <3>1. Notes(p, step)
      BY <1>1, <2>1, <2>3, StepNotes DEF Goes
    <3>2. Silent(p)' /\ Others(p)
      BY <2>1, <3>1 DEF Notes, Noting, Silent
    <3> QED BY <2>1, <3>2, SilentSteps
  <2> QED BY <1>5, <2>2, <2>3
       DEF Install, CheckInstall, CopyInstall, Activate, RecordInstall, RestoreFile, Apply,
           CheckApply, CopyConfig, WriteConfig, RecordConfig, PlanAgain, RestoreConfig, UnlinkReceipt
<1> QED BY <1>2, <1>3, <1>4, <1>5

(* Whatever the production does, what was scanned was there.               *)
LEMMA EnvironmentVouches ==
  ASSUME IInv, EvidenceInv, Environment \/ UNCHANGED vars
  PROVE  EvidenceInv'
<1>1. UNCHANGED <<completion, call>>
  BY DEF Environment, Tick, Sync, Rotate, Replace, Report, vars, recovery, calling
<1>2. Grows /\ Loses /\ LogInv'
  <2>1. CASE Environment
    BY <2>1, ProductionGrows DEF EvidenceInv
  <2>2. CASE UNCHANGED vars
    BY <2>2, Steady DEF EvidenceInv, vars, production
  <2> QED BY <2>1, <2>2
<1>3. DOMAIN call' = Owners
  BY <1>1 DEF IInv, CallInv
<1>4. ASSUME NEW p \in Owners
      PROVE  EvidenceAt(p)' /\ ReceiptInv'
  BY <1>1, <1>2, <1>3, EvidenceGrows
<1>5. ReceiptInv'
  <2>1. CASE completion.reviewed
    <3>1. /\ DOMAIN completion.seen = Workers
          /\ Scanned(completion.seen, completion.status, completion.started)
      BY <2>1 DEF EvidenceInv, ReceiptInv
    <3>2. Scanned(completion.seen, completion.status, completion.started)'
      BY <1>1, <1>2, <3>1, ScannedKeeps DEF Scanned
    <3> QED BY <1>1, <3>1, <3>2 DEF ReceiptInv
  <2> QED BY <1>1, <2>1 DEF ReceiptInv
<1> QED BY <1>2, <1>4, <1>5 DEF EvidenceInv

LEMMA EvidenceStep == IInv /\ EvidenceInv /\ [Next]_vars => EvidenceInv'
<1> SUFFICES ASSUME IInv, EvidenceInv, [Next]_vars PROVE EvidenceInv'
  OBVIOUS
<1>1. CASE Environment \/ UNCHANGED vars
  BY <1>1, EnvironmentVouches
<1>2. ASSUME NEW p \in Owners, Call(p) \/ Fault(p) \/ Kill(p)
      PROVE  EvidenceInv'
  BY <1>2, ChecksVouch, RollbackVouches, FaultVouches, OtherOperations DEF Call, Complete
<1> QED BY <1>1, <1>2 DEF Next

LEMMA EvidenceStart == Init => EvidenceInv
<1> SUFFICES ASSUME Init PROVE EvidenceInv
  OBVIOUS
<1>1. LogInv
  <2>1. now \in Nat
    BY BoundsAssumption DEF Init
  <2>2. ASSUME NEW w \in Workers
        PROVE  Logged(log[w], now)
    BY DEF Init, Logged
  <2> QED BY <2>1, <2>2 DEF Init, LogInv
<1>2. \A p \in Owners : EvidenceAt(p)
  BY IdleFields DEF Init, EvidenceAt
<1>3. ReceiptInv
  BY DEF Init, ReceiptInv, NoReceipt
<1> QED BY <1>1, <1>2, <1>3 DEF EvidenceInv

(* A reviewed recovery moves traffic, cleans up and writes its receipt only*)
(* when no worker logged, from the reviewed second to the last scan, an    *)
(* error that did not recover, whatever Docker rotated away in between.    *)
THEOREM TheCleanupSawEverything == Spec => []CleanupSawEverything
<1>1. EvidenceInv => CleanupSawEverything
  <2> SUFFICES ASSUME EvidenceInv PROVE CleanupSawEverything
    OBVIOUS
  <2>1. LogInv /\ ReceiptInv /\ \A p \in Owners : EvidenceAt(p)
    BY DEF EvidenceInv
  <2>2. ASSUME NEW p \in Owners, call[p].op = "complete", Reviewed(p), call[p].step \in Vouching
        PROVE  AllOk(call[p].seen, call[p].status, call[p].started)
    <3>1. /\ DOMAIN call[p].seen = Workers
          /\ Scanned(call[p].seen, call[p].status, call[p].started)
      BY <2>1, <2>2 DEF EvidenceAt, Evident
    <3> QED BY <2>1, <3>1, EvidenceMeansOk
  <2>3. completion.reviewed => AllOk(completion.seen, completion.status, completion.started)
    BY <2>1, EvidenceMeansOk DEF ReceiptInv
  <2> QED BY <2>2, <2>3 DEF CleanupSawEverything, Vouching
<1> QED BY <1>1, Start, Step, EvidenceStart, EvidenceStep, PTL DEF Spec
=============================================================================
