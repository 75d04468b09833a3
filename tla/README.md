# A formal model of the B-UH Alliance Auth platform

This directory holds TLA+ models of the programs in this repository, the TLC
configurations that check them on small instances, and theorems about them that
TLAPS checks for every value of the constants. Each definition is translated
from the code it names in `PROJECT.json` ("map"), never from a document; where
a document, a comment or a test says something else than the code does, section
6 says so.

## 1. The system

The repository is a platform around an Alliance Auth installation: Django
applications (`apps/`), the tools that prepare, qualify and approve releases of
them (`ops/readiness.py`, `ops/release` and the workflows), and the host program
that installs a release (`ops/deploy`).

| Part | State | Operations | Interacts with |
|---|---|---|---|
| Readiness (`ops/readiness.py`, `invalidate-readiness.yml`) | labels and one pointer comment of a pull request | invalidate, collect, publish, signal; verify after the merge | GitHub events; the builder reads the verdict |
| Release ledger and builder (`buh_release`, `ledger`, `open_sync_pr`) | an append-only history in git, two branches of a release, its synchronization PR | plan, build, replay, push, open one PR | GitHub; produces what is approved |
| Approval and continuation (`platform_approval`, `reviewed_manual_deployment`, `approved_deployment_continuation`, `validation_recovery`) | comments, checks, artifacts and commits at GitHub | readiness, approve, authorize at four boundaries, recover a published release, continue an approved deployment | sends archives to the host |
| Deployment engine, host backend, startup recovery (`receiver`, `engine`, `docker_host`) | attempt journals, `current.json`, `active-recovery.json`, `CURRENT.json`, upstream file, Dockerfile, images and containers, schema, static manifest | deploy, preflight, rollback, recover | Docker, Nginx, MariaDB |
| Receiver self-upgrade (`receiver_upgrade.py`) | the live paths of the receiver, backups, transaction records | upgrade, nested preflight, restore, recover | holds the receiver's lock and runs it |
| Reviewed recoveries and maintenance (`worker_recovery`, `reviewed_recovery`, `recovered_logs`, `history_config_maintenance`, ...) | backups and receipts, the retained plan | install a repair, complete a rollback, change the configuration | the backend above, the retained workers' logs |
| ESI token refresh guard (`apps/structure-ops/token_refresh.py`) | token rows of django-esi | refresh, refresh_or_delete, bulk_refresh, require_valid | every task that uses a token; EVE SSO rotates the grant |
| Public archive mirror (`apps/esi-history`) | job rows, file rows, payloads and revisions on disk | queue, run, expire and fail a job; download, retain, replace | Celery, MariaDB advisory lock, file system |
| Moon Tax (`apps/moon-tax`) | payments, allocations, bills, adjustments, periods, exemptions | decide, exclude, restore, adjust, reverse, edit, audit | directors, administrators, audit tasks |
| VPS Health guarded operations (`apps/vps-health`) | action rows; the agent's files, `.env`, compose | request, run, report, synchronise | root agent behind a unix socket |
| ESI collection, archive pages, structure alerts and access roles, VPS Health sampling, Member Audit registration, mining reports, diagnostics, workflows | see section 7 | | |

What is hard in them: a deployment is some forty statements over six places that
no transaction spans, any of which may fail and between any two of which the
process may be killed; the receiver that finds the remains knows only what was
written ahead. The release tools decide from remote evidence that changes
between two requests, and whose writes may be done although their answer is
lost. The Django applications run in several workers, and their correctness is
one of row locks, advisory locks and stale reads.

`PROJECT.json` lists the hazards line by line, each with the properties that
would catch it going wrong, or the reason why none does.

## 2. Modules

| Module | Contents |
|---|---|
| `Deployment` | the receiver process, its backend, Docker and Nginx: one action per statement that changes state |
| `DeploymentProperties`, `DeploymentProofs` | what it promises, with the refinement mapping; proofs |
| `ReleaseTransaction` | the abstract specification: production is one release, or one transaction is open |
| `ReceiverUpgrade`, `ReceiverProperties` | the receiver's installer; what it promises |
| `RetainedLogs` | the scan of a retained worker's log, as operators on record sequences |
| `ReviewedRecovery`, `RecoveryProperties`, `RecoveryMC`, `RecoveryProofs` | the owner's operations after an incomplete rollback; what they promise; the instance; proofs |
| `ReleasePlan`, `ReleaseLedger` | planning of versions and manifests; the replay of all published releases |
| `ReleasePipeline`, `ReleaseProperties`, `ReleaseMC` | builds, merges and pull requests over both; what they promise; the instance |
| `PlatformApproval`, `ApprovalProperties`, `ApprovalProofs` | from a published release to production; proofs |
| `PublishedRecovery`, `PublishedRecoveryProperties`, `PublishedRecoveryProofs` | the recovery of a release that was published but never qualified; proofs |
| `PullReadiness`, `ReadinessProperties`, `ReadinessProofs` | readiness of a feature pull request; proofs |
| `TokenRefresh`, `TokenRefreshProperties` | the token table, SSO and the tasks that refresh under row locks; what they promise |
| `MirrorJobs`, `MirrorProperties` | job rows, the session lock, downloads, revisions and inodes; what they promise |
| `MoonTaxLedger` | the accounting rules as operators on rows |
| `MoonTaxBilling`, `MoonTaxProperties`, `MoonTaxMC` | the transactions and their locks; what they promise; the instance |
| `HostActions`, `HostActionsProperties` | views, agent and pages of the guarded operations |
| `HostProofs` | proofs about the two root services of the host: `ReceiverUpgrade` and `HostActions` |
| `ReleaseAndTokenProofs` | proofs about `ReleasePipeline` and about `TokenRefresh` |
| `ApplicationProofs` | proofs about two applications: `MirrorJobs` and `MoonTaxBilling` |

`X` holds the state machine, `XProperties` what it promises, `XProofs` the
theorems, `XMC` the data of an instance that a `.cfg` cannot write. Two
specifications whose names are all different share a module of proofs; nothing
connects them there. The runs check `XProperties` or `XMC`. `ReleasePipeline` is composed of `ReleasePlan` and
`ReleaseLedger`, `ReviewedRecovery` of `RetainedLogs`, `MoonTaxBilling` of
`MoonTaxLedger`. The parts meet at narrow places which each model shows from its
own side: `PullReadiness` ends where the builder starts, `ReleasePipeline` where
`PlatformApproval` starts, what it sends is what `Deployment` receives, and
`ReceiverUpgrade` and `ReviewedRecovery` hold the lock that `Deployment` runs under.

### Deployment

| Variable | Code |
|---|---|
| `plan` | `active-recovery.json` (`_save_recovery_plan`), or `NoPlan` |
| `journal` | `attempts/<id>.json` (`DeploymentJournal`, `PreflightJournal`) |
| `lineage`, `marker` | `current.json` of the receiver, `CURRENT.json` of the application |
| `upstream`, `dockerfile` | the managed Nginx upstream file, the custom Dockerfile |
| `reference`, `image` | the image the Compose reference names, the image each container runs |
| `static`, `schema` | the shared static manifest, the migrations the database has |
| `loaded`, `serving` | the route the Nginx master has loaded, and which of its servers still have the address it resolved |
| `undone`, `torn` | history that no statement reads: attempts in rollback whose success is still on record; a startup dropped the plan of one, and nothing was verified since |
| `pc`, `bundle`, `flags`, `orig`, `baselines`, `prior`, `failed`, `passed`, `error` | the memory of the receiver process: statement, request, the `*_started` flags, the captured originals, `restart_baselines`, the bytes `_activate_upstream` replaced, `rollback`'s error list |

Actions follow the code in order: `ReceiveArchive`, `Startup` (`DropStalePlan`,
`RecoverPlan`), the stages of `DeploymentEngine.run` (`Validate` ... `Cleanup`),
the write-ahead of each flag (`SavePlan`), a traffic boundary in two statements
(`WriteUpstream`, `Reload`), the rollback (`RollbackStarts` ... `Record`) and,
for each of them, its failure. `Crash` kills the process anywhere.

Abstractions, all of data: a release is its version number, and images, the
Dockerfile, the manifest and the markers are the version they belong to; each
service has one container and each slot role one slot; a health check, a smoke
check or a probe passes or raises (what it compares that other statements change
is modelled, what it measures is not); a statement that fails has no effect of
its own; the `journal.advance` that ends a stage is part of its last statement.
The writes that matter (`verified`, the success record, `current.json`, the
removal of the plan) are separate actions. Nginx is external: it loads a file
only when every server in it resolves, and a failing reload may leave the old
route, the new one, or the restored one. The lock is `pc = "idle"`.
Any of them may fail. `LineageWriteFails` is the write of `current.json`, whose
rollback runs under a success record that a later startup trusts: `undone` and
`torn` remember that, and the properties name it as their exception (section 6,
"revoked success"). `CaptureFails` is the stretch of `prepare_candidate` in which
`original_dockerfile` is set and the plan is not yet saved: the rollback is then a
prepared one with no flag set, which changes nothing and reports either verdict;
everywhere else `Prepared` is "the plan was saved by this process, or read".

### ReceiverUpgrade

| Variable | Code |
|---|---|
| `live`, `disk` | what each live path shows, and the contents a power loss may leave there |
| `made`, `commit`, `payload`, `state` | the backups: what each attempt installs, what it saved, its `transaction.json` |
| `pc`, `recovering`, `cur`, `at`, `mutated`, `interrupted`, `unresolved` | the process that holds the lock: statement, command, backup, path, `live_mutation_started`, the termination guard, `_NestedPreflightRecoveryError` |
| `child`, `childOf`, `marker` | the nested preflight, and `active-recovery.json` it may leave |

`OpenUpgrade` ... `Confirm` is `upgrade`, `OpenRecovery` ... `RecordRestored` is
`recover` and the restoration of a failed upgrade; `Record`/`RecordFails` are the
transaction record, written by rename and flush. `Fail` is an exception or a
caught signal at any statement, `Kill` a SIGKILL, `PowerLoss` chooses one content
of `disk` for every path. The nested preflight is `Deployment`, seen from
outside: it arms and consumes a plan, exits, fails or hangs. A path's bytes, owner and
mode are one value. Reading the manifests and checking the archive refuse before
anything changes and are left out.

### ReviewedRecovery

The owner runs one of three operations at a time from one of two shells
(`call`): `install` a repair, `complete` the incomplete rollback, `apply` the
configuration maintenance. `runtime`, `backups`, `receipts` are the receiver's
file, the copies kept of it and the repairs' receipts; `plan`, `slots`,
`upstream`, `completion` are what the retained rollback left and the receipt of
its completion; `config`, `kept`, `configured` the configuration, its backup and
its receipt. Meanwhile the retained workers log records (`log`), sync, lose the
start of their logs (`rotated`) or are replaced. `RetainedLogs` has the batches and
incidents, as sets of a log's positions, and the strict and reviewed classification of
records, as the backend and `recovered_logs.py` define them. Validity of review files and
history evidence is a precondition; restored-file and health checks are failing steps; the audit
of member data is left out; the normal receiver is held, as the code requires.

### ReleasePlan, ReleaseLedger, ReleasePipeline

A source tree is the content of each application (the pull requests that touched
it), the platform's, version files, change fragments and the ledger. `ReleasePlan`
computes the versions, the manifest and the released tree; `ReleaseLedger`
replays every published release from its parents (`ReleaseVerified`,
`LedgerVerifies`). In `ReleasePipeline`, `history` is all commits, `main`,
`release`, `sync`, `request` the branches and pull requests, `build` the one
publishing build with its phase. People merge features (`MergePull`),
synchronizations (`MergeSync`) and update branches at any moment; `Push` is
atomic over both branches and its answer, like that of `CreateRequest`, may be
lost. The bytes of wheels are their content, and hashing is equality.

### PlatformApproval and PublishedRecovery

`PlatformApproval` follows a version from `Publish` over its automatic preflight
and readiness comment (`ReadEvidence`, `ReadAgain`, `PostReady`) to the owner's
merge, whose message copies the marker, and the deployment run, which reads all
evidence twice at each of four boundaries (`GateRead`: `FirstPass`, `LastPass`;
`Reads = 8`) and takes the production group before the last ones. Manual
preflights and deployments (`reviewed_manual_deployment.py`) share that group.
Between two reads anything remote may change: main moves, checks run again,
comments and artifacts go, branches are updated, workflows are run again. A read
is one pass over all evidence and one step; in the code it is a series of
requests, and main may move after it was looked at (`platform_approval.py:5116`)
before the pass is over. `AuthorizesTheNewest` is about that look at main.

`PublishedRecovery` is the other way to production: a release commit whose
required check failed cannot change, so reviewed repairs are merged onto main,
a recovery run (`PublishCheck`) publishes the check, a readiness record is posted
and superseded by a second one after the synchronization branch was updated, and
the merge is authorized from those; a deployment that stopped before the server
is continued once. A repeated test runs the ledger lane of its own commit: that of the
last repair is `PendingLedger`, those of the repairs before it are no longer in the
source and may pass (`EarlierLane`). A tree is the set of commits whose content it holds; `contract`
records what each merged stage of the reviewed contract fixes; `Init` is main
after the continuation, with the two failed recovery runs and the failed check.
This is the historical contract kept in `ops/release/history`; at this commit its
live entry points refuse, since the contract file is gone. A check GitHub does
not list yet makes the run wait or fail; a run that stops while it reads
is a refusal. Protection settings, actors, attempt numbers of recovery workflows,
preflight evidence of the features and the formats of answers are left out.

### PullReadiness

One pull request: `head`, `base`, `labels`, the newest run of each workflow
(`newest`, `status`), `review`, `serious`, `resolved`, the pointer comment (`state`,
`pointed`, `recorded`), the policy run that works (`step`, `event`, `target`,
`consumed`, and what it has read, `seen` and `record`) and the event that waits
(`waiting`; a newer one replaces it, as GitHub's concurrency group does). `Consume` ... `Confirm` and `FailClosed` are the
steps of `invalidate-readiness.yml` and the functions of `readiness.py` they call;
`Verify` ... `VerifyFinal` is `verify_published` after the merge. A pull request,
an event and its delivery are immediate; a failed request ends the run and its
last step fails closed.

### HostActions

`status` and `linked` are the row of `OperationalAction`; `view` how far the request of a page is; `inbox`, `active`,
`timed`, `file`, `thread` the agent: its socket, `active_action_id`, cooldowns,
the file of each operation, `perform_action`; `env`, `scaled` are
`BUH_AUTH_WORKER_COUNT` in `.env` and the workers compose runs. The answer may come
after the three seconds the view waits; web workers and the agent may be killed;
file writes and commands may fail; a page saves what it was told as late as it
likes. `applied` and `writer` only record history. The run has no restart
requests: they differ from a worker count in their command and their cooldown.

### TokenRefresh

`token_refresh.py` is modelled as a whole; django-esi and EVE SSO are external
and modelled from how the guard uses them: the service accepts a grant once and
answers with the next one, refuses a grant it does not know, answers
incompletely, or is not reached.

| Variable | Code |
|---|---|
| `row`, `locks` | the token rows and the InnoDB row lock of `select_for_update` |
| `issued`, `live`, `retired` | the grants: issued so far, accepted by the service, replaced by a stored successor |
| `clock` | time, in lifetimes of an access token |
| `call`, `target`, `copy` | the operation of a task, the row it is at and the instance in its memory |
| `observed`, `visited`, `kept`, `incomplete` | the locals of `bulk_refresh` |
| `answer`, `outcome` | what the service answered, how the call ended |

What a task does to a row without asking the service is one action, because one
row lock brackets one transaction. Asking takes the lock (`LockToRefresh`,
`LockRow`), the service answers while it is held (`Granted`, `Refused`,
`Incomplete`, `TransportError`), and `Save` commits. `Environment` is time, a new
sign-on (`Reauthorize`), a row that changes its identity (`Reassign`), a grant
withdrawn (`Revoke`). A killed task rolls back; a kill between the rotation and the
commit loses the grant, and the next refresh is refused and deletes a row that is
dead already. Left out: instances that were never saved, the version check at import.

### MirrorJobs

| Variable | Code |
|---|---|
| `status`, `digest`, `revisions` | `PublicArchiveFile.status` and `.payload_sha256`, the `PublicArchiveRevision` rows of a file in order |
| `temp`, `target`, `retained`, `content` | the temporary, current and revision paths of a file, each the inode it names; what the inodes hold |
| `job` | `ArchiveJob.status` |
| `message`, `publishing`, `requests` | the broker's copies of a message, a page between creating the row and the answer of the broker |
| `lock`, `session` | the `GET_LOCK` of the database session, and whose session is alive |
| `pc`, `mine`, `file`, `handle`, `version`, `attempts`, `errors` | a worker: statement, job, file, open file, payload being received, files taken, errors so far |

`RunJob` is `_run_job` statement by statement; `Download` is the loop of
`sync_public_archive` and `_download_file`: `Open` truncates the deterministic
temporary path, `Stream` writes a chunk, `AssertLock` looks at the lock,
`RetainOld`/`RecordOld` keep a payload that predates revisions, `Link`/`Record`
retain the new one, `Replace` is `os.replace`, `Store` the row, `Unlink` the
`finally`. A step that touches the database needs the session; one that touches
only the file system does not. Paths are modelled with inodes because a hard
link and an open handle keep an inode whatever becomes of the path. A payload has
two chunks, so that two writers can mix; retry times, rate limits, budgets and
free space are "the batch stops here" or "the download raises". The index cursor
and the discovery of datasets are left out.

### MoonTaxLedger and MoonTaxBilling

A database is a function from row names (payments, bills, periods, lines) to
rows; `MoonTaxLedger` has what `payments.py` and `auditor.py` make of it, as
operators. `MoonTaxBilling` runs them as transactions: `saved` are the committed
rows, `held` the row locks, `writes` the uncommitted rows, `task` where a
transaction is and what it read. The isolation is READ COMMITTED, as in the
repository's integration environment (`platform/testenv/compose.yml:42`): a statement
reads committed rows and its own writes,
`SELECT FOR UPDATE` and `UPDATE` keep row locks until the end. A lock statement is
taken whole when its rows are free and a waiting transaction may be rolled back,
which is how the database breaks a deadlock. Directors `Decide` (oldest bills, donation,
ignore, ...), `AdjustBill`, `ReverseAdjustment`; an administrator saves a form
opened earlier (`OpenPayment`, `SavePayment`); audits `ExecuteAudit`,
`Rebuild`, `ReconcilePayments`, `CommitAudit`; exemptions, owners and the
preference to combine an account change in between. The tax of a line is a
constant: policies, rates and prices are left out.

## 3. What the runs check

| Run | Properties | Shows |
|---|---|---|
| `deployment_crashes` | `UsersAreServed`, `PlanIsSound`, `LineageVerified`, `SuccessIsInstalled`, `ImplementsTransaction`, `ReceiverSettles` | two archives, three troubles anywhere (failing statements and kills, at most two of a kind): users reach a working release at every step, the plan is written ahead and true, the receiver is a sequence of release transactions, but for a revoked success, and it settles |
| `receiver_upgrade` | `MixedAsksForRecovery`, `FinalRecordsAreTrue`, `InstallerEnds` | two upgrades and any number of recoveries of three paths, two kills or power losses, a hanging child, signals, one failed record: whatever may be mixed is admitted by a record, final records are true, the installer ends |
| `reviewed_recovery` | `CleanupSawEverything`, `RecordsAreTrue`, `ChangesAreRestorable`, `FailureRestores` | two owners, two workers, three calls, one failed step or kill, one rotation or replacement |
| `release_pipeline` | `ReleasesStand`, `ChangesReleasedOnce`, `OneReleaseAtATime` | three feature pull requests over two applications and the platform, three builds, one branch update |
| `release_approval` | `DeployedAsApproved`, `NothingIsSentTwice`, `AuthorizesTheNewest` | two releases, one manual preflight, two further events between any two reads |
| `release_recovery` | `ReviewedIsDeployed`, `ApprovalIsSpentOnce`, `SupersededNeverPasses` | the whole recovery with four recovery runs and one unreviewed event anywhere |
| `readiness` | `RecordsAreCurrent`, `StaleMergeNeverReleased`, `LabelSettles` | two workflows, four events of people, one failed request or displaced run |
| `token_two_tasks` | `RotatedGrantNeverReused`, `LiveGrantNeverDeleted`, `CallsActOnTheRow`, `CallsEnd` | two tasks run any operations on one row while it is renewed, reassigned and revoked and one of them is killed |
| `mirror_kills` | `PayloadsAreIntact`, `OneJobRuns`, `EndedNeverRuns` | two workers, two jobs, messages delivered twice, one kill, one failed transfer |
| `mirror_recovery` | `OrphansRecovered` | a job left RUNNING by a worker that was killed or lost its session is failed by a later scheduled run |
| `moon_tax` | `BillsAddUp`, `PaymentsSpentOnce`, `AuditSettles`, `DecisionsHold` | two directors, two audits, one administrator's form; one period with two accounts, one payment |
| `host_actions` | `VerdictsAgree`, `SuccessStands`, `WaitIsOwed` | two worker counts and an update scan, one page, two kills or failed writes |

A property whose name speaks of several things is a conjunction of named parts
in its module (`UsersAreServed` is `RouteServed`, `NoDanglingRoute` and
`SchemaSupportsRunning`). Each run's type invariant, where a module has one, is
proved or implied by the refinement and is not checked again.

Why the bounds are enough:

* `deployment_crashes`: two versions above the baseline and two archives let a second
  attempt meet every remainder of the first; two kills let a recovery itself be
  killed and recovered, and three troubles let a failing `current.json`, a kill in its
  rollback and a trouble of the next attempt follow each other (1.1 million states).
  Each archive may be a deployment or a preflight of either
  version and name any predecessor.
* `receiver_upgrade`: three paths give a first, a middle and the last path (the
  dispatcher, which is promoted last); two attempts let a backup be made of what an
  interrupted one left. All paths are pinned (`Pinned`). The newest reviewed
  baseline (`PR86_INSTALLED_RECEIVER`) pins every path but the sudoers file, which the
  installer generates; an older accepted one pins fewer, and then a backup may hold
  a mixture (section 6).
* `reviewed_recovery`: one repair is installed and the last is to come, which is
  the chain's only kind of step; a batch holds one record, so that every incident
  crosses batches; a rotation and a replacement are each one loss. An error nobody
  reviewed is left out of the reports: it is refused as a reviewed one is that did
  not recover before the verification.
* `release_pipeline`: b requires a, one pull request breaks a and moves b, one
  changes the platform and b without declaring it; three builds allow a stale, a
  lost and a good one.
* `release_approval`: two versions are needed for "the newest"; two events for a
  change and its repetition.
* `release_recovery`: two of the four runs publish the check and its repetition, one
  posts each record; an earlier form, with fewer refusals in the second reads, was also
  run once with three runs and two events (18.8 million states, nothing found).
* `readiness`: four events are a push, a review and two more between the three
  collections.
* `token_two_tasks`: two tasks suffice for every pair of conflicting critical
  sections; three clock values let a token expire, be refreshed and expire again.
* `mirror_kills`: files meet only in the batch and a download names a single one;
  two payloads and two revisions let a revision be replaced and repeated; four
  inodes (three in `mirror_recovery`) always leave a free one. Lost sessions are
  bounded to 0 in `mirror_kills` (section 6) and 1 in `mirror_recovery`.
* `moon_tax`: one period in which two characters of two accounts mined, so that
  combining, splitting, exempting and moving a character each change the bills;
  the payment covers the first of two bills, or a part of a combined one.
* `host_actions`: two counts conflict in `.env`; the scan is the operation whose
  row may be left behind; two troubles are a kill on top of a kill.

`CHECK_DEADLOCK FALSE` stands where the system stops once its bounded requests
are used up: nothing has to happen on an idle host, repository or table.

Every property has a mutant in `PROJECT.json`: an operator next to the code it
changes (marked `Mutant` in the module) that a plausible bug would make of it, under which TLC
finds the property violated.

### Fairness

* `Deployment`: weak fairness of `Receiver`, the statements of the process that holds
  the lock (each is bounded by a timeout and fails otherwise), and of `Startup`:
  somebody submits again while a plan is retained. Nothing is assumed of archives.
* `ReceiverUpgrade`: weak fairness of `Step`, the installer's own statements and
  timeouts; the child need never act.
* `PullReadiness`: weak fairness of `Policy`: GitHub runs the steps of a run it
  started, to its end or its timeout. People need never act.
* `TokenRefresh`: strong fairness of each task's `Step`: a waiter for a row lock is
  served in its order, and a holder is bounded by the timeout of its request.
* `MirrorJobs`: weak for each worker's `Step` (bounded by the task's time limits)
  and for the end of a page's request, strong for the delivery of a message and for
  the schedule (the beat fires every hour and a free worker serves the queue).

The other specifications state safety only.

## 4. Refinement

`ReleaseTransaction` says that production changes only inside a transaction that is
open or revoked, and that a transaction closes on one whole release: on its target
once it is committed, on the release before it when it is rolled back.
`ImplementsTransaction` maps `Deployment` to it: the recovery plan is the
transaction, the originals it captured the release before it, the success record
its commit. It holds with failures and kills at any statement, of recoveries as
well, with one exception that the abstract specification states: a commit is
revoked when `current.json` cannot be written after it (`Revoke`), and a revoked
transaction whose rollback is killed or fails before it is recorded is abandoned as
if it were committed (`Abandon`). It closes on any production, `torn`, until a later
transaction is committed and closed (`Finish`).

## 5. What is proved

For every value of the constants, from the assumptions named in the modules.

`DeploymentProofs` (any number of versions, archives, faults and kills)

* `TypeCorrect == Spec => []TypeOK`, with one lemma per group of actions about
  the variables it can disturb.
* `LineageIsVerified == Spec => []LineageVerified`: `current.json` names the
  baseline or a release whose attempt reached `verified`. Not inductive alone:
  `LineageIInv` adds `AttemptInv` (the journal entry of the attempt in progress
  carries the version being installed, and is `verified` from the marker on) and
  `LineageInv` (what a plan or the process captured as the previous lineage is
  itself verified, since a rollback writes it back).
* `UsersStayServed == Spec => []UsersAreServed`. `ServedInv` adds: which flags are set
  at which statement, what the plan on disk has of them and what a statement of the
  rollback was reached with (`ControlInv`); the attempt at work and the one whose plan
  is kept have a journal entry (`KnownInv`); the database has the migrations of every
  image that runs, was captured, or that the reference names once a service may be
  started from it (`SchemaInv`); what the managed upstream file and the loaded route
  are at the statements that rely on them (`FileInv`, `LoadedInv`); the slots of an
  attempt are loaded only once it may have switched traffic (`SlotInv`), so the
  removal of slots never takes a loaded one; and the loaded route has servers that
  answer (`RouteInv`). It needs
  `AbsenceAssumption`, that `Down`, `NoPlan` and `NoRoute` are no version, plan or route.
* `PlanStaysSound`, `SuccessStaysInstalled`: `Spec => []PlanIsSound` and
  `Spec => []SuccessIsInstalled`, with no assumption on where failures and kills fall.
  Both state their exception, `torn` and `undone`. Their inductive invariant,
  `RecoveryInv`, is `ServedInv`, `AttemptInv` and two groups. The first holds always: at
  every stage, what has not been replaced yet is what was captured (`StageInv`); the
  attempt at work and the one of the plan are the latest (`LatestInv`); the journal says
  success only from the commit on, and a rollback under a standing success record is
  one whose commit failed (`CommitInv`, `UndoneInv`); the latest verified attempt is
  installed, or undone (`InstalledInv`); a rollback that has something to restore still
  has its plan (`PlanKeptInv`). The second, `IntactInv`, holds unless `torn`: what was
  captured is one release (`CoherentInv`); in a rollback that may still pass, what no
  flag covers is unchanged (`CleanInv`, which also gives `EarlyPlanIsComplete`) and what
  the statements behind it restored is back (`ProgressInv`); without a plan production is
  one release, and a rollback that passed restored it (`DisarmedMeansWhole`, `PassedInv`).
  A later release that is verified makes it hold again (`IntactAgain`).
* `ReceiverImplementsTransaction == Spec => ImplementsTransaction`, the refinement of
  section 4 with one lemma per step of `ReleaseTransaction`: capturing saves the plan
  and opens the transaction, `TransactionChanges` covers the steps under a plan, the
  success record commits (`TransactionCommits`), `LineageWriteFails` revokes, the failure
  record ends that, and a step that removes the plan closes the transaction, where
  `RecoveryInv` gives one whole release or the abandoned one (`TransactionCloses`).

`HostProofs`, about `ReceiverUpgrade` (any number of paths, commits, attempts, kills
and power losses, assuming that the baseline pins every path and at most one record
write fails)

* `RecoveryIsAdmitted == Spec => []MixedAsksForRecovery`. `IInv` adds: every backup
  holds one whole receiver, because an upgrade starts only from a pinned baseline
  (`BackupInv`); from the record made before the first promotion until a final
  record, the backup in use asks for recovery (`ArmedInv`); before that record
  nothing has changed, so whatever mixture exists is admitted by another backup
  (`UntouchedInv`).
* `FinalRecordsTrue == Spec => FinalRecordsAreTrue`: with `FinalInv`, what has been
  flushed and confirmed when a final record is about to be written. Both
  assumptions are needed: section 6 names what happens without them.

`ReleaseAndTokenProofs`, about `ReleasePipeline` (any applications, dependencies, pull
requests, fragments, builds, updates and lost answers)

* `PublishedReleasesStand`, `AChangeIsReleasedOnce`, `AReleaseIsOnTop`:
  `PipelineSpec => []ReleasesStand`, `[]ChangesReleasedOnce`, `[]OneReleaseAtATime`. The
  verification of the ledger plans every release again, so the invariant says what that
  replay needs of every commit, not only of main: each manifest in its tree is the plan
  of the source its version was built from, the commit descends from that release, and
  the ledger has a newest (`LedgerInv`); no manifest it carries names a fragment it still
  has (`FragmentInv`: fragments come with their pull request, which is merged once); the
  source of a release carried exactly the older ones, its plan was accepted, and the
  synchronization branch descends from it (`ReleaseInv`). A new wheel meets all older
  ones because the source carried them: where an application changed, by the check for
  collisions, and where it did not, because its version and its content are those of the
  previous release (`WheelInv`, `PlanFits`). Between its reads and its push a build holds
  facts about its source and about the releases, which nobody else publishes (`BuildInv`);
  main may move meanwhile.
* What a commit reaches, a recursive function of the history, is the same in every
  history that goes on from it (`AncestorSame`, by induction over commits).

`ReleaseAndTokenProofs`, about `TokenRefresh` (any number of tasks, rows, grants, ticks
and kills)

* `TypeCorrect`, `RotatedGrantIsSpent == Spec => []RotatedGrantNeverReused`, and
  the action property `LiveGrantIsKept == Spec => LiveGrantNeverDeleted`. The
  inductive invariant is `TypeOK /\ HolderSeesTheRow /\ GrantsDistinct`: between
  the lock and its release the row is the copy its holder presents, and every
  grant in the table or in an answer not yet saved is unretired and nobody
  else's. The first makes a refusal speak about the row that is deleted, the
  second keeps a retired grant out of every row.
* `ActsOnTheRow == Spec => CallsActOnTheRow`, the four action properties about what a
  call stores, deletes and returns. `BulkInv` adds: every row a bulk call has visited
  is kept, was left without an answer, is the one at work, or has left the queryset
  (`Settled`). A row does not come back, because its identity only moves on and a
  deleted row stays deleted (`Moves`, `OwnersGrow`).

`ApplicationProofs`, about `MirrorJobs` (any number of workers, jobs, files, versions, kills, lost sessions)

* `TypeCorrect`, with the strengthening `OldExists`: an old payload is recorded
  only while its current path exists.
* `EndedJobsStay == Spec => EndedNeverRuns`: only a claim makes a job RUNNING, and
  it requires a QUEUED one.
* `OneJobAtATime == Spec => []OneJobRuns`. `IInv` adds `HolderInv` (a worker past
  the lock with a live session holds it, so there is one), `JobInv` (from its
  recovery on, a RUNNING job is the holder's own) and `FileInv` (from its reset
  on, a DOWNLOADING file is the one the holder works on). Workers whose session is
  lost are outside all three: they can no longer write a row.
* `ArchiveStaysIntact`: if `MaxLosses = 0`, then `Spec => []PayloadsAreIntact`, with
  kills at any step. `ArchiveInv` adds: an inode has names of one file only, and the
  temporary path is never the current one (`NamesInv`); how much of its payload,
  revision and row the download at work has in place (`DownloadInv`); a stored file
  has no temporary path (`StoredInv`); without kills, a temporary path is that of the
  download at work and is not yet a revision while it is written (`UntouchedInv`).
  The assumption is needed: section 6 names what a lost session can do.

`ApplicationProofs`, about `MoonTaxBilling` (any users, characters, periods, payments, directors,
audits, adjustments and changes of the environment)

* `BillsAlwaysAddUp`, `PaymentsAreSpentOnce` and the action properties `AuditsSettle`,
  `DecisionsAlwaysHold`: `BillingSpec => []BillsAddUp`, `[]PaymentsSpentOnce`,
  `AuditSettles`, `DecisionsHold`. They assume that the sets of rows are finite with at
  least one character (`NamesAssumption`), that amounts, taxes and corrections are
  natural numbers (`MoneyAssumption`, `DebitAssumption`), and that the order of bills
  names none twice (`OrderAssumption`; an order that leaves bills out only makes a
  decision pay less).
* The properties speak of the committed rows, but a commit publishes what a transaction
  has written long before, over rows that others have changed since. `BillingInv`
  therefore says of every open transaction that its view, the committed rows under its
  own writes, adds up as well (`Good`), keeps every decided bill (`Survive`), and, from
  the rebuild to the commit of an audit, has the totals of every period (`Settled`). It goes
  on doing so when another transaction commits because no two hold a lock on the same
  row (`Locking`) and because a transaction has either written no payment or locked
  every bill and period (`Holder`). A commit changes no row that another one has locked,
  nor what any payment gives to a bill that another one has locked (`Respects`): a
  decision, an edit and a reconciliation lock a bill before they charge it or take a
  charge back.
* Each accounting rule (a decision, an edit, an exclusion, a rebuild, ...) is shown to turn
  rows that add up into rows that add up, touching only what it locks (`Revision`).
  Sums over finite sets are taken one member at a time (`Total`, by induction over the
  members), and the three folds of the model, over the bills of a decision, the payments of
  a bulk decision and those of a reconciliation, step by step (`Series`).

`ReadinessProofs` (any number of workflows, events, failed requests, displaced runs)

* `RecordsStayCurrent == Spec => []RecordsAreCurrent`. `IInv` adds: the pointer is to
  no later head than the run that works has (`HeadInv`: a run that fails closed on
  another head leaves nothing stale behind), what a run has read is as it is or an
  event waits or was displaced (`ReadInv`: what it publishes is current or owed an
  invalidation), and every request is waiting, at work, published or gone
  (`RequestInv`).
* `StaleMergeStaysUnreleased == Spec => []StaleMergeNeverReleased`. Run numbers and
  versions of reviews only grow (`OrderInv`), so what the verification finds equal in
  the record and after the merge was the same at the merge (`VerifiedInv`).

`HostProofs`, about `HostActions` (any number of requests, pages, counts, kills, failed writes;
assuming only that `None` is no request)

* `VerdictsStayTrue`, `SuccessStaysTrue`, `WaitsAreOwed`: `Spec => []VerdictsAgree`,
  `[]SuccessStands`, `[]WaitIsOwed`. `IInv` adds: a request is sent once, so a settled
  file stays settled (`RowInv`); a thread lives only while its request is active, so
  there is one (`ThreadInv`); a verdict a page was told is the one in the file
  (`PageInv`); the request whose command runs wrote `.env` last (`CountInv`).

`ApprovalProofs` (any number of releases, checks, manual runs, events)

* `ApprovedIsDeployed == Spec => []DeployedAsApproved`. `IInv` adds: what a readiness
  names had succeeded (`EvidenceInv`), and a gate that has passed a read, or sent, has
  an exact merge with the marker of such a readiness (`GateInv`, `Backed`). Nothing of
  that changes once it was read: commits are only added (`Grows`), a merged request
  stays merged and a check that succeeded stays. Whatever else is read again at the
  later boundaries is not needed for this promise, only for the next.
* The action property `TheNewestIsAuthorized == Spec => AuthorizesTheNewest`, from
  `HistoryInv`: the parents of a commit are earlier commits, main is at or behind every
  source that was released (`SourceInv`), and a commit that was merged as it was tested is
  the source of no release (`MergedInv`). What `Ancestors`, a recursive function, holds
  for every commit is proved by induction (`ReachExists`, `AncestorsReach`).
* `ApprovalsAreSpentOnce == Spec => []NothingIsSentTwice`: a gate passes a read only in
  the first attempt of its run, before anything was sent for it; of the dispatches of
  one preflight only the first can find it unconsumed (`ManualInv`, `First`).

`PublishedRecoveryProofs` (any number of commits, checks, recovery runs, tests, comments,
deployments and repetitions)

* `AnApprovalIsSpentOnce == Spec => []ApprovalIsSpentOnce`. A run posts only while no
  record of its kind is live, and one recovery run works at a time, whatever answers are
  lost (`RunsInv`, `RecordsInv`). A deployment passes a read only in its first attempt,
  its continuation starts after it stopped for good without sending, and from then on
  the original passes nothing (`DeployInv`).
* `WhatWasReviewedIsDeployed == Spec => []ReviewedIsDeployed`. Whoever passed a read
  had an approved commit (`Approves` in `DeployInv`), and an approved commit stays one:
  parents and contents of a commit are earlier commits (`GraphInv`), so a reviewed merge
  means the same in every longer history (`Grows`), and a test that succeeded stays.
  `RecordsInv` says to which merges a record was bound, `MergedInv` that the original
  deployment is of the merge of the request. The recovery hold is a recursive function
  of commits; that it is defined for every history, and so that the deployed commit is
  under it, is proved by induction (`HeldExists`, `ApprovedIsHeld`).
* The action property `ASupersededCheckNeverPasses == Spec => SupersededNeverPasses`.
  `ChecksInv`: a check is published while the failed one is alone, so it is the second,
  and whatever completes later is not older; the read that finds the published check the
  latest therefore finds no other after the failed one.

`RecoveryProofs` (any number of repairs, owners, workers, reports, faults and kills;
assuming that no shell is called `Nobody`, that the reports are sequences and a batch is
not empty)

* `RecordsStayTrue`, `BackupsStay` and the action property `FailuresRestore`:
  `Spec => []RecordsAreTrue`, `[]ChangesAreRestorable`, `FailureRestores`. `IInv` adds:
  whoever is past the lock holds it (`CallInv`); before its first change a call finds
  what it noted (`NotedAt`); an installation keeps the plan and the repair before until
  its own backup is whole (`InstallAt`); a completion works on the receiver it
  verified, without a receipt, in the order final route, slots, plan (`CompleteAt`); a
  maintenance works on a recovered receiver and undoes nothing unless a step failed
  (`ApplyAt`); the configuration and its receipt differ only in the middle of one
  (`ConfigInv`).
* `ScanMeansOk` (also for every batch size and every log in the order of its seconds): a
  log that passes the scan, batch by batch with the incident handed from one to the next,
  has no record that did not recover, judged by the whole of the log. Two inductions, over
  the records of a batch and over the batches, carry what was seen of the ordinary records
  (`Tallied`): the incident holds exactly the 404s and failed assets tasks of the newest
  second read, no second has more failures than characters with a 404 (`Balanced`), and
  each record was logged before the verification and before the success of what it
  reports (`Timely`). A batch may end anywhere in a second: `BatchesInOrder` and `Done` say
  that batches follow the records' order, so the incident that is handed on is that of the
  records before. Owners' incidents are batches of their own, which need no induction.
* `TheCleanupSawEverything == Spec => []CleanupSawEverything`. `EvidenceInv`, on top of
  `IInv`: the logs are in order and not of the future (`LogInv`); while a reviewed
  completion scans, and as long as no log has lost its start and no worker was replaced, the
  scanned beginning of each log passes the scan, and from the second look at the logs'
  start on it does so for all workers unconditionally (`EvidenceAt`); the receipt repeats it
  (`ReceiptInv`). Two facts make it inductive: logs only grow at their end (`Grows`), and a
  lost start is never found again (`Loses`), so that finding the starts there after the
  scans means they were there at each of them. TLC, given `EvidenceInv` with the set of
  records spelled out, finds no violation on the instance of `reviewed_recovery`.

Only model-checked: the liveness properties `ReceiverSettles`, `InstallerEnds`, `LabelSettles`,
`CallsEnd`, `OrphansRecovered` (fairness and ENABLED are outside the prover). Every safety
invariant and action property a run checks is stated by a theorem. Induction over data is
done by sets instead of operators (`NatSetInduction`); folds over a set of positions and
over a sequence are followed by a series of their states (`FoldsExists`, `FoldsSeries`).

## 6. Observations

Where the code does other than a comment or document says, or where a property
stops, met while modelling. None of these is a run of its own: the runs above are
bounded or worded so that they say what does hold.

Deployment

* *A late plan is never consumed.* The plan carries no `restart_baselines` and
  `load_incomplete_plan` restores none, so the verification of a recovered rollback
  compares restart counts with nothing (`docker_host.py:4394`), although
  `recover_incomplete_plan` is to "consume one durable plan after a prior receiver
  died mid-attempt" (line 942). A plan left by a kill after the migration started is
  retried on every invocation and always fails. `ReceiverSettles` is therefore
  about plans left before the migration.
* *Split publication.* A kill between the success record and `current.json`
  leaves `CURRENT.json` on the new release and `current.json` on the old one for
  good (`engine.py:338`; compare line 502, "one uninterruptible commit boundary").
* *Revoked success.* When `current.json` cannot be written after the success record
  was saved, the engine reverses a release whose journal says success; a kill
  or failure inside that rollback makes startup trust the record and drop the plan of a
  half-restored production (`engine.py:339` and 514, `docker_host.py:963`). The run and
  the proofs contain it: it is the exception (`undone`, `torn`) of `PlanIsSound` and
  `SuccessIsInstalled`, and `Revoke` with `Abandon` in `ReleaseTransaction`.
* *Unloaded bytes.* A failed switch restores the bytes of the file, not those Nginx
  had loaded (`docker_host.py:1432`): in a recovery whose first switch fails, Gunicorn
  serves with the candidate's manifest.
* When saving the plan fails, its flag is already set in memory and the rollback acts
  beyond what the plan on disk records (`docker_host.py:687`). A plan that a recovery can
  restore, one from before the migration, is complete all the same
  (`EarlyPlanIsComplete`, in `PlanIsSound`); a later one may be short, and is consumed
  only by the process that has the flag in memory.

Receiver self-upgrade

* An older accepted baseline (`V080_INSTALLED_RECEIVER`) pins only some of the live
  paths. Upgrading from it again after an interrupted restoration backs up a mixed receiver; the run and the
  proofs assume that every path is pinned.
* Two failing record writes leave a renamed `completed` without its durable form
  (compare the comment at `receiver_upgrade.py:1078`), hence `MaxFaults <= 1`.
* A signal during the fork of the nested preflight, or during its grace period, records
  `rolled-back` while the child may still run and leave an application plan
  (`receiver_upgrade.py:1294-1327`).

Release tools

* An update of a synchronization branch can bring consumed change fragments back to
  main's tree until it is merged; `ChangesReleasedOnce` shows that no release
  consumes them twice.
* The recovery workflow publishes its check and then always ends with an error when
  it is given the arguments present at this commit; the partial publication is
  what the later stages verify.
* *A replaced invalidation.* The concurrency group (`invalidate-readiness.yml:24`)
  leaves only bot labels out: any other label joins the group although its job is
  skipped, and takes the one waiting place, although lines 21-23 say that such events
  "cannot replace a pending invalidation". The model has such labels
  (`LabelUnrelated`), and `RecordsAreCurrent` and `LabelSettles` except the time between
  the displacement and the next policy run (`displaced`).
* Resolving a thread starts no workflow: only the verification after the merge
  sees it. A serious thread open at the merge and resolved later passes.
* A failed request before the eligibility step loses the invalidation; the run is
  red, and `RecordsAreCurrent` makes that exception.

Reviewed recoveries

* Kills that need an operator: between the write of a repaired file and its receipt
  (a repetition is refused); between the removal of the plan and the completion
  receipt (the maintenance can then never be configured); between the configuration
  and its receipt; during the copy of its backup. `RecordsAreTrue` excepts kills where
  it says so.
* A 404 that is logged late counts for a second assets failure only through
  `consumed` being reset (`recovered_logs.py:340-350`); a pair split over two batches
  is refused, which is the safe side.

Public archive mirror

* *A revision is overwritten.* A worker killed after it linked the temporary file as a
  revision and before it renamed it leaves two names of one inode; the next download
  truncates it (`public_archive.py:601`, compare line 525 and "Retain immutable
  public payloads", `revisions.py:1`). `RevisionsIntactUnlessKilled` shows that nothing
  else does. The same bytes can then never be stored again (`revisions.py:37`).
* *A lost session.* The lock ends with the database session, and after the last
  statement of a download nothing notices: the worker renames a temporary file the
  next holder has just truncated (`public_archive.py:604`, compare line 510 and
  `tasks.py:30`). `mirror_kills` has no lost sessions; the proofs about the job
  rows allow them, the one about the payloads does not.

Moon Tax

* An adjustment recalculates the totals of its period without locking it
  (`payments.py:161`): of two adjustments, the one that read first may save last, and
  the period is settled while a bill is unpaid, until the next audit (`AuditSettles`).
* Reversing a debit on a bill whose calculated tax is 0 leaves the amount due: the
  compatibility branch at `payments.py:51` takes it for the calculated tax.
* The administrator's form can reclassify a payment that the system exempted
  (`admin.py:509-561`, compare `payments.py:504`).
* Two concurrent audits can leave an exemption hash that neither rebuilt for; REVIEW
  of a retired bill is overwritten by a later recalculation; an audit that expired
  as FAILED can still commit COMPLETE.

VPS Health

* After a late or lost answer the row says FAILED while the agent performs the
  operation (`agent_client.py:50`); `VerdictsAgree` is about rows with an agent id.
* A failed file write in `perform_action` leaves `active_action_id` set until the agent
  restarts; a failed `set_workers` leaves the count in `.env`.
* A web worker killed before the answer leaves a QUEUED scan row that refuses every
  later scan (`views.py:276`), and two scans pass that test together.
* A page that saves late can take a succeeded row back to RUNNING until the next one.

## 7. What is not modelled

* ESI collection and snapshots (`collection`, `capture`, `local_history`): three lanes of cursors,
  back-off and rate-limit pauses; a next model would be of its cursors.
* Archive pages, mining reports, Moon Tax reports: read-only.
* Structure alerts, VPS Health sampling and alerts: one pattern of sustained
  thresholds in one transaction per sample.
* Access roles and Member Audit registration: one idempotent transaction per call.
* Request contracts, supply-chain policy, CI scope, diagnostics: stateless parsing and
  evaluation; their outcome is an input of the models.
* Member Audit recovery tools, schema repairs, collection of recovery evidence: each
  bound by hash to one past incident.
* In modelled parts: what section 2 and the notes of `PROJECT.json` "components" name.

## 8. Plan

1. Two periods in `moon_tax`, for the order of bills across them.
2. The cursors of ESI collection; the index cursor of the mirror.
3. An abstract archive (a history of payloads) that `MirrorJobs` implements.
