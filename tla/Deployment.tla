----------------------------- MODULE Deployment -----------------------------
(***************************************************************************)
(* The guarded Platform v2 deployment transaction:                         *)
(*   ops/deploy/receiver.py     one archive under the exclusive lock,      *)
(*   ops/deploy/engine.py       the stages, the journal, the commit point, *)
(*   ops/deploy/docker_host.py  the host: recovery plan, Compose services, *)
(*                              web slots, Nginx upstream, rollback.       *)
(*                                                                         *)
(* A receiver process runs one statement of the stage it is in at a time.  *)
(* Any statement may fail, which enters the automatic rollback, and the    *)
(* process may be killed between any two statements, which leaves only     *)
(* what is on disk, in Docker and in the Nginx master.  The flock admits   *)
(* one process and dies with it, so the process is one program counter:    *)
(* pc = "idle" means the lock is free.                                     *)
(*                                                                         *)
(* Each service has one container and each slot role has one slot: the     *)
(* replicas of a service are always started, checked and removed together. *)
(***************************************************************************)
EXTENDS Naturals, FiniteSets

CONSTANTS
    MaxVersion,     \* platform versions are 0 .. MaxVersion, 0 is the legacy baseline
    MaxAttempt,     \* bound: archives submitted
    MaxFaults,      \* bound: statements that raise
    MaxCrashes,     \* bound: receiver processes killed without a rollback
    MaxTroubles,    \* bound: both of them together
    Down,           \* no such container is running
    NoPlan, NoRoute

ASSUME BoundsAssumption ==
    /\ MaxVersion \in Nat \ {0}
    /\ MaxAttempt \in Nat \ {0}
    /\ MaxFaults \in Nat
    /\ MaxCrashes \in Nat
    /\ MaxTroubles \in Nat

Versions == 0 .. MaxVersion
Attempts == 1 .. MaxAttempt

(***************************************************************************)
(* Containers.  A web slot is named after the attempt that starts it.      *)
(***************************************************************************)
Gunicorn   == <<"gunicorn", 0>>
Workers    == <<"workers", 0>>
Beat       == <<"beat", 0>>
PrevSlot(a) == <<"previous", a>>
CandSlot(a) == <<"candidate", a>>

Services   == {Gunicorn, Workers, Beat}
Slots      == {PrevSlot(a) : a \in Attempts} \cup {CandSlot(a) : a \in Attempts}
Containers == Services \cup Slots
Targets    == {Gunicorn} \cup Slots

\* The Nginx upstream block: primary servers and "backup" servers.
Route(primary, backup) == [primary |-> primary, backup |-> backup]
Routes       == [primary : SUBSET Targets, backup : SUBSET Targets]
GunicornOnly == Route({Gunicorn}, {})
Servers(r)   == r.primary \cup r.backup

(***************************************************************************)
(* The flags of the recovery plan: two slots are named in it, and one      *)
(* mutation of production may have started for each of the others.         *)
(***************************************************************************)
FlagNames == {"previous", "candidate", "migration", "traffic", "static",
              "workers", "gunicorn", "current"}
NoFlags   == [f \in FlagNames |-> FALSE]
Flags     == [FlagNames -> BOOLEAN]

\* What prepare_candidate captured of the live release.
Originals == [image : Versions, dockerfile : Versions, static : Versions,
              upstream : Routes, marker : Versions, lineage : Versions]
Plans     == [attempt : Attempts, flags : Flags, orig : Originals]
Bundles   == [attempt : Attempts, version : Versions, previous : Versions,
              mode : {"none", "deploy", "preflight", "recovery"}]
Bundle(attempt, version, previous, mode) ==
    [attempt |-> attempt, version |-> version, previous |-> previous, mode |-> mode]
NoBundle  == Bundle(1, 0, 0, "none")

JournalStates == {"none", "validated", "prepared", "backed_up", "migrated",
                  "candidate_healthy", "traffic_switched", "workers_replaced",
                  "stabilized", "web_promoted", "verified",
                  "candidate_validated"}
Entry(state, result, rollback, version) ==
    [state |-> state, result |-> result, rollback |-> rollback, version |-> version]
NoEntry == Entry("none", "absent", "none", 0)
Entries == [state : JournalStates,
            result : {"absent", "running", "success", "failed"},
            rollback : {"none", "passed", "failed"},
            version : Versions]

\* What stands for an absence is none of the values it stands beside.
ASSUME AbsenceAssumption ==
    /\ Down \notin Versions
    /\ NoPlan \notin Plans
    /\ NoRoute \notin Routes

VARIABLES
    (* the state directory and the application directory *)
    plan,        \* active-recovery.json, or NoPlan
    journal,     \* attempts/<id>.json
    lineage,     \* current.json: the receiver's lineage pointer (0: absent)
    marker,      \* conf/buh-platform-v2/CURRENT.json (0: absent)
    upstream,    \* the managed Nginx upstream file
    dockerfile,  \* the release the custom Dockerfile builds
    (* Docker *)
    reference,   \* the image the Compose reference of the Auth services names
    image,       \* the image each container runs, or Down
    static,      \* the release of the shared static manifest and assets
    schema,      \* the newest release whose migrations the database has
    (* the Nginx master *)
    loaded,      \* the route it has loaded
    serving,     \* the servers of that route whose loaded address is live
    (* the receiver process *)
    pc, bundle, flags, orig,
    baselines,   \* DockerHost.restart_baselines was captured by this process
    prior,       \* _activate_upstream's previous bytes while it runs, or NoRoute
    failed,      \* the restorations that failed in this rollback
    passed,      \* the rollback restored and verified everything
    error,       \* the stages raised
    (* bounds *)
    faults, crashes,
    (* history, read by no statement: what a failed commit left behind *)
    undone,      \* the attempts whose rollback began although their success is on record
    torn         \* a startup dropped the plan of such an attempt, and nothing was
                 \* verified since

disk    == <<plan, journal, lineage, marker, upstream, dockerfile>>
docker  == <<reference, image, static, schema>>
nginx   == <<loaded, serving>>
memory  == <<bundle, flags, orig, baselines, prior, failed, passed, error>>
bounds  == <<faults, crashes>>
history == <<undone, torn>>
vars    == <<disk, docker, nginx, pc, memory, bounds, history>>

Prev == PrevSlot(bundle.attempt)
Cand == CandSlot(bundle.attempt)

NoOriginals == [image |-> 0, dockerfile |-> 0, static |-> 0,
                upstream |-> GunicornOnly, marker |-> 0, lineage |-> 0]

Init ==
    /\ plan = NoPlan
    /\ journal = [a \in Attempts |-> NoEntry]
    /\ lineage = 0 /\ marker = 0 /\ dockerfile = 0
    /\ upstream = GunicornOnly
    /\ reference = 0 /\ static = 0 /\ schema = 0
    /\ image = [c \in Containers |-> IF c \in Services THEN 0 ELSE Down]
    /\ loaded = GunicornOnly /\ serving = {Gunicorn}
    /\ pc = "idle" /\ bundle = NoBundle /\ flags = NoFlags
    /\ orig = NoOriginals /\ baselines = FALSE
    /\ prior = NoRoute /\ failed = {} /\ passed = FALSE /\ error = FALSE
    /\ faults = 0 /\ crashes = 0
    /\ undone = {} /\ torn = FALSE
-----------------------------------------------------------------------------
(***************************************************************************)
(* Program counter labels, in the order the code runs them.                *)
(***************************************************************************)
PlanLabels  == {"planPrevious", "planMigration", "planTraffic", "planStatic",
                "planCandidate", "planWorkers", "planGunicorn", "planCurrent"}
StageRoutes == {"routePrevious", "routeCandidate", "routeFallback",
                "routePromoted", "routeFinal"}
\* The statements whose failure the engine answers with a rollback.
StageLabels == {"validate", "capture", "startPrevious", "writeDockerfile", "build",
                "backup", "migrate", "collectStatic", "startCandidate",
                "replaceWorkers", "stopBeat", "startBeat", "stabilize",
                "stopGunicorn", "startGunicorn", "finalHealth", "writeMarker",
                "publish", "writeLineage"}
               \cup PlanLabels \cup StageRoutes

ConfigurationLabels == {"rbDockerfile", "rbUpstream", "rbMarker", "rbLineage",
                        "rbStatic", "rbRetag"}
WorkerLabels   == {"rbWorkers", "rbStopBeat", "rbStartBeat"}
GunicornLabels == {"rbStopGunicorn", "rbStartGunicorn"}
RollbackRoutes == {"rbTraffic", "rbReturn", "rbFinal", "rbFailSafe"}
RollbackLabels == {"rollback", "rbSmoke", "rbVerify", "rbFinalSmoke", "rbRemove",
                   "rbDisarm", "record"}
                  \cup ConfigurationLabels \cup WorkerLabels \cup GunicornLabels
                  \cup RollbackRoutes

RouteLabels == StageRoutes \cup RollbackRoutes
Labels == {"idle", "disarm", "cleanup"} \cup StageLabels \cup RollbackLabels

\* The target set each traffic boundary renders into the upstream file.
TargetRoute ==
    CASE pc \in {"routePrevious", "rbTraffic", "rbFailSafe"} -> Route({Prev}, {Gunicorn})
      [] pc = "routeCandidate"           -> Route({Cand}, {Prev, Gunicorn})
      [] pc = "routeFallback"            -> Route({Cand}, {Prev})
      [] pc = "routePromoted"            -> Route({Gunicorn}, {Cand})
      [] pc = "rbReturn"                 -> Route({Gunicorn}, {Prev})
      [] OTHER                           -> GunicornOnly

-----------------------------------------------------------------------------
(***************************************************************************)
(* The rollback is a chain of guarded restorations: a flag decides whether *)
(* a restoration runs, and a failed one is noted while the rest go on.     *)
(* Each operator gives the statement that runs next once the restorations  *)
(* in f have failed.                                                       *)
(***************************************************************************)
\* Mutant: the named previous slot already asks for a verification.
NeedsVerificationAlways ==
    \E f \in {"previous", "migration", "workers", "gunicorn", "traffic"} : flags[f]

NeedsVerification == \E f \in {"migration", "workers", "gunicorn", "traffic"} : flags[f]

Verdict(f) ==
    IF f # {} THEN "record"
    ELSE IF flags["traffic"] THEN "rbFinal" ELSE "rbRemove"

AfterReturn(f) ==
    IF NeedsVerification /\ f \cap {"configuration", "workers", "gunicorn", "route"} = {}
    THEN "rbVerify" ELSE Verdict(f)

AfterGunicorn(f) ==
    IF flags["traffic"] /\ f \cap {"configuration", "gunicorn"} = {}
    THEN "rbReturn" ELSE AfterReturn(f)

AfterWorkers(f) == IF flags["gunicorn"] THEN "rbStopGunicorn" ELSE AfterGunicorn(f)

AfterConfiguration(f) == IF flags["workers"] THEN "rbWorkers" ELSE AfterWorkers(f)

-----------------------------------------------------------------------------
(***************************************************************************)
(* Receiving an archive (receiver.py).  A retained plan is consumed before *)
(* the archive is read, and ends the invocation.                           *)
(***************************************************************************)
Fresh(a) == journal[a].result = "absent" /\ \A b \in 1 .. a - 1 : journal[b].result # "absent"

ReceiveArchive ==
    /\ pc = "idle" /\ plan = NoPlan
    /\ \E b \in Bundles :
        /\ b.mode \in {"deploy", "preflight"} /\ b.version > 0 /\ Fresh(b.attempt)
        /\ bundle' = b
        /\ journal' = [journal EXCEPT ![b.attempt] =
                Entry("none", "running", "none", b.version)]
    /\ pc' = "validate"
    /\ UNCHANGED <<plan, lineage, marker, upstream, dockerfile, docker, nginx, flags,
                   orig, baselines, prior, failed, passed, error, bounds, history>>

\* Mutant: startup does not recognise a verified attempt.
VerifiedAttemptNever(a) == FALSE

VerifiedAttempt(a) == journal[a].result = "success" /\ journal[a].state = "verified"

\* The prior attempt was verified: only the stale marker is removed.  The record is
\* trusted also when the attempt went into its rollback after it.
DropStalePlan ==
    /\ pc = "idle" /\ plan # NoPlan /\ VerifiedAttempt(plan.attempt)
    /\ plan' = NoPlan
    /\ torn' = (plan.attempt \in undone)
    /\ UNCHANGED <<journal, lineage, marker, upstream, dockerfile, docker, nginx, pc,
                   memory, bounds, undone>>

\* load_incomplete_plan hydrates a new host: the flags, the slot names and the
\* captured originals come back, the restart baselines do not.
RecoverPlan ==
    /\ pc = "idle" /\ plan # NoPlan /\ ~VerifiedAttempt(plan.attempt)
    /\ bundle' = Bundle(plan.attempt, 0, 0, "recovery")
    /\ flags' = plan.flags
    /\ orig' = plan.orig
    /\ pc' = "rollback"
    /\ UNCHANGED <<disk, docker, nginx, baselines, prior, failed, passed, error, bounds,
                   history>>

\* The end of an invocation: the process and its memory are gone, the lock is free.
Exit ==
    /\ pc' = "idle" /\ bundle' = NoBundle /\ flags' = NoFlags /\ orig' = NoOriginals
    /\ baselines' = FALSE /\ prior' = NoRoute /\ failed' = {}
    /\ passed' = FALSE /\ error' = FALSE

MayTrouble == faults + crashes < MaxTroubles

\* SIGKILL, host process loss: the flock is released, nothing is rolled back.
Crash ==
    /\ pc # "idle" /\ crashes < MaxCrashes /\ MayTrouble
    /\ crashes' = crashes + 1
    /\ Exit
    /\ UNCHANGED <<disk, docker, nginx, faults, history>>

-----------------------------------------------------------------------------
(***************************************************************************)
(* The stages of DeploymentEngine.run and PreflightEngine.run.             *)
(***************************************************************************)
Step(from, to) == pc = from /\ pc' = to

\* DeploymentJournal.advance: the preflight journal has no stages.
Advance(state) ==
    journal' = IF bundle.mode = "deploy"
               THEN [journal EXCEPT ![bundle.attempt] =
                        Entry(state, @.result, @.rollback, @.version)]
               ELSE journal

SetImages(c, v) == image' = [image EXCEPT ![c] = v]

\* Removing slots also takes their addresses from the loaded route.
RemoveSlots(removed) ==
    /\ image' = [c \in Containers |-> IF c \in removed THEN Down ELSE image[c]]
    /\ serving' = serving \ removed

ValidTransition ==
    /\ bundle.version > lineage
    /\ lineage = 0 \/ bundle.previous = lineage
    /\ upstream = GunicornOnly

Validate ==
    /\ Step("validate", "capture")
    /\ ValidTransition
    /\ Advance("validated")
    /\ UNCHANGED <<plan, lineage, marker, upstream, dockerfile, docker, nginx, memory, bounds,
                   history>>

PlanOf(f, o) == [attempt |-> bundle.attempt, flags |-> f, orig |-> o]

\* The live services share one Compose reference, so they must share one image.
UniformServices == \A c \in Services : image[c] = image[Gunicorn] /\ image[c] # Down

\* prepare_candidate up to the first _save_recovery_plan: nothing is mutated yet.
Capture ==
    /\ Step("capture", "planPrevious")
    /\ UniformServices
    /\ orig' = [image |-> image[Gunicorn], dockerfile |-> dockerfile, static |-> static,
                upstream |-> upstream, marker |-> marker, lineage |-> lineage]
    /\ baselines' = TRUE
    /\ plan' = PlanOf(flags, orig')
    /\ UNCHANGED <<journal, lineage, marker, upstream, dockerfile, docker, nginx,
                   bundle, flags, prior, failed, passed, error, bounds, history>>

\* Mutant: the plan is saved before the flag is set.
SavePlanBeforeFlag(from, flag, to) ==
    /\ Step(from, to)
    /\ flags' = [flags EXCEPT ![flag] = TRUE]
    /\ plan' = PlanOf(flags, orig)
    /\ UNCHANGED <<journal, lineage, marker, upstream, dockerfile, docker, nginx,
                   bundle, orig, baselines, prior, failed, passed, error, bounds, history>>

\* Set one flag (or name one slot) and make the plan say so before acting on it.
SavePlan(from, flag, to) ==
    /\ Step(from, to)
    /\ flags' = [flags EXCEPT ![flag] = TRUE]
    /\ plan' = PlanOf(flags', orig)
    /\ UNCHANGED <<journal, lineage, marker, upstream, dockerfile, docker, nginx,
                   bundle, orig, baselines, prior, failed, passed, error, bounds, history>>

StartPreviousSlot ==
    /\ Step("startPrevious", "writeDockerfile")
    /\ reference = orig.image
    /\ SetImages(Prev, reference)
    /\ UNCHANGED <<disk, reference, static, schema, nginx, memory, bounds, history>>

WriteDockerfile ==
    /\ Step("writeDockerfile", "build")
    /\ dockerfile' = bundle.version
    /\ UNCHANGED <<plan, journal, lineage, marker, upstream, docker, nginx, memory, bounds,
                   history>>

\* The build moves the Compose reference; a preflight stops here and restores.
Build ==
    /\ Step("build", IF bundle.mode = "deploy" THEN "backup" ELSE "rollback")
    /\ reference' = dockerfile
    /\ Advance("prepared")
    /\ UNCHANGED <<plan, lineage, marker, upstream, dockerfile, image, static, schema,
                   nginx, memory, bounds, history>>

\* Dump under the read lock, then restore and compare in an isolated database.
Backup ==
    /\ Step("backup", "planMigration")
    /\ Advance("backed_up")
    /\ UNCHANGED <<plan, lineage, marker, upstream, dockerfile, docker, nginx, memory, bounds,
                   history>>

\* Mutant: migrations do not run.
MigrateSkipped ==
    /\ Step("migrate", "planTraffic")
    /\ UNCHANGED <<disk, docker, nginx, memory, bounds, history>>

Migrate ==
    /\ Step("migrate", "planTraffic")
    /\ schema' = IF bundle.version > schema THEN bundle.version ELSE schema
    /\ UNCHANGED <<disk, reference, image, static, nginx, memory, bounds, history>>

CollectStatic ==
    /\ Step("collectStatic", "planCandidate")
    /\ static' = bundle.version
    /\ Advance("migrated")
    /\ UNCHANGED <<plan, lineage, marker, upstream, dockerfile, reference, image, schema,
                   nginx, memory, bounds, history>>

StartCandidateSlot ==
    /\ Step("startCandidate", "routeCandidate")
    /\ SetImages(Cand, reference)
    /\ Advance("candidate_healthy")
    /\ UNCHANGED <<plan, lineage, marker, upstream, dockerfile, reference, static, schema,
                   nginx, memory, bounds, history>>

ReplaceWorkers ==
    /\ Step("replaceWorkers", "stopBeat")
    /\ SetImages(Workers, reference)
    /\ UNCHANGED <<disk, reference, static, schema, nginx, memory, bounds, history>>

\* Stop before start: there is never a second scheduler.
StopBeat ==
    /\ Step("stopBeat", "startBeat")
    /\ SetImages(Beat, Down)
    /\ UNCHANGED <<disk, reference, static, schema, nginx, memory, bounds, history>>

StartBeat ==
    /\ Step("startBeat", "stabilize")
    /\ image[Beat] = Down
    /\ SetImages(Beat, reference)
    /\ Advance("workers_replaced")
    /\ UNCHANGED <<plan, lineage, marker, upstream, dockerfile, reference, static, schema,
                   nginx, memory, bounds, history>>

\* _functional_health: every service and slot runs its expected image.
FunctionalHealth(web) ==
    /\ image[Gunicorn] = web /\ image[Prev] = orig.image /\ image[Cand] = bundle.version
    /\ image[Workers] = bundle.version /\ image[Beat] = bundle.version
    /\ schema >= bundle.version

Stabilize ==
    /\ Step("stabilize", "routeFallback")
    /\ FunctionalHealth(orig.image)
    /\ Advance("stabilized")
    /\ UNCHANGED <<plan, lineage, marker, upstream, dockerfile, docker, nginx, memory, bounds,
                   history>>

\* The two halves of a forced recreation: the loaded address dies with the container.
StopGunicorn(from, to) ==
    /\ Step(from, to)
    /\ SetImages(Gunicorn, Down)
    /\ serving' = serving \ {Gunicorn}
    /\ UNCHANGED <<disk, reference, static, schema, loaded, memory, bounds, history>>

StartGunicorn(from, to) ==
    /\ Step(from, to)
    /\ SetImages(Gunicorn, reference)
    /\ UNCHANGED <<disk, reference, static, schema, nginx, memory, bounds, history>>

FinalHealth ==
    /\ Step("finalHealth", "routeFinal")
    /\ FunctionalHealth(bundle.version)
    /\ UNCHANGED <<disk, docker, nginx, memory, bounds, history>>

\* Mutant: the marker is published without entering the verified state.
WriteMarkerUnverified ==
    /\ Step("writeMarker", "publish")
    /\ marker' = bundle.version
    /\ UNCHANGED <<plan, journal, lineage, upstream, dockerfile, docker, nginx, memory, bounds,
                   history>>

WriteMarker ==
    /\ Step("writeMarker", "publish")
    /\ marker' = bundle.version
    /\ Advance("verified")
    /\ UNCHANGED <<plan, lineage, upstream, dockerfile, docker, nginx, memory, bounds, history>>

\* DeploymentJournal.succeed, first write: the commit point.
Publish ==
    /\ Step("publish", "writeLineage")
    /\ journal' = [journal EXCEPT ![bundle.attempt] =
            Entry(@.state, "success", @.rollback, @.version)]
    /\ UNCHANGED <<plan, lineage, marker, upstream, dockerfile, docker, nginx, memory, bounds,
                   history>>

\* DeploymentJournal.succeed, second write.
WriteLineage ==
    /\ Step("writeLineage", "disarm")
    /\ lineage' = bundle.version
    /\ UNCHANGED <<plan, journal, marker, upstream, dockerfile, docker, nginx, memory, bounds,
                   history>>

Disarm ==
    /\ Step("disarm", "cleanup")
    /\ plan' = NoPlan
    /\ torn' = FALSE
    /\ UNCHANGED <<journal, lineage, marker, upstream, dockerfile, docker, nginx, memory,
                   bounds, undone>>

Cleanup ==
    /\ pc = "cleanup"
    /\ RemoveSlots({Prev, Cand})
    /\ Exit
    /\ UNCHANGED <<disk, reference, static, schema, loaded, bounds, history>>

-----------------------------------------------------------------------------
(***************************************************************************)
(* _activate_upstream: replace the file, test and reload, and on failure   *)
(* put the previous bytes back and reload those.  Nginx resolves every     *)
(* server of the file when it is tested, so each must be running.          *)
(***************************************************************************)
Loadable(r) == \A t \in Servers(r) : image[t] # Down

WriteUpstream ==
    /\ pc \in RouteLabels /\ prior = NoRoute
    /\ prior' = upstream
    /\ upstream' = TargetRoute
    /\ UNCHANGED <<plan, journal, lineage, marker, dockerfile, docker, nginx, pc, bundle,
                   flags, orig, baselines, failed, passed, error, bounds, history>>

Load(r) == loaded' = r /\ serving' = Servers(r)

Reload(from, to) ==
    /\ Step(from, to) /\ prior # NoRoute
    /\ Loadable(upstream)
    /\ Load(upstream)
    /\ prior' = NoRoute
    /\ UNCHANGED <<plan, lineage, marker, upstream, dockerfile, docker, bundle, flags,
                   orig, baselines, failed, passed, error, bounds, history>>

StageReload ==
    \/ /\ \/ Reload("routePrevious", "planStatic")
          \/ Reload("routeFallback", "planGunicorn")
          \/ Reload("routeFinal", "planCurrent")
       /\ UNCHANGED journal
    \/ Reload("routeCandidate", "planWorkers") /\ Advance("traffic_switched")
    \/ Reload("routePromoted", "finalHealth") /\ Advance("web_promoted")

RollbackReload ==
    /\ \/ Reload("rbTraffic", "rbSmoke")
       \/ Reload("rbReturn", AfterReturn(failed))
       \/ Reload("rbFinal", "rbFinalSmoke")
       \/ Reload("rbFailSafe", "record")
    /\ UNCHANGED journal

\* A statement raises: within the fault bound, or because the host refuses it.
Raises(refused) ==
    \/ refused /\ UNCHANGED faults
    \/ ~refused /\ faults < MaxFaults /\ MayTrouble /\ faults' = faults + 1

\* After a failure the old master may have kept its route, taken the new one
\* (an uncertain signal delivery) or reloaded the restored previous bytes.
ReloadFails(to, failedNow, errorNow) ==
    /\ pc \in RouteLabels /\ prior # NoRoute
    /\ Raises(~Loadable(upstream))
    /\ upstream' = prior
    /\ \/ UNCHANGED nginx
       \/ \E r \in {upstream, prior} : Loadable(r) /\ Load(r)
    /\ prior' = NoRoute /\ pc' = to /\ failed' = failedNow /\ error' = errorNow
    /\ UNCHANGED <<plan, journal, lineage, marker, dockerfile, docker, bundle, flags, orig,
                   baselines, passed, crashes, history>>

RouteFails ==
    \/ pc \in StageRoutes /\ ReloadFails("rollback", failed, TRUE)
    \/ pc \in {"rbTraffic", "rbFailSafe"} /\ ReloadFails("record", failed, error)
    \/ /\ pc = "rbReturn"
       /\ ReloadFails(AfterReturn(failed \cup {"route"}), failed \cup {"route"}, error)
    \/ pc = "rbFinal" /\ ReloadFails("rbFailSafe", failed, error)

-----------------------------------------------------------------------------
(***************************************************************************)
(* Failures of the stages.                                                 *)
(***************************************************************************)
Refused ==
    \/ pc = "validate" /\ ~ValidTransition
    \/ pc = "capture" /\ ~UniformServices
    \/ pc = "startPrevious" /\ reference # orig.image
    \/ pc = "stabilize" /\ ~FunctionalHealth(orig.image)
    \/ pc = "finalHealth" /\ ~FunctionalHealth(bundle.version)

StageFails ==
    /\ pc \in StageLabels \ ({"writeLineage"} \cup PlanLabels \cup StageRoutes)
    /\ Raises(Refused)
    /\ error' = TRUE /\ pc' = "rollback"
    /\ UNCHANGED <<disk, docker, nginx, bundle, flags, orig, baselines, prior, failed,
                   passed, crashes, history>>

\* The capture raises between the name of the Dockerfile's copy, which makes the rollback
\* a prepared one, and the plan.  No flag is set: its restorations put back what is there,
\* or fail on a copy that was not made, and there is no plan to remove.
CaptureFails ==
    /\ Step("capture", "record")
    /\ UniformServices
    /\ Raises(FALSE)
    /\ error' = TRUE /\ passed' \in BOOLEAN
    /\ UNCHANGED <<disk, docker, nginx, bundle, flags, orig, baselines, prior, failed,
                   crashes, history>>

\* The success record is durable already, and stays until the rollback has ended; the
\* pointer may or may not have been replaced.  A success record that is replaced and
\* raises all the same is Publish, and this with the pointer as it was.
LineageWriteFails ==
    /\ Step("writeLineage", "rollback")
    /\ Raises(FALSE)
    /\ lineage' \in {lineage, bundle.version}
    /\ error' = TRUE
    /\ undone' = undone \cup {bundle.attempt}
    /\ UNCHANGED <<plan, journal, marker, upstream, dockerfile, docker, nginx, bundle,
                   flags, orig, baselines, prior, failed, passed, crashes, torn>>

\* The flag is set in memory but the plan on disk keeps its previous value.
SavePlanFails(from, flag) ==
    /\ Step(from, "rollback")
    /\ Raises(FALSE)
    /\ flags' = [flags EXCEPT ![flag] = TRUE]
    /\ error' = TRUE
    /\ UNCHANGED <<disk, docker, nginx, bundle, orig, baselines, prior, failed, passed,
                   crashes, history>>

\* The engine swallows the error: startup will recognise the verified attempt.
DisarmFails ==
    /\ Step("disarm", "cleanup")
    /\ Raises(FALSE)
    /\ UNCHANGED <<disk, docker, nginx, memory, crashes, history>>

\* A housekeeping failure after success never becomes a rollback.
CleanupFails ==
    /\ pc = "cleanup"
    /\ Raises(FALSE)
    /\ \E removed \in SUBSET {Prev, Cand} : RemoveSlots(removed)
    /\ Exit
    /\ UNCHANGED <<disk, reference, static, schema, loaded, crashes, history>>

-----------------------------------------------------------------------------
(***************************************************************************)
(* DockerHost.rollback, in the failed process or in the one that recovers  *)
(* its plan.                                                               *)
(***************************************************************************)
\* original_dockerfile is set: the captures that raise after it are CaptureFails.
Prepared == baselines \/ bundle.mode = "recovery"

RollbackStarts ==
    /\ pc = "rollback"
    /\ \/ ~Prepared /\ pc' = "record" /\ passed' = TRUE
       \/ /\ Prepared /\ UNCHANGED passed
          /\ pc' = IF flags["traffic"] THEN "rbTraffic" ELSE "rbDockerfile"
    /\ UNCHANGED <<disk, docker, nginx, bundle, flags, orig, baselines, prior, failed,
                   error, bounds, history>>

RestoreSmoke ==
    /\ Step("rbSmoke", "rbDockerfile")
    /\ UNCHANGED <<disk, docker, nginx, memory, bounds, history>>

RestoreDockerfile ==
    /\ Step("rbDockerfile", "rbUpstream")
    /\ dockerfile' = orig.dockerfile
    /\ UNCHANGED <<plan, journal, lineage, marker, upstream, docker, nginx, memory, bounds,
                   history>>

\* The file only: the Nginx master is not reloaded here.
RestoreUpstream ==
    /\ Step("rbUpstream", "rbMarker")
    /\ upstream' = orig.upstream
    /\ UNCHANGED <<plan, journal, lineage, marker, dockerfile, docker, nginx, memory, bounds,
                   history>>

RestoreMarker ==
    /\ Step("rbMarker", "rbLineage")
    /\ marker' = IF flags["current"] THEN orig.marker ELSE marker
    /\ UNCHANGED <<plan, journal, lineage, upstream, dockerfile, docker, nginx, memory, bounds,
                   history>>

RestoreLineage ==
    /\ Step("rbLineage", "rbStatic")
    /\ lineage' = IF flags["current"] THEN orig.lineage ELSE lineage
    /\ UNCHANGED <<plan, journal, marker, upstream, dockerfile, docker, nginx, memory, bounds,
                   history>>

\* The shared static volume is written through a running Gunicorn container.
StaticWriter == (flags["candidate"] /\ image[Cand] # Down) \/ image[Gunicorn] # Down

RestoreStatic ==
    /\ Step("rbStatic", "rbRetag")
    /\ flags["static"] => StaticWriter
    /\ static' = IF flags["static"] THEN orig.static ELSE static
    /\ UNCHANGED <<disk, reference, image, schema, nginx, memory, bounds, history>>

\* Mutant: the Compose reference keeps naming the failed candidate.
RetagReferenceNever ==
    /\ Step("rbRetag", AfterConfiguration(failed))
    /\ UNCHANGED <<disk, docker, nginx, memory, bounds, history>>

\* By image ID: the temporary pin may be gone.
RetagReference ==
    /\ Step("rbRetag", AfterConfiguration(failed))
    /\ reference' = orig.image
    /\ UNCHANGED <<disk, image, static, schema, nginx, memory, bounds, history>>

RestoreService(from, to, service, v) ==
    /\ Step(from, to)
    /\ SetImages(service, v)
    /\ UNCHANGED <<disk, reference, static, schema, nginx, memory, bounds, history>>

RestoreWorkers ==
    \/ RestoreService("rbWorkers", "rbStopBeat", Workers, reference)
    \/ RestoreService("rbStopBeat", "rbStartBeat", Beat, Down)
    \/ RestoreService("rbStartBeat", AfterWorkers(failed), Beat, reference)

RestoreGunicorn ==
    \/ StopGunicorn("rbStopGunicorn", "rbStartGunicorn")
    \/ StartGunicorn("rbStartGunicorn", AfterGunicorn(failed))

\* restored_health_checks: the retained MariaDB, Redis and Nginx containers must
\* have their captured restart counts, and every service its previous image.
Restored ==
    /\ baselines
    /\ \A c \in Services : image[c] = orig.image

VerifyRestored ==
    /\ Step("rbVerify", Verdict(failed))
    /\ Restored
    /\ UNCHANGED <<disk, docker, nginx, memory, bounds, history>>

RestorationFails(labels, part, refused, to) ==
    /\ pc \in labels /\ pc' = to
    /\ Raises(refused)
    /\ failed' = failed \cup {part}
    /\ UNCHANGED <<disk, docker, nginx, bundle, flags, orig, baselines, prior, passed,
                   error, crashes, history>>

RestoreFails ==
    \/ RestorationFails({"rbSmoke"}, "smoke", FALSE, "rbDockerfile")
    \/ RestorationFails(ConfigurationLabels, "configuration",
                        pc = "rbStatic" /\ flags["static"] /\ ~StaticWriter,
                        AfterConfiguration(failed \cup {"configuration"}))
    \/ RestorationFails(WorkerLabels, "workers", FALSE,
                        AfterWorkers(failed \cup {"workers"}))
    \/ RestorationFails(GunicornLabels, "gunicorn", FALSE,
                        AfterGunicorn(failed \cup {"gunicorn"}))
    \/ RestorationFails({"rbVerify"}, "verification", ~Restored,
                        Verdict(failed \cup {"verification"}))

FinalSmoke ==
    /\ Step("rbFinalSmoke", "rbRemove")
    /\ UNCHANGED <<disk, docker, nginx, memory, bounds, history>>

FinalSmokeFails ==
    /\ Step("rbFinalSmoke", "rbFailSafe")
    /\ Raises(FALSE)
    /\ UNCHANGED <<disk, docker, nginx, memory, crashes, history>>

RollbackRemoves ==
    /\ Step("rbRemove", "rbDisarm")
    /\ RemoveSlots({s \in {Prev} : flags["previous"]} \cup {s \in {Cand} : flags["candidate"]})
    /\ UNCHANGED <<disk, reference, static, schema, loaded, memory, bounds, history>>

RollbackDisarms ==
    /\ Step("rbDisarm", "record")
    /\ plan' = NoPlan
    /\ passed' = TRUE
    /\ UNCHANGED <<journal, lineage, marker, upstream, dockerfile, docker, nginx, bundle,
                   flags, orig, baselines, prior, failed, error, bounds, history>>

\* Removing a slot or the plan raises: the rollback ends unfinished.
RollbackEndFails ==
    /\ pc \in {"rbRemove", "rbDisarm"} /\ pc' = "record"
    /\ Raises(FALSE)
    /\ UNCHANGED <<disk, docker, nginx, memory, crashes, history>>

\* journal.fail, or PreflightJournal.succeed; a recovery writes no journal.
Outcome ==
    LET entry == journal[bundle.attempt] IN
    IF bundle.mode = "preflight" /\ ~error /\ passed
    THEN Entry("candidate_validated", "success", "passed", entry.version)
    ELSE Entry(entry.state, "failed", IF passed THEN "passed" ELSE "failed", entry.version)

Record ==
    /\ pc = "record"
    /\ journal' = IF bundle.mode = "recovery" THEN journal
                  ELSE [journal EXCEPT ![bundle.attempt] = Outcome]
    /\ undone' = undone \ {bundle.attempt}
    /\ Exit
    /\ UNCHANGED <<plan, lineage, marker, upstream, dockerfile, docker, nginx, bounds, torn>>

RecordFails ==
    /\ pc = "record" /\ bundle.mode # "recovery"
    /\ Raises(FALSE)
    /\ Exit
    /\ UNCHANGED <<disk, docker, nginx, crashes, history>>

-----------------------------------------------------------------------------
Stages ==
    \/ Validate \/ Capture \/ StartPreviousSlot \/ WriteDockerfile \/ Build
    \/ Backup \/ Migrate \/ CollectStatic \/ StartCandidateSlot
    \/ ReplaceWorkers \/ StopBeat \/ StartBeat \/ Stabilize
    \/ StopGunicorn("stopGunicorn", "startGunicorn")
    \/ StartGunicorn("startGunicorn", "routePromoted")
    \/ FinalHealth \/ WriteMarker \/ Publish \/ WriteLineage \/ Disarm \/ Cleanup

PlanStages ==
    \/ SavePlan("planPrevious", "previous", "startPrevious")
    \/ SavePlan("planMigration", "migration", "migrate")
    \/ SavePlan("planTraffic", "traffic", "routePrevious")
    \/ SavePlan("planStatic", "static", "collectStatic")
    \/ SavePlan("planCandidate", "candidate", "startCandidate")
    \/ SavePlan("planWorkers", "workers", "replaceWorkers")
    \/ SavePlan("planGunicorn", "gunicorn", "stopGunicorn")
    \/ SavePlan("planCurrent", "current", "writeMarker")

PlanStageFails ==
    \/ SavePlanFails("planPrevious", "previous")
    \/ SavePlanFails("planMigration", "migration")
    \/ SavePlanFails("planTraffic", "traffic")
    \/ SavePlanFails("planStatic", "static")
    \/ SavePlanFails("planCandidate", "candidate")
    \/ SavePlanFails("planWorkers", "workers")
    \/ SavePlanFails("planGunicorn", "gunicorn")
    \/ SavePlanFails("planCurrent", "current")

Rollback ==
    \/ RollbackStarts \/ RestoreSmoke \/ RestoreDockerfile \/ RestoreUpstream
    \/ RestoreMarker \/ RestoreLineage \/ RestoreStatic \/ RetagReference
    \/ RestoreWorkers \/ RestoreGunicorn \/ VerifyRestored \/ FinalSmoke
    \/ RollbackRemoves \/ RollbackDisarms \/ Record

Failures ==
    \/ StageFails \/ CaptureFails \/ LineageWriteFails \/ PlanStageFails \/ RouteFails
    \/ DisarmFails \/ CleanupFails
    \/ RestoreFails \/ FinalSmokeFails \/ RollbackEndFails \/ RecordFails

\* One step of the process that holds the lock.
Receiver ==
    \/ Stages \/ PlanStages \/ WriteUpstream \/ StageReload \/ RollbackReload
    \/ Rollback \/ Failures

Startup == RecoverPlan \/ DropStalePlan

Next == ReceiveArchive \/ Startup \/ Receiver \/ Crash

Spec == Init /\ [][Next]_vars

\* A live process keeps running its statements, and while a plan is retained
\* somebody invokes the receiver again.
Fairness == WF_vars(Receiver) /\ WF_vars(Startup)
FairSpec == Spec /\ Fairness
=============================================================================
