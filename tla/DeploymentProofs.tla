-------------------------- MODULE DeploymentProofs --------------------------
(***************************************************************************)
(* Proofs about the guarded deployment for every number of versions,       *)
(* attempts, faults and crashes, in three parts: the types and the lineage *)
(* pointer; the service of the users; and what the rollback and the        *)
(* startup recovery leave behind: the plan on disk describes the release   *)
(* it came from, a journalled success is what production runs, and the     *)
(* receiver implements ReleaseTransaction.                                 *)
(*                                                                         *)
(* In the third part one sequence is an exception.  When current.json      *)
(* cannot be written after the attempt is on record as a success, its      *)
(* rollback begins with that record standing (undone).  If it is killed or *)
(* fails before it can record the failure, the startup takes the           *)
(* half-restored plan for one of a finished release and drops it (torn).   *)
(* What is proved of production then holds again from the next release     *)
(* that is verified.  The first two parts need no exception.               *)
(***************************************************************************)
EXTENDS DeploymentProperties, TLAPS

USE DEF StageRoutes, PlanLabels, RollbackRoutes, ConfigurationLabels, WorkerLabels,
        GunicornLabels, history

-----------------------------------------------------------------------------
(***************************************************************************)
(* Facts about the pieces the state is made of.                            *)
(***************************************************************************)

\* The values of the initial state and of Exit have the types of their variables.
LEMMA DefaultTypes ==
    /\ NoFlags \in Flags
    /\ NoOriginals \in Originals
    /\ NoBundle \in Bundles
    /\ NoEntry \in Entries
    /\ GunicornOnly \in Routes
BY BoundsAssumption DEF NoFlags, Flags, NoOriginals, Originals, NoBundle, Bundle, Bundles,
    NoEntry, Entry, Entries, JournalStates, GunicornOnly, Route, Routes, Targets, Versions, Attempts

\* Every route a traffic boundary renders names Gunicorn and slots of its own attempt.
LEMMA TargetRouteType ==
    ASSUME bundle \in Bundles
    PROVE  TargetRoute \in Routes
BY DEF TargetRoute, Route, Routes, Targets, Slots, Prev, Cand, PrevSlot, CandSlot,
    Bundles, GunicornOnly

\* The plan a stage writes is a plan.
LEMMA PlanType ==
    ASSUME bundle \in Bundles, NEW f \in Flags, NEW o \in Originals
    PROVE  PlanOf(f, o) \in Plans
BY DEF PlanOf, Plans, Bundles

-----------------------------------------------------------------------------
(***************************************************************************)
(* Type correctness, one lemma per family of steps.                        *)
(***************************************************************************)

\* Receiving an archive, recovering a plan, dropping a stale one, dying.
LEMMA StartTypes ==
    ASSUME TypeOK, ReceiveArchive \/ Startup \/ Crash
    PROVE  TypeOK'
<1> USE DefaultTypes, BoundsAssumption DEF TypeOK
<1>1. CASE ReceiveArchive
  <2> PICK b \in Bundles :
        /\ b.mode \in {"deploy", "preflight"}
        /\ bundle' = b
        /\ journal' = [journal EXCEPT ![b.attempt] =
                Entry("none", "running", "none", b.version)]
    BY <1>1 DEF ReceiveArchive
  <2>1. Entry("none", "running", "none", b.version) \in Entries
    BY DEF Entries, Entry, JournalStates, Bundles
  <2>2. journal' \in [Attempts -> Entries]
    BY <2>1 DEF Bundles
  <2> QED
    BY <1>1, <2>2 DEF ReceiveArchive, docker, nginx, bounds, Labels, StageLabels
<1>2. CASE RecoverPlan
  <2>1. plan \in Plans
    BY <1>2 DEF RecoverPlan
  <2>2. bundle' \in Bundles
    BY <1>2, <2>1 DEF RecoverPlan, Plans, Bundles, Bundle, Versions
  <2> QED
    BY <1>2, <2>1, <2>2 DEF RecoverPlan, Plans, disk, docker, nginx, bounds, Labels, RollbackLabels
<1>3. CASE DropStalePlan
  BY <1>3 DEF DropStalePlan, docker, nginx, memory, bounds
<1>4. CASE Crash
  <2>1. crashes' \in 0 .. MaxCrashes
    BY <1>4 DEF Crash
  <2> QED
    BY <1>4, <2>1 DEF Crash, Exit, disk, docker, nginx, Labels
<1> QED BY <1>1, <1>2, <1>3, <1>4 DEF Startup

\* Entering a state writes it into the entry of the current attempt, or nothing.
LEMMA AdvanceType ==
    ASSUME TypeOK, NEW state \in JournalStates, Advance(state)
    PROVE  journal' \in [Attempts -> Entries]
BY DEF TypeOK, Advance, Entry, Entries, Bundles

\* A container gets an image of some release.
LEMMA SetImagesType ==
    ASSUME TypeOK, NEW c \in Containers, NEW v \in Versions \cup {Down}, SetImages(c, v)
    PROVE  image' \in [Containers -> Versions \cup {Down}]
BY DEF TypeOK, SetImages

\* The service and slot names are containers.
LEMMA ContainerTypes ==
    ASSUME bundle \in Bundles
    PROVE  /\ Gunicorn \in Containers /\ Workers \in Containers /\ Beat \in Containers
           /\ Prev \in Containers /\ Cand \in Containers
BY DEF Containers, Services, Slots, Prev, Cand, PrevSlot, CandSlot, Bundles

\* Removing slots leaves the other containers and servers alone.
LEMMA RemoveSlotsType ==
    ASSUME TypeOK, NEW S, RemoveSlots(S)
    PROVE  image' \in [Containers -> Versions \cup {Down}] /\ serving' \in SUBSET Targets
BY DEF TypeOK, RemoveSlots

-----------------------------------------------------------------------------
\* The statements of the stages.
LEMMA StageTypes ==
    ASSUME TypeOK, Stages
    PROVE  TypeOK'
<1> USE BoundsAssumption DEF TypeOK, Step, Labels
<1> bundle \in Bundles
  OBVIOUS
<1> bundle.version \in Versions /\ bundle.attempt \in Attempts
  BY DEF Bundles
<1>1. CASE Validate
  BY <1>1, AdvanceType DEF Validate, JournalStates, docker, nginx, memory, bounds, StageLabels
<1>2. CASE Capture
  <2>1. image[Gunicorn] \in Versions
    BY <1>2, ContainerTypes DEF Capture, UniformServices, Services
  <2>2. orig' \in Originals
    BY <1>2, <2>1 DEF Capture, Originals
  <2>3. plan' \in Plans
    BY <1>2, <2>2, PlanType DEF Capture
  <2> QED
    BY <1>2, <2>2, <2>3 DEF Capture, docker, nginx, bounds, StageLabels
<1>3. CASE StartPreviousSlot
  BY <1>3, ContainerTypes, SetImagesType DEF StartPreviousSlot, disk, nginx, memory, bounds, StageLabels
<1>4. CASE WriteDockerfile
  BY <1>4 DEF WriteDockerfile, docker, nginx, memory, bounds, StageLabels
<1>5. CASE Build
  BY <1>5, AdvanceType DEF Build, JournalStates, nginx, memory, bounds, StageLabels, RollbackLabels
<1>6. CASE Backup
  BY <1>6, AdvanceType DEF Backup, JournalStates, docker, nginx, memory, bounds, StageLabels
<1>7. CASE Migrate
  BY <1>7 DEF Migrate, disk, nginx, memory, bounds, StageLabels
<1>8. CASE CollectStatic
  BY <1>8, AdvanceType DEF CollectStatic, JournalStates, nginx, memory, bounds, StageLabels
<1>9. CASE StartCandidateSlot
  BY <1>9, ContainerTypes, SetImagesType, AdvanceType
     DEF StartCandidateSlot, JournalStates, nginx, memory, bounds, StageLabels
<1>10. CASE ReplaceWorkers
  BY <1>10, ContainerTypes, SetImagesType DEF ReplaceWorkers, disk, nginx, memory, bounds, StageLabels
<1>11. CASE StopBeat
  BY <1>11, ContainerTypes, SetImagesType DEF StopBeat, disk, nginx, memory, bounds, StageLabels
<1>12. CASE StartBeat
  BY <1>12, ContainerTypes, SetImagesType, AdvanceType
     DEF StartBeat, JournalStates, nginx, memory, bounds, StageLabels
<1>13. CASE Stabilize
  BY <1>13, AdvanceType DEF Stabilize, JournalStates, docker, nginx, memory, bounds, StageLabels
<1>14. CASE StopGunicorn("stopGunicorn", "startGunicorn")
  BY <1>14, ContainerTypes, SetImagesType DEF StopGunicorn, disk, memory, bounds, StageLabels
<1>15. CASE StartGunicorn("startGunicorn", "routePromoted")
  BY <1>15, ContainerTypes, SetImagesType DEF StartGunicorn, disk, nginx, memory, bounds, StageLabels
<1>16. CASE FinalHealth
  BY <1>16 DEF FinalHealth, disk, docker, nginx, memory, bounds, StageLabels
<1>17. CASE WriteMarker
  BY <1>17, AdvanceType DEF WriteMarker, JournalStates, docker, nginx, memory, bounds, StageLabels
<1>18. CASE Publish
  BY <1>18 DEF Publish, Entry, Entries, docker, nginx, memory, bounds, StageLabels
<1>19. CASE WriteLineage
  BY <1>19 DEF WriteLineage, docker, nginx, memory, bounds
<1>20. CASE Disarm
  BY <1>20 DEF Disarm, docker, nginx, memory, bounds
<1>21. CASE Cleanup
  BY <1>21, DefaultTypes, RemoveSlotsType DEF Cleanup, Exit, disk, bounds
<1> QED
  BY <1>1, <1>2, <1>3, <1>4, <1>5, <1>6, <1>7, <1>8, <1>9, <1>10, <1>11, <1>12, <1>13,
     <1>14, <1>15, <1>16, <1>17, <1>18, <1>19, <1>20, <1>21 DEF Stages

\* Saving the plan ahead of a mutation.
LEMMA PlanStageTypes ==
    ASSUME TypeOK, PlanStages
    PROVE  TypeOK'
<1>1. ASSUME NEW from, NEW flag \in FlagNames, NEW to \in StageLabels, SavePlan(from, flag, to)
      PROVE  TypeOK'
  <2>1. flags' \in Flags
    BY <1>1 DEF TypeOK, SavePlan, Flags
  <2>2. plan' \in Plans
    BY <1>1, <2>1, PlanType DEF TypeOK, SavePlan
  <2> QED
    BY <1>1, <2>1, <2>2 DEF TypeOK, SavePlan, Step, Labels, docker, nginx, bounds
<1> QED
  BY <1>1 DEF PlanStages, FlagNames, StageLabels

-----------------------------------------------------------------------------
\* Every restoration of the rollback names its successor among the rollback labels.
LEMMA ChainLabels ==
    ASSUME NEW f
    PROVE  /\ Verdict(f) \in RollbackLabels
           /\ AfterReturn(f) \in RollbackLabels
           /\ AfterGunicorn(f) \in RollbackLabels
           /\ AfterWorkers(f) \in RollbackLabels
           /\ AfterConfiguration(f) \in RollbackLabels
BY DEF Verdict, AfterReturn, AfterGunicorn, AfterWorkers, AfterConfiguration, RollbackLabels

\* A statement that raises stays within the bound on faults.
LEMMA RaisesType ==
    ASSUME TypeOK, NEW refused \in BOOLEAN, Raises(refused)
    PROVE  faults' \in 0 .. MaxFaults
BY BoundsAssumption DEF TypeOK, Raises

\* The traffic boundaries, whether they load, fail or are refused.
LEMMA RouteTypes ==
    ASSUME TypeOK, WriteUpstream \/ StageReload \/ RollbackReload \/ RouteFails
    PROVE  TypeOK'
<1> DEFINE Parts == {"smoke", "configuration", "workers", "gunicorn", "route", "verification"}
<1>1. CASE WriteUpstream
  BY <1>1, TargetRouteType DEF TypeOK, WriteUpstream, docker, nginx, bounds
<1>2. ASSUME NEW from, NEW to \in Labels, Reload(from, to), journal' \in [Attempts -> Entries]
      PROVE  TypeOK'
  <2>1. Servers(upstream) \in SUBSET Targets
    BY DEF TypeOK, Routes, Servers
  <2> QED
    BY <1>2, <2>1 DEF TypeOK, Reload, Step, Load, docker, bounds
<1>3. CASE StageReload
  <2>1. journal' \in [Attempts -> Entries]
    BY <1>3, AdvanceType DEF TypeOK, StageReload, JournalStates
  <2> QED
    BY <1>2, <1>3, <2>1 DEF StageReload, Labels, StageLabels
<1>4. CASE RollbackReload
  <2>1. journal' \in [Attempts -> Entries]
    BY <1>4 DEF TypeOK, RollbackReload
  <2> QED
    BY <1>2, <1>4, <2>1, ChainLabels DEF RollbackReload, Labels, RollbackLabels
<1>5. ASSUME NEW to \in Labels, NEW f \in SUBSET Parts, NEW e \in BOOLEAN, ReloadFails(to, f, e)
      PROVE  TypeOK'
  <2>1. prior \in Routes
    BY <1>5 DEF TypeOK, ReloadFails
  <2>2. faults' \in 0 .. MaxFaults
    BY <1>5, RaisesType DEF ReloadFails
  <2>3. loaded' \in Routes /\ serving' \in SUBSET Targets
    <3>1. CASE UNCHANGED nginx
      BY <3>1 DEF TypeOK, nginx
    <3>2. CASE \E r \in {upstream, prior} : Loadable(r) /\ Load(r)
      BY <2>1, <3>2 DEF TypeOK, Load, Routes, Servers
    <3> QED
      BY <1>5, <3>1, <3>2 DEF ReloadFails
  <2> QED
    BY <1>5, <2>1, <2>2, <2>3 DEF TypeOK, ReloadFails, docker
<1>6. CASE RouteFails
  <2>1. failed \in SUBSET Parts /\ failed \cup {"route"} \in SUBSET Parts /\ error \in BOOLEAN
    BY DEF TypeOK
  <2> QED
    BY <1>5, <1>6, <2>1, ChainLabels DEF RouteFails, Labels, StageLabels, RollbackLabels
<1> QED BY <1>1, <1>3, <1>4, <1>6

\* The statements of the rollback.
LEMMA RollbackTypes ==
    ASSUME TypeOK, Rollback
    PROVE  TypeOK'
<1> USE DEF TypeOK, Step, Labels
<1> bundle \in Bundles /\ orig \in Originals
  OBVIOUS
<1> /\ bundle.attempt \in Attempts
    /\ orig.image \in Versions /\ orig.dockerfile \in Versions /\ orig.static \in Versions
    /\ orig.upstream \in Routes /\ orig.marker \in Versions /\ orig.lineage \in Versions
  BY DEF Bundles, Originals
<1>1. CASE RollbackStarts
  BY <1>1 DEF RollbackStarts, disk, docker, nginx, bounds, RollbackLabels
<1>2. CASE RestoreSmoke
  BY <1>2 DEF RestoreSmoke, disk, docker, nginx, memory, bounds, RollbackLabels
<1>3. CASE RestoreDockerfile
  BY <1>3 DEF RestoreDockerfile, docker, nginx, memory, bounds, RollbackLabels
<1>4. CASE RestoreUpstream
  BY <1>4 DEF RestoreUpstream, docker, nginx, memory, bounds, RollbackLabels
<1>5. CASE RestoreMarker
  BY <1>5 DEF RestoreMarker, docker, nginx, memory, bounds, RollbackLabels
<1>6. CASE RestoreLineage
  BY <1>6 DEF RestoreLineage, docker, nginx, memory, bounds, RollbackLabels
<1>7. CASE RestoreStatic
  BY <1>7 DEF RestoreStatic, disk, nginx, memory, bounds, RollbackLabels
<1>8. CASE RetagReference
  BY <1>8, ChainLabels DEF RetagReference, disk, nginx, memory, bounds
<1>9. CASE RestoreWorkers
  <2>1. ASSUME NEW from, NEW to \in Labels, NEW c \in Containers,
               NEW v \in Versions \cup {Down}, RestoreService(from, to, c, v)
        PROVE  TypeOK'
    BY <2>1, SetImagesType DEF RestoreService, disk, nginx, memory, bounds
  <2> QED
    BY <1>9, <2>1, ContainerTypes, ChainLabels DEF RestoreWorkers, RollbackLabels
<1>10. CASE RestoreGunicorn
  <2>1. CASE StopGunicorn("rbStopGunicorn", "rbStartGunicorn")
    BY <2>1, ContainerTypes, SetImagesType
       DEF StopGunicorn, disk, memory, bounds, RollbackLabels
  <2>2. CASE StartGunicorn("rbStartGunicorn", AfterGunicorn(failed))
    BY <2>2, ContainerTypes, SetImagesType, ChainLabels
       DEF StartGunicorn, disk, nginx, memory, bounds
  <2> QED
    BY <1>10, <2>1, <2>2 DEF RestoreGunicorn
<1>11. CASE VerifyRestored
  BY <1>11, ChainLabels DEF VerifyRestored, disk, docker, nginx, memory, bounds
<1>12. CASE FinalSmoke
  BY <1>12 DEF FinalSmoke, disk, docker, nginx, memory, bounds, RollbackLabels
<1>13. CASE RollbackRemoves
  BY <1>13, RemoveSlotsType DEF RollbackRemoves, disk, memory, bounds, RollbackLabels
<1>14. CASE RollbackDisarms
  BY <1>14 DEF RollbackDisarms, docker, nginx, bounds, RollbackLabels
<1>15. CASE Record
  <2>1. Outcome \in Entries
    BY DEF Outcome, Entry, Entries, JournalStates
  <2>2. journal' \in [Attempts -> Entries]
    BY <1>15, <2>1 DEF Record
  <2> QED
    BY <1>15, <2>2, DefaultTypes DEF Record, Exit, docker, nginx, bounds
<1> QED
  BY <1>1, <1>2, <1>3, <1>4, <1>5, <1>6, <1>7, <1>8, <1>9, <1>10, <1>11, <1>12, <1>13,
     <1>14, <1>15 DEF Rollback

\* The failures of the stages and of the rollback.
LEMMA FailureTypes ==
    ASSUME TypeOK, Failures
    PROVE  TypeOK'
<1> USE DEF TypeOK, Step, Labels
<1> bundle \in Bundles
  OBVIOUS
<1>1. CASE StageFails
  <2>1. faults' \in 0 .. MaxFaults
    BY <1>1, RaisesType DEF StageFails, Refused
  <2> QED
    BY <1>1, <2>1 DEF StageFails, disk, docker, nginx, RollbackLabels
<1>2. CASE LineageWriteFails
  <2>1. faults' \in 0 .. MaxFaults
    BY <1>2, RaisesType DEF LineageWriteFails
  <2> QED
    BY <1>2, <2>1 DEF LineageWriteFails, Bundles, docker, nginx, RollbackLabels
<1>3. CASE PlanStageFails
  <2>1. ASSUME NEW from, NEW flag \in FlagNames, SavePlanFails(from, flag)
        PROVE  TypeOK'
    <3>1. faults' \in 0 .. MaxFaults
      BY <2>1, RaisesType DEF SavePlanFails
    <3>2. flags' \in Flags
      BY <2>1 DEF SavePlanFails, Flags
    <3> QED
      BY <2>1, <3>1, <3>2 DEF SavePlanFails, disk, docker, nginx, RollbackLabels
  <2> QED
    BY <1>3, <2>1 DEF PlanStageFails, FlagNames
<1>4. CASE RouteFails
  BY <1>4, RouteTypes
<1>5. CASE DisarmFails
  <2>1. faults' \in 0 .. MaxFaults
    BY <1>5, RaisesType DEF DisarmFails
  <2> QED
    BY <1>5, <2>1 DEF DisarmFails, disk, docker, nginx, memory
<1>6. CASE CleanupFails
  <2>1. faults' \in 0 .. MaxFaults
    BY <1>6, RaisesType DEF CleanupFails
  <2>2. image' \in [Containers -> Versions \cup {Down}] /\ serving' \in SUBSET Targets
    BY <1>6, RemoveSlotsType DEF CleanupFails
  <2> QED
    BY <1>6, <2>1, <2>2, DefaultTypes DEF CleanupFails, Exit, disk
<1>7. CASE RestoreFails
  <2>1. ASSUME NEW labels, NEW refused \in BOOLEAN, NEW to \in Labels,
               NEW part \in {"smoke", "configuration", "workers", "gunicorn", "verification"},
               RestorationFails(labels, part, refused, to)
        PROVE  TypeOK'
    <3>1. faults' \in 0 .. MaxFaults
      BY <2>1, RaisesType DEF RestorationFails
    <3> QED
      BY <2>1, <3>1 DEF RestorationFails, disk, docker, nginx
  <2> QED
    BY <1>7, <2>1, ChainLabels DEF RestoreFails, RollbackLabels
<1>8. CASE FinalSmokeFails
  <2>1. faults' \in 0 .. MaxFaults
    BY <1>8, RaisesType DEF FinalSmokeFails
  <2> QED
    BY <1>8, <2>1 DEF FinalSmokeFails, disk, docker, nginx, memory, RollbackLabels
<1>9. CASE RollbackEndFails
  <2>1. faults' \in 0 .. MaxFaults
    BY <1>9, RaisesType DEF RollbackEndFails
  <2> QED
    BY <1>9, <2>1 DEF RollbackEndFails, disk, docker, nginx, memory, RollbackLabels
<1>10. CASE RecordFails
  <2>1. faults' \in 0 .. MaxFaults
    BY <1>10, RaisesType DEF RecordFails
  <2> QED
    BY <1>10, <2>1, DefaultTypes DEF RecordFails, Exit, disk, docker, nginx
<1>11. CASE CaptureFails
  <2>1. faults' \in 0 .. MaxFaults
    BY <1>11, RaisesType DEF CaptureFails
  <2> QED
    BY <1>11, <2>1 DEF CaptureFails, disk, docker, nginx, RollbackLabels
<1> QED
  BY <1>1, <1>2, <1>3, <1>4, <1>5, <1>6, <1>7, <1>8, <1>9, <1>10, <1>11 DEF Failures

\* Doing nothing changes no type.
LEMMA StutterTypes ==
    ASSUME TypeOK, UNCHANGED vars
    PROVE  TypeOK'
BY DEF TypeOK, vars, disk, docker, nginx, memory, bounds

\* The initial state has every shape.
LEMMA TypeCorrectInit == Init => TypeOK
<1> SUFFICES ASSUME Init PROVE TypeOK
  OBVIOUS
<1>1. faults \in 0 .. MaxFaults /\ crashes \in 0 .. MaxCrashes /\ 0 \in Versions
  BY BoundsAssumption DEF Init, Versions
<1>2. journal \in [Attempts -> Entries]
  BY DefaultTypes DEF Init
<1>3. image \in [Containers -> Versions \cup {Down}]
  BY <1>1 DEF Init
<1>4. serving \in SUBSET Targets
  BY DEF Init, Targets
<1> QED
  BY <1>1, <1>2, <1>3, <1>4, DefaultTypes DEF Init, TypeOK, Labels

\* Every step keeps every shape.
LEMMA TypeCorrectStep == TypeOK /\ [Next]_vars => TypeOK'
BY StartTypes, StageTypes, PlanStageTypes, RouteTypes, RollbackTypes, FailureTypes,
   StutterTypes DEF Next, Receiver

\* The journal, the plan, the pointers, Docker, Nginx and the process keep their shapes
\* whatever is submitted, fails, is killed or is recovered.
THEOREM TypeCorrect == Spec => []TypeOK
BY TypeCorrectInit, TypeCorrectStep, PTL DEF Spec

-----------------------------------------------------------------------------
(***************************************************************************)
(* The lineage pointer names a verified release.  The pointer is written   *)
(* from the attempt that runs, restored from what a plan captured, and the *)
(* journal entry that justifies it must survive every later write of the   *)
(* journal: the invariant ties the three together.                         *)
(***************************************************************************)

\* The statements only a deployment reaches: a preflight turns back after the build.
DeployLabels ==
    StageLabels \ {"validate", "capture", "planPrevious", "startPrevious",
                   "writeDockerfile", "build"}

\* The entry of an attempt in flight: open, of the submitted version, and verified
\* exactly between the marker and the end of the publication.
AttemptInv ==
    LET entry == journal[bundle.attempt] IN
    /\ pc \in StageLabels => /\ bundle.mode \in {"deploy", "preflight"}
                             /\ entry.result # "absent"
                             /\ entry.version = bundle.version
    /\ pc \in DeployLabels => bundle.mode = "deploy"
    /\ pc \in StageLabels \ {"publish", "writeLineage"} => entry.state # "verified"
    /\ pc \in {"publish", "writeLineage"} => entry.state = "verified"
    /\ bundle.mode = "preflight" => entry.state # "verified"
    /\ \A a \in Attempts : journal[a].result = "absent" => journal[a].state # "verified"

Recorded(v) ==
    v = 0 \/ \E a \in Attempts : journal[a].state = "verified" /\ journal[a].version = v

LineageInv ==
    /\ Recorded(lineage)
    /\ Recorded(orig.lineage)
    /\ plan # NoPlan => Recorded(plan.orig.lineage)

LineageIInv == TypeOK /\ AttemptInv /\ LineageInv

\* A verified entry stays verified, of the same version.
VerifiedStays ==
    \A a \in Attempts : journal[a].state = "verified" =>
        journal'[a].state = "verified" /\ journal'[a].version = journal[a].version

\* What is recorded stays recorded.
LEMMA RecordedStays ==
    ASSUME VerifiedStays, NEW v, Recorded(v)
    PROVE  Recorded(v)'
BY DEF VerifiedStays, Recorded

\* Advance touches only the state, only of the attempt that runs, only of a deployment.
LEMMA AdvanceEffect ==
    ASSUME TypeOK, NEW s \in JournalStates, Advance(s)
    PROVE  \A a \in Attempts :
             /\ journal'[a].result = journal[a].result
             /\ journal'[a].version = journal[a].version
             /\ journal'[a].state = IF a = bundle.attempt /\ bundle.mode = "deploy"
                                    THEN s ELSE journal[a].state
BY DEF TypeOK, Advance, Entry, Entries, Bundles

\* A stage that enters one of the states before "verified".
LEMMA AdvanceKeeps ==
    ASSUME TypeOK, AttemptInv, NEW s \in JournalStates \ {"verified"}, Advance(s),
           pc \in StageLabels \ {"publish", "writeLineage"}, bundle' = bundle,
           pc' \notin {"publish", "writeLineage"}, pc' \in DeployLabels => bundle.mode = "deploy",
           pc' \in StageLabels => pc \in StageLabels
    PROVE  AttemptInv' /\ VerifiedStays
<1>1. bundle.attempt \in Attempts
  BY DEF TypeOK, Bundles
<1> QED
  BY <1>1, AdvanceEffect DEF AttemptInv, VerifiedStays

\* A step that leaves the journal and the bundle alone.
LEMMA QuietKeeps ==
    ASSUME AttemptInv, journal' = journal, bundle' = bundle,
           pc' \in {"publish", "writeLineage"} => pc \in {"publish", "writeLineage"},
           pc' \in StageLabels \ {"publish", "writeLineage"}
              => pc \in StageLabels \ {"publish", "writeLineage"},
           pc' \in DeployLabels => pc \in DeployLabels \/ bundle.mode = "deploy"
    PROVE  AttemptInv' /\ VerifiedStays
<1>1. pc' \in StageLabels => pc \in StageLabels
  BY DEF StageLabels
<1> QED
  BY <1>1 DEF AttemptInv, VerifiedStays

\* The end of an invocation leaves no attempt in flight.
LEMMA ExitKeeps ==
    ASSUME Exit,
           \A a \in Attempts : journal'[a].result = "absent" => journal'[a].state # "verified"
    PROVE  AttemptInv'
BY DEF Exit, NoBundle, Bundle, AttemptInv, StageLabels, DeployLabels

\* The stages keep the entry of their attempt true.
LEMMA AttemptStages ==
    ASSUME TypeOK, AttemptInv, Stages
    PROVE  AttemptInv' /\ VerifiedStays
<1> USE DEF Step, StageLabels, DeployLabels
<1> bundle.attempt \in Attempts /\ bundle.mode \in {"none", "deploy", "preflight", "recovery"}
  BY DEF TypeOK, Bundles
<1> DEFINE Early == JournalStates \ {"verified"}
<1>1. CASE Validate
  BY <1>1, AdvanceKeeps DEF Validate, JournalStates, memory
<1>2. CASE Capture
  BY <1>2, QuietKeeps DEF Capture
<1>3. CASE StartPreviousSlot
  BY <1>3, QuietKeeps DEF StartPreviousSlot, disk, memory
<1>4. CASE WriteDockerfile
  BY <1>4, QuietKeeps DEF WriteDockerfile, memory
<1>5. CASE Build
  <2>1. bundle.mode = "deploy" \/ pc' = "rollback"
    BY <1>5 DEF Build
  <2>2. pc = "build" /\ pc' \in {"backup", "rollback"} /\ bundle' = bundle
    BY <1>5 DEF Build, memory
  <2> QED
    BY <1>5, <2>1, <2>2, AdvanceKeeps DEF Build, JournalStates
<1>6. CASE Backup
  BY <1>6, AdvanceKeeps DEF Backup, JournalStates, memory, AttemptInv
<1>7. CASE Migrate
  BY <1>7, QuietKeeps DEF Migrate, disk, memory
<1>8. CASE CollectStatic
  BY <1>8, AdvanceKeeps DEF CollectStatic, JournalStates, memory, AttemptInv
<1>9. CASE StartCandidateSlot
  BY <1>9, AdvanceKeeps DEF StartCandidateSlot, JournalStates, memory, AttemptInv
<1>10. CASE ReplaceWorkers
  BY <1>10, QuietKeeps DEF ReplaceWorkers, disk, memory
<1>11. CASE StopBeat
  BY <1>11, QuietKeeps DEF StopBeat, disk, memory
<1>12. CASE StartBeat
  BY <1>12, AdvanceKeeps DEF StartBeat, JournalStates, memory, AttemptInv
<1>13. CASE Stabilize
  BY <1>13, AdvanceKeeps DEF Stabilize, JournalStates, memory, AttemptInv
<1>14. CASE StopGunicorn("stopGunicorn", "startGunicorn")
  BY <1>14, QuietKeeps DEF StopGunicorn, disk, memory
<1>15. CASE StartGunicorn("startGunicorn", "routePromoted")
  BY <1>15, QuietKeeps DEF StartGunicorn, disk, memory
<1>16. CASE FinalHealth
  BY <1>16, QuietKeeps DEF FinalHealth, disk, memory
<1>17. CASE WriteMarker
  <2>1. pc = "writeMarker" /\ pc' = "publish" /\ bundle' = bundle /\ bundle.mode = "deploy"
    BY <1>17 DEF WriteMarker, memory, AttemptInv
  <2>2. Advance("verified") /\ "verified" \in JournalStates
    BY <1>17 DEF WriteMarker, JournalStates
  <2> QED
    BY <2>1, <2>2, AdvanceEffect DEF AttemptInv, VerifiedStays
<1>18. CASE Publish
  <2>1. pc = "publish" /\ pc' = "writeLineage" /\ bundle' = bundle
    BY <1>18 DEF Publish, memory
  <2>2. \A a \in Attempts :
          /\ journal'[a].state = journal[a].state /\ journal'[a].version = journal[a].version
          /\ journal'[a].result = IF a = bundle.attempt THEN "success" ELSE journal[a].result
    BY <1>18 DEF Publish, Entry, TypeOK, Entries
  <2> QED
    BY <2>1, <2>2 DEF AttemptInv, VerifiedStays
<1>19. CASE WriteLineage
  BY <1>19, QuietKeeps DEF WriteLineage, memory
<1>20. CASE Disarm
  BY <1>20, QuietKeeps DEF Disarm, memory
<1>21. CASE Cleanup
  BY <1>21, ExitKeeps DEF Cleanup, disk, AttemptInv, VerifiedStays
<1> QED
  BY <1>1, <1>2, <1>3, <1>4, <1>5, <1>6, <1>7, <1>8, <1>9, <1>10, <1>11, <1>12, <1>13,
     <1>14, <1>15, <1>16, <1>17, <1>18, <1>19, <1>20, <1>21 DEF Stages

\* So do the traffic boundaries and the writes of the plan.
LEMMA AttemptRoutes ==
    ASSUME TypeOK, AttemptInv,
           PlanStages \/ WriteUpstream \/ StageReload \/ RollbackReload \/ RouteFails
    PROVE  AttemptInv' /\ VerifiedStays
<1> USE DEF Step, StageLabels, DeployLabels
<1> bundle.mode \in {"none", "deploy", "preflight", "recovery"}
  BY DEF TypeOK, Bundles
<1>1. CASE PlanStages
  <2>1. /\ journal' = journal /\ bundle' = bundle /\ pc \in PlanLabels
        /\ pc' \in StageLabels \ {"publish", "writeLineage"}
        /\ pc = "planPrevious" => pc' = "startPrevious"
    BY <1>1 DEF PlanStages, SavePlan
  <2> QED
    BY <2>1, QuietKeeps
<1>2. CASE WriteUpstream
  BY <1>2, QuietKeeps DEF WriteUpstream
<1>3. CASE StageReload
  <2>1. CASE UNCHANGED journal
    <3>1. /\ bundle' = bundle /\ pc \in StageRoutes
          /\ pc' \in DeployLabels \ {"publish", "writeLineage"}
      BY <1>3 DEF StageReload, Reload
    <3> QED
      BY <2>1, <3>1, QuietKeeps
  <2>2. CASE Reload("routeCandidate", "planWorkers") /\ Advance("traffic_switched")
    BY <2>2, AdvanceKeeps DEF Reload, JournalStates, AttemptInv
  <2>3. CASE Reload("routePromoted", "finalHealth") /\ Advance("web_promoted")
    BY <2>3, AdvanceKeeps DEF Reload, JournalStates, AttemptInv
  <2> QED
    BY <1>3, <2>1, <2>2, <2>3 DEF StageReload
<1>4. CASE RollbackReload
  <2>1. journal' = journal /\ bundle' = bundle /\ pc' \in RollbackLabels
    BY <1>4, ChainLabels DEF RollbackReload, Reload, RollbackLabels
  <2> QED
    BY <2>1, QuietKeeps DEF RollbackLabels
<1>5. CASE RouteFails
  <2>1. journal' = journal /\ bundle' = bundle /\ pc' \in RollbackLabels
    BY <1>5, ChainLabels DEF RouteFails, ReloadFails, RollbackLabels
  <2> QED
    BY <2>1, QuietKeeps DEF RollbackLabels
<1> QED BY <1>1, <1>2, <1>3, <1>4, <1>5

\* The rollback writes the journal once, at its end, and never un-verifies an entry.
LEMMA AttemptRollback ==
    ASSUME TypeOK, AttemptInv, Rollback \/ Failures
    PROVE  AttemptInv' /\ VerifiedStays
<1> USE DEF Step
<1>1. CASE Record
  <2>1. bundle.attempt \in Attempts
    BY DEF TypeOK, Bundles
  <2>2. Outcome.version = journal[bundle.attempt].version /\ Outcome.result # "absent"
    BY DEF Outcome, Entry
  <2>3. journal[bundle.attempt].state = "verified" => Outcome.state = "verified"
    BY DEF Outcome, Entry, AttemptInv
  <2>4. VerifiedStays
    BY <1>1, <2>1, <2>2, <2>3 DEF Record, VerifiedStays, TypeOK
  <2>5. \A a \in Attempts : journal'[a].result = "absent" => journal'[a].state # "verified"
    BY <1>1, <2>1, <2>2 DEF Record, AttemptInv, TypeOK
  <2> QED
    BY <1>1, <2>4, <2>5, ExitKeeps DEF Record
<1>2. CASE RecordFails \/ CleanupFails
  BY <1>2, ExitKeeps DEF RecordFails, CleanupFails, disk, AttemptInv, VerifiedStays
<1>3. CASE RouteFails
  BY <1>3, AttemptRoutes
<1>4. ASSUME journal' = journal, bundle' = bundle, pc' \in RollbackLabels \cup {"cleanup"}
      PROVE  AttemptInv' /\ VerifiedStays
  BY <1>4, QuietKeeps DEF StageLabels, DeployLabels, RollbackLabels
<1>5. CASE RollbackStarts \/ RestoreSmoke \/ RestoreDockerfile \/ RestoreUpstream
           \/ RestoreMarker \/ RestoreLineage \/ RestoreStatic \/ RetagReference
  BY <1>4, <1>5, ChainLabels
     DEF RollbackStarts, RestoreSmoke, RestoreDockerfile, RestoreUpstream, RestoreMarker,
         RestoreLineage, RestoreStatic, RetagReference, disk, memory, RollbackLabels
<1>6. CASE RestoreWorkers \/ RestoreGunicorn \/ VerifyRestored \/ FinalSmoke
           \/ RollbackRemoves \/ RollbackDisarms
  BY <1>4, <1>6, ChainLabels
     DEF RestoreWorkers, RestoreService, RestoreGunicorn, StopGunicorn, StartGunicorn,
         VerifyRestored, FinalSmoke, RollbackRemoves, RollbackDisarms, disk, memory,
         RollbackLabels
<1>7. CASE StageFails \/ CaptureFails \/ LineageWriteFails \/ PlanStageFails \/ DisarmFails \/ RestoreFails
           \/ FinalSmokeFails \/ RollbackEndFails
  BY <1>4, <1>7, ChainLabels
     DEF StageFails, CaptureFails, LineageWriteFails, PlanStageFails, SavePlanFails, DisarmFails,
         RestoreFails, RestorationFails, FinalSmokeFails, RollbackEndFails, disk, memory,
         RollbackLabels
<1> QED
  BY <1>1, <1>2, <1>3, <1>5, <1>6, <1>7 DEF Rollback, Failures

\* Every step keeps the entry of the attempt in flight true and no entry loses its
\* verified state.
LEMMA AttemptStep ==
    ASSUME TypeOK, AttemptInv, [Next]_vars
    PROVE  AttemptInv' /\ VerifiedStays
<1>1. CASE ReceiveArchive
  <2> PICK b \in Bundles :
        /\ b.mode \in {"deploy", "preflight"} /\ Fresh(b.attempt)
        /\ bundle' = b
        /\ journal' = [journal EXCEPT ![b.attempt] =
                Entry("none", "running", "none", b.version)]
    BY <1>1 DEF ReceiveArchive
  <2>1. b.attempt \in Attempts /\ pc' = "validate"
    BY <1>1 DEF Bundles, ReceiveArchive
  <2>2. journal[b.attempt].state # "verified"
    BY <2>1 DEF Fresh, AttemptInv
  <2>3. \A a \in Attempts : a # b.attempt => journal'[a] = journal[a]
    BY DEF TypeOK
  <2>4. /\ journal'[b.attempt].state = "none" /\ journal'[b.attempt].result = "running"
        /\ journal'[b.attempt].version = b.version
    BY <2>1 DEF TypeOK, Entry
  <2> QED
    BY <2>1, <2>2, <2>3, <2>4 DEF AttemptInv, VerifiedStays, DeployLabels
<1>2. CASE RecoverPlan
  BY <1>2 DEF RecoverPlan, Bundle, disk, AttemptInv, VerifiedStays, StageLabels, DeployLabels
<1>3. CASE DropStalePlan
  BY <1>3, QuietKeeps DEF DropStalePlan, memory
<1>4. CASE Crash
  BY <1>4, ExitKeeps DEF Crash, disk, AttemptInv, VerifiedStays
<1>5. CASE UNCHANGED vars
  BY <1>5, QuietKeeps DEF vars, disk, memory
<1> QED
  BY <1>1, <1>2, <1>3, <1>4, <1>5, AttemptStages, AttemptRoutes, AttemptRollback
     DEF Next, Startup, Receiver

\* The lineage pointer moves to what the attempt installs, when it publishes, or back to
\* what was captured; the captures move among the pointer, the plan and nothing.
PointersMove ==
    /\ \/ lineage' \in {lineage, orig.lineage}
       \/ pc = "writeLineage" /\ lineage' = bundle.version
    /\ \/ orig'.lineage \in {orig.lineage, lineage, 0}
       \/ plan # NoPlan /\ orig' = plan.orig
    /\ plan' \in {plan, NoPlan} \/ plan'.orig = orig'

LEMMA PointerStep ==
    ASSUME TypeOK, [Next]_vars
    PROVE  PointersMove
<1> USE DEF Step, PointersMove
<1>1. ASSUME lineage' = lineage, orig' = orig, plan' \in {plan, NoPlan} \/ plan'.orig = orig'
      PROVE  PointersMove
  BY <1>1
<1>2. ASSUME Exit, lineage' = lineage, plan' = plan
      PROVE  PointersMove
  BY <1>2 DEF Exit, NoOriginals
<1>3. CASE ReceiveArchive
  BY <1>1, <1>3 DEF ReceiveArchive
<1>4. CASE Startup
  BY <1>4 DEF Startup, RecoverPlan, DropStalePlan, disk, memory
<1>5. CASE Crash
  BY <1>2, <1>5 DEF Crash, disk
<1>6. CASE Stages
  <2>1. CASE Capture
    BY <2>1 DEF Capture, PlanOf
  <2>2. CASE WriteLineage
    BY <2>2 DEF WriteLineage, memory
  <2>3. CASE Cleanup
    BY <1>2, <2>3 DEF Cleanup, disk
  <2>4. CASE Validate \/ StartPreviousSlot \/ WriteDockerfile \/ Build \/ Backup \/ Migrate
             \/ CollectStatic \/ StartCandidateSlot \/ ReplaceWorkers \/ StopBeat \/ StartBeat
             \/ Stabilize
    BY <1>1, <2>4 DEF Validate, StartPreviousSlot, WriteDockerfile, Build, Backup, Migrate,
       CollectStatic, StartCandidateSlot, ReplaceWorkers, StopBeat, StartBeat, Stabilize,
       disk, memory
  <2>5. CASE StopGunicorn("stopGunicorn", "startGunicorn")
             \/ StartGunicorn("startGunicorn", "routePromoted")
             \/ FinalHealth \/ WriteMarker \/ Publish \/ Disarm
    BY <1>1, <2>5 DEF StopGunicorn, StartGunicorn, FinalHealth, WriteMarker, Publish, Disarm,
       disk, memory
  <2> QED
    BY <1>6, <2>1, <2>2, <2>3, <2>4, <2>5 DEF Stages
<1>7. CASE PlanStages
  BY <1>1, <1>7 DEF PlanStages, SavePlan, PlanOf
<1>8. CASE WriteUpstream \/ StageReload \/ RollbackReload \/ RouteFails
  BY <1>1, <1>8 DEF WriteUpstream, StageReload, RollbackReload, Reload, RouteFails, ReloadFails
<1>9. CASE Rollback
  <2>1. CASE Record
    BY <1>2, <2>1 DEF Record
  <2>2. CASE RestoreLineage
    BY <2>2 DEF RestoreLineage, memory
  <2>3. CASE RollbackStarts \/ RestoreSmoke \/ RestoreDockerfile \/ RestoreUpstream
             \/ RestoreMarker \/ RestoreStatic \/ RetagReference
    BY <1>1, <2>3 DEF RollbackStarts, RestoreSmoke, RestoreDockerfile, RestoreUpstream,
       RestoreMarker, RestoreStatic, RetagReference, disk, memory
  <2>4. CASE RestoreWorkers \/ RestoreGunicorn \/ VerifyRestored \/ FinalSmoke
             \/ RollbackRemoves \/ RollbackDisarms
    BY <1>1, <2>4 DEF RestoreWorkers, RestoreService, RestoreGunicorn, StopGunicorn,
       StartGunicorn, VerifyRestored, FinalSmoke, RollbackRemoves, RollbackDisarms, disk, memory
  <2> QED
    BY <1>9, <2>1, <2>2, <2>3, <2>4 DEF Rollback
<1>10. CASE Failures
  <2>1. CASE RecordFails \/ CleanupFails
    BY <1>2, <2>1 DEF RecordFails, CleanupFails, disk
  <2>2. CASE LineageWriteFails
    BY <2>2 DEF LineageWriteFails
  <2>3. CASE StageFails \/ CaptureFails \/ PlanStageFails \/ DisarmFails \/ RestoreFails \/ FinalSmokeFails
             \/ RollbackEndFails
    BY <1>1, <2>3 DEF StageFails, CaptureFails, PlanStageFails, SavePlanFails, DisarmFails, RestoreFails,
       RestorationFails, FinalSmokeFails, RollbackEndFails, disk, memory
  <2> QED
    BY <1>8, <1>10, <2>1, <2>2, <2>3 DEF Failures
<1>11. CASE UNCHANGED vars
  BY <1>1, <1>11 DEF vars, disk, memory
<1> QED
  BY <1>3, <1>4, <1>5, <1>6, <1>7, <1>8, <1>9, <1>10, <1>11 DEF Next, Receiver

\* "current.json changes only after every stage passes": for every number of attempts,
\* faults and crashes, and even when the commit itself fails, the lineage pointer of the
\* receiver names the baseline or a release whose attempt the journal holds as verified.
THEOREM LineageIsVerified == Spec => []LineageVerified
<1>1. Init => LineageIInv
  <2> SUFFICES ASSUME Init PROVE AttemptInv /\ LineageInv
    BY TypeCorrectInit DEF LineageIInv
  <2>1. AttemptInv
    BY DEF Init, AttemptInv, NoBundle, Bundle, NoEntry, Entry, StageLabels, DeployLabels
  <2>2. LineageInv
    BY DEF Init, LineageInv, Recorded, NoOriginals
  <2> QED
    BY <2>1, <2>2
<1>2. LineageIInv /\ [Next]_vars => LineageIInv'
  <2> SUFFICES ASSUME LineageIInv, [Next]_vars PROVE LineageIInv'
    OBVIOUS
  <2> USE DEF LineageIInv
  <2>1. TypeOK'
    BY TypeCorrectStep
  <2>2. AttemptInv' /\ VerifiedStays
    BY AttemptStep
  <2>3. pc = "writeLineage" => Recorded(bundle.version)
    BY DEF AttemptInv, Recorded, StageLabels, TypeOK, Bundles
  <2>4. Recorded(lineage)'
    BY <2>2, <2>3, PointerStep DEF LineageInv, PointersMove, Recorded, VerifiedStays
  <2>5. Recorded(orig.lineage)'
    BY <2>2, PointerStep DEF LineageInv, PointersMove, Recorded, VerifiedStays
  <2>6. plan' # NoPlan => Recorded(plan.orig.lineage)'
    BY <2>2, <2>5, PointerStep DEF LineageInv, PointersMove, Recorded, VerifiedStays
  <2> QED
    BY <2>1, <2>2, <2>4, <2>5, <2>6 DEF LineageInv
<1>3. LineageIInv => LineageVerified
  BY DEF LineageIInv, LineageInv, Recorded, LineageVerified
<1> QED
  BY <1>1, <1>2, <1>3, PTL DEF Spec

-----------------------------------------------------------------------------
(***************************************************************************)
(* The control of an invocation: which flags are set at which statement,   *)
(* what the plan on disk has of them, and what a statement of the rollback *)
(* was reached with.                                                       *)
(***************************************************************************)

\* The statements at which each flag is set, the last flag first.
CurrentSet   == {"writeMarker", "publish", "writeLineage"}
GunicornSet  == CurrentSet \cup
    {"stopGunicorn", "startGunicorn", "routePromoted", "finalHealth", "routeFinal", "planCurrent"}
WorkersSet   == GunicornSet \cup
    {"replaceWorkers", "stopBeat", "startBeat", "stabilize", "routeFallback", "planGunicorn"}
CandidateSet == WorkersSet \cup {"startCandidate", "routeCandidate", "planWorkers"}
StaticSet    == CandidateSet \cup {"collectStatic", "planCandidate"}
TrafficSet   == StaticSet \cup {"routePrevious", "planStatic"}
MigrationSet == TrafficSet \cup {"migrate", "planTraffic"}
PreviousSet  == MigrationSet \cup
    {"startPrevious", "writeDockerfile", "build", "backup", "planMigration"}
\* The originals are captured and the plan exists.
CapturedSet  == PreviousSet \cup {"planPrevious"}

\* A process that is gone remembers nothing.
IdleInv == pc = "idle" =>
    /\ flags = NoFlags /\ orig = NoOriginals /\ bundle = NoBundle
    /\ ~baselines /\ prior = NoRoute /\ failed = {} /\ ~passed

\* Only a deployment, a preflight and a recovery run; the plan exists from the capture on.
ModeInv ==
    /\ pc # "idle" => bundle.mode # "none"
    /\ bundle.mode = "recovery" => ~baselines /\ pc \in RollbackLabels
    /\ pc \in {"validate", "capture"} => plan = NoPlan /\ ~baselines
    /\ pc \in CapturedSet => plan # NoPlan /\ plan.flags = flags /\ baselines
    /\ pc \in RollbackLabels \ {"rollback", "record"} => Prepared
    /\ pc \in {"rollback", "record"} /\ ~Prepared => plan = NoPlan

\* The stages set the flags one by one.
StageFlags == pc \in StageLabels =>
    /\ flags["previous"]  <=> pc \in PreviousSet
    /\ flags["migration"] <=> pc \in MigrationSet
    /\ flags["traffic"]   <=> pc \in TrafficSet
    /\ flags["static"]    <=> pc \in StaticSet
    /\ flags["candidate"] <=> pc \in CandidateSet
    /\ flags["workers"]   <=> pc \in WorkersSet
    /\ flags["gunicorn"]  <=> pc \in GunicornSet
    /\ flags["current"]   <=> pc \in CurrentSet

Ordered(f) ==
    /\ f["current"]   => f["gunicorn"]
    /\ f["gunicorn"]  => f["workers"]
    /\ f["workers"]   => f["candidate"]
    /\ f["candidate"] => f["static"]
    /\ f["static"]    => f["traffic"]
    /\ f["traffic"]   => f["migration"]
    /\ f["migration"] => f["previous"]

\* The plan belongs to the process that runs, and lacks at most its last flag.
PlanInv ==
    /\ Ordered(flags)
    /\ plan # NoPlan =>
        /\ Ordered(plan.flags)
        /\ pc # "idle" =>
            /\ plan.attempt = bundle.attempt /\ plan.orig = orig
            /\ \A f \in FlagNames : plan.flags[f] => flags[f]
            /\ flags["traffic"] => plan.flags["migration"]

\* A restoration runs only under its flag; nothing is removed after a failed one, or
\* before what needs a verification has had it.
RestoreInv ==
    /\ pc \in WorkerLabels => flags["workers"]
    /\ pc \in GunicornLabels => flags["gunicorn"]
    /\ pc \in RollbackRoutes \cup {"rbSmoke", "rbFinalSmoke"} => flags["traffic"]
    /\ pc \in {"rbFinal", "rbFinalSmoke", "rbRemove", "rbDisarm"} =>
           failed = {} /\ (NeedsVerification => baselines)
    /\ pc \notin RollbackLabels => failed = {} /\ ~passed

ControlInv == IdleInv /\ ModeInv /\ StageFlags /\ PlanInv /\ RestoreInv

USE DEF CurrentSet, GunicornSet, WorkersSet, CandidateSet, StaticSet, TrafficSet,
        MigrationSet, PreviousSet, CapturedSet

\* What the chain of restorations reaches, and under which flags.
LEMMA ChainReaches ==
    ASSUME NEW f
    PROVE  LET Reached(l) ==
                 \/ l = "rbWorkers" /\ flags["workers"]
                 \/ l = "rbStopGunicorn" /\ flags["gunicorn"]
                 \/ l = "rbReturn" /\ flags["traffic"]
                 \/ l = "rbVerify" /\ NeedsVerification
                 \/ l = "record" /\ f # {}
                 \/ l = "rbFinal" /\ f = {} /\ flags["traffic"] /\ ~NeedsVerification
                 \/ l = "rbRemove" /\ f = {} /\ ~flags["traffic"] /\ ~NeedsVerification
           IN  /\ Reached(AfterReturn(f)) /\ Reached(AfterGunicorn(f))
               /\ Reached(AfterWorkers(f)) /\ Reached(AfterConfiguration(f))
BY DEF Verdict, AfterReturn, AfterGunicorn, AfterWorkers, AfterConfiguration

\* A statement of the stages between two flags.
LEMMA StageControl ==
    ASSUME ControlInv, pc \in StageLabels, pc' \in StageLabels,
           pc \in CapturedSet, pc' \in CapturedSet,
           UNCHANGED <<plan, bundle, flags, orig, baselines, failed, passed>>,
           pc' \in PreviousSet <=> pc \in PreviousSet,
           pc' \in MigrationSet <=> pc \in MigrationSet,
           pc' \in TrafficSet <=> pc \in TrafficSet,
           pc' \in StaticSet <=> pc \in StaticSet,
           pc' \in CandidateSet <=> pc \in CandidateSet,
           pc' \in WorkersSet <=> pc \in WorkersSet,
           pc' \in GunicornSet <=> pc \in GunicornSet,
           pc' \in CurrentSet <=> pc \in CurrentSet
    PROVE  ControlInv'
<1> pc # "idle" /\ pc' # "idle" /\ pc \notin RollbackLabels /\ pc' \notin RollbackLabels
    /\ pc' \notin {"validate", "capture"}
  BY DEF StageLabels, RollbackLabels
<1>1. IdleInv' /\ RestoreInv'
  BY DEF ControlInv, IdleInv, RestoreInv, RollbackLabels
<1>2. ModeInv'
  BY DEF ControlInv, ModeInv
<1>3. StageFlags'
  BY DEF ControlInv, StageFlags
<1>4. PlanInv'
  BY DEF ControlInv, PlanInv, Ordered
<1> QED
  BY <1>1, <1>2, <1>3, <1>4 DEF ControlInv

\* A stage raises: the rollback starts with the flags of memory.
LEMMA RollbackControl ==
    ASSUME ControlInv, pc \in StageLabels, pc' = "rollback",
           UNCHANGED <<plan, bundle, flags, orig, baselines, failed, passed>>
    PROVE  ControlInv'
<1> pc # "idle" /\ pc \notin RollbackLabels /\ bundle.mode # "recovery"
    /\ (~baselines => plan = NoPlan)
  BY DEF StageLabels, RollbackLabels, ControlInv, ModeInv
<1>1. IdleInv' /\ RestoreInv'
  BY DEF ControlInv, IdleInv, RestoreInv
<1>2. ModeInv'
  BY DEF ControlInv, ModeInv, Prepared, RollbackLabels
<1>3. StageFlags'
  BY DEF StageFlags, StageLabels
<1>4. PlanInv'
  BY DEF ControlInv, PlanInv, Ordered
<1> QED
  BY <1>1, <1>2, <1>3, <1>4 DEF ControlInv

\* A statement of the rollback.
LEMMA RestoreControl ==
    ASSUME ControlInv, pc \in RollbackLabels, pc' \in RollbackLabels \ {"rollback"},
           UNCHANGED <<bundle, flags, orig, baselines>>,
           plan' = plan \/ (plan' = NoPlan),
           Prepared \/ (pc = "rollback" /\ pc' = "record"),
           RestoreInv'
    PROVE  ControlInv'
<1> pc # "idle" /\ pc' # "idle" /\ pc \notin StageLabels /\ pc' \notin StageLabels
    /\ pc' \notin CapturedSet \cup {"validate", "capture"}
  BY DEF StageLabels, RollbackLabels
<1>1. IdleInv' /\ StageFlags'
  BY DEF IdleInv, StageFlags
<1>2. ModeInv'
  BY DEF ControlInv, ModeInv, Prepared
<1>4. PlanInv'
  BY DEF ControlInv, PlanInv, Ordered
<1> QED
  BY <1>1, <1>2, <1>4 DEF ControlInv

\* The end of an invocation.
LEMMA ExitControl ==
    ASSUME ControlInv, Exit, plan' = plan
    PROVE  ControlInv'
<1>1. IdleInv'
  BY DEF Exit, IdleInv
<1>2. ModeInv' /\ StageFlags' /\ RestoreInv'
  BY DEF Exit, ModeInv, StageFlags, StageLabels, RestoreInv, RollbackLabels, NoBundle, Bundle
<1>3. PlanInv'
  BY DEF Exit, ControlInv, PlanInv, Ordered, NoFlags, FlagNames
<1> QED
  BY <1>1, <1>2, <1>3 DEF ControlInv
\* The statements after the commit.
LEMMA EndControl ==
    ASSUME ControlInv, pc \in {"writeLineage", "disarm"}, pc' \in {"disarm", "cleanup"},
           UNCHANGED <<bundle, flags, orig, baselines, failed, passed>>,
           plan' \in {plan, NoPlan}
    PROVE  ControlInv'
<1> pc # "idle" /\ pc' # "idle" /\ pc \notin RollbackLabels /\ pc' \notin RollbackLabels
    /\ pc' \notin StageLabels
  BY DEF StageLabels, RollbackLabels
<1>1. IdleInv' /\ StageFlags' /\ RestoreInv'
  BY DEF ControlInv, IdleInv, StageFlags, RestoreInv
<1>2. ModeInv'
  BY DEF ControlInv, ModeInv
<1>3. PlanInv'
  BY DEF ControlInv, PlanInv, Ordered
<1> QED
  BY <1>1, <1>2, <1>3 DEF ControlInv

\* Receiving an archive, recovering a plan, dropping a stale one, dying.
LEMMA ControlStart ==
    ASSUME TypeOK, ControlInv, ReceiveArchive \/ Startup \/ Crash
    PROVE  ControlInv'
<1>1. CASE ReceiveArchive
  <2> PICK b \in Bundles : b.mode \in {"deploy", "preflight"} /\ bundle' = b
    BY <1>1 DEF ReceiveArchive
  <2>1. /\ pc = "idle" /\ pc' = "validate" /\ plan = NoPlan /\ plan' = NoPlan
        /\ flags' = NoFlags /\ ~baselines' /\ failed' = {} /\ ~passed'
    BY <1>1 DEF ReceiveArchive, ControlInv, IdleInv
  <2>2. IdleInv' /\ RestoreInv' /\ PlanInv'
    BY <2>1 DEF IdleInv, RestoreInv, RollbackLabels, PlanInv, Ordered, NoFlags, FlagNames
  <2>3. ModeInv'
    BY <2>1 DEF ModeInv, RollbackLabels
  <2>4. StageFlags'
    BY <2>1 DEF StageFlags, NoFlags, FlagNames
  <2> QED
    BY <2>2, <2>3, <2>4 DEF ControlInv
<1>2. CASE RecoverPlan
  <2>1. /\ pc = "idle" /\ pc' = "rollback" /\ plan # NoPlan /\ plan' = plan
        /\ flags' = plan.flags /\ orig' = plan.orig
        /\ ~baselines' /\ failed' = {} /\ ~passed'
        /\ bundle'.mode = "recovery" /\ bundle'.attempt = plan.attempt
    BY <1>2 DEF RecoverPlan, ControlInv, IdleInv, disk, Bundle
  <2>2. IdleInv' /\ RestoreInv'
    BY <2>1 DEF IdleInv, RestoreInv
  <2>3. PlanInv'
    BY <2>1 DEF ControlInv, PlanInv, Ordered
  <2>4. ModeInv'
    BY <2>1 DEF ModeInv, RollbackLabels, Prepared
  <2>5. StageFlags'
    BY <2>1 DEF StageFlags, StageLabels
  <2> QED
    BY <2>2, <2>3, <2>4, <2>5 DEF ControlInv
<1>3. CASE DropStalePlan
  <2>1. pc = "idle" /\ plan' = NoPlan /\ pc' = pc /\ memory' = memory
    BY <1>3 DEF DropStalePlan
  <2>2. /\ bundle' = bundle /\ flags' = flags /\ orig' = orig /\ baselines' = baselines
        /\ prior' = prior /\ failed' = failed /\ passed' = passed
    BY <2>1 DEF memory
  <2>3. bundle.mode = "none" /\ flags = NoFlags /\ failed = {} /\ ~passed /\ ~baselines
    BY <2>1 DEF ControlInv, IdleInv, NoBundle, Bundle
  <2>4. IdleInv'
    BY <2>1, <2>2 DEF ControlInv, IdleInv
  <2>5. ModeInv' /\ StageFlags' /\ RestoreInv'
    BY <2>1, <2>2, <2>3 DEF ModeInv, StageFlags, StageLabels, RestoreInv, RollbackLabels
  <2>6. PlanInv'
    BY <2>1, <2>2 DEF ControlInv, PlanInv, Ordered
  <2> QED
    BY <2>4, <2>5, <2>6 DEF ControlInv
<1>4. CASE Crash
  BY <1>4, ExitControl DEF Crash, disk
<1> QED BY <1>1, <1>2, <1>3, <1>4 DEF Startup

\* The statements of the stages.
LEMMA ControlStages ==
    ASSUME TypeOK, ControlInv, Stages
    PROVE  ControlInv'
<1> USE DEF Step, StageLabels
<1>1. CASE Validate
  <2>1. /\ pc = "validate" /\ pc' = "capture" /\ plan' = plan /\ bundle' = bundle
        /\ flags' = flags /\ baselines' = baselines /\ failed' = failed /\ passed' = passed
        /\ orig' = orig
    BY <1>1 DEF Validate, memory
  <2>2. IdleInv' /\ StageFlags' /\ RestoreInv'
    BY <2>1 DEF ControlInv, IdleInv, StageFlags, RestoreInv, RollbackLabels
  <2>3. ModeInv' /\ PlanInv'
    BY <2>1 DEF ControlInv, ModeInv, RollbackLabels, PlanInv, Ordered
  <2> QED
    BY <2>2, <2>3 DEF ControlInv
<1>2. CASE Capture
  <2>1. /\ pc = "capture" /\ pc' = "planPrevious" /\ plan' = PlanOf(flags, orig')
        /\ bundle' = bundle /\ flags' = flags /\ baselines' = TRUE /\ failed' = failed
        /\ passed' = passed
    BY <1>2 DEF Capture
  <2>2. plan'.flags = flags' /\ plan'.orig = orig' /\ plan'.attempt = bundle'.attempt
    BY <2>1 DEF PlanOf
  <2>3. plan' \in Plans
    <3>1. image[Gunicorn] \in Versions
      BY <1>2, ContainerTypes DEF Capture, UniformServices, Services, TypeOK
    <3>2. orig' \in Originals
      BY <1>2, <3>1 DEF Capture, Originals, TypeOK
    <3> QED
      BY <2>1, <3>2, PlanType DEF TypeOK
  <2>4. IdleInv' /\ RestoreInv'
    BY <2>1 DEF ControlInv, IdleInv, RestoreInv, RollbackLabels
  <2>5. StageFlags'
    BY <2>1 DEF ControlInv, StageFlags
  <2>6. ModeInv'
    BY <2>1, <2>2, <2>3, AbsenceAssumption DEF ControlInv, ModeInv, RollbackLabels
  <2>7. ~flags["traffic"]
    BY <2>1 DEF ControlInv, StageFlags
  <2>8. PlanInv'
    BY <2>1, <2>2, <2>7 DEF ControlInv, PlanInv, Ordered
  <2> QED
    BY <2>4, <2>5, <2>6, <2>8 DEF ControlInv
<1>3. CASE StartPreviousSlot
  BY <1>3, StageControl DEF StartPreviousSlot, disk, memory
<1>4. CASE WriteDockerfile
  BY <1>4, StageControl DEF WriteDockerfile, memory
<1>5. CASE Build
  BY <1>5, StageControl, RollbackControl DEF Build, memory
<1>6. CASE Backup
  BY <1>6, StageControl DEF Backup, memory
<1>7. CASE Migrate
  BY <1>7, StageControl DEF Migrate, disk, memory
<1>8. CASE CollectStatic
  BY <1>8, StageControl DEF CollectStatic, memory
<1>9. CASE StartCandidateSlot
  BY <1>9, StageControl DEF StartCandidateSlot, memory
<1>10. CASE ReplaceWorkers
  BY <1>10, StageControl DEF ReplaceWorkers, disk, memory
<1>11. CASE StopBeat
  BY <1>11, StageControl DEF StopBeat, disk, memory
<1>12. CASE StartBeat
  BY <1>12, StageControl DEF StartBeat, memory
<1>13. CASE Stabilize
  BY <1>13, StageControl DEF Stabilize, memory
<1>14. CASE StopGunicorn("stopGunicorn", "startGunicorn")
  BY <1>14, StageControl DEF StopGunicorn, disk, memory
<1>15. CASE StartGunicorn("startGunicorn", "routePromoted")
  BY <1>15, StageControl DEF StartGunicorn, disk, memory
<1>16. CASE FinalHealth
  BY <1>16, StageControl DEF FinalHealth, disk, memory
<1>17. CASE WriteMarker
  BY <1>17, StageControl DEF WriteMarker, memory
<1>18. CASE Publish
  BY <1>18, StageControl DEF Publish, memory
<1>19. CASE WriteLineage
  BY <1>19, EndControl DEF WriteLineage, memory
<1>20. CASE Disarm
  BY <1>20, EndControl DEF Disarm, memory
<1>21. CASE Cleanup
  BY <1>21, ExitControl DEF Cleanup, disk
<1> QED
  BY <1>1, <1>2, <1>3, <1>4, <1>5, <1>6, <1>7, <1>8, <1>9, <1>10, <1>11, <1>12, <1>13,
     <1>14, <1>15, <1>16, <1>17, <1>18, <1>19, <1>20, <1>21 DEF Stages

\* Setting a flag moves the stages past it, in memory and on disk alike.
LEMMA SavePlanControl ==
    ASSUME TypeOK, ControlInv,
           NEW from \in StageLabels, NEW flag \in FlagNames, NEW to \in PreviousSet,
           SavePlan(from, flag, to), from \in CapturedSet,
           to \in PreviousSet <=> from \in PreviousSet \/ flag = "previous",
           to \in MigrationSet <=> from \in MigrationSet \/ flag = "migration",
           to \in TrafficSet <=> from \in TrafficSet \/ flag = "traffic",
           to \in StaticSet <=> from \in StaticSet \/ flag = "static",
           to \in CandidateSet <=> from \in CandidateSet \/ flag = "candidate",
           to \in WorkersSet <=> from \in WorkersSet \/ flag = "workers",
           to \in GunicornSet <=> from \in GunicornSet \/ flag = "gunicorn",
           to \in CurrentSet <=> from \in CurrentSet \/ flag = "current"
    PROVE  ControlInv'
<1> DEFINE new == [flags EXCEPT ![flag] = TRUE]
<1>1. /\ pc = from /\ pc' = to /\ bundle' = bundle /\ orig' = orig /\ baselines' = baselines
      /\ failed' = failed /\ passed' = passed /\ flags' = new /\ plan' = PlanOf(new, orig)
  BY DEF SavePlan, Step
<1>2. \A f \in FlagNames : flags'[f] <=> flags[f] \/ f = flag
  BY <1>1 DEF TypeOK, Flags
<1>3. plan'.flags = flags' /\ plan'.orig = orig' /\ plan'.attempt = bundle'.attempt
  BY <1>1 DEF PlanOf
<1>4. plan' # NoPlan
  <2>1. new \in Flags /\ orig \in Originals /\ bundle \in Bundles
    BY DEF TypeOK, Flags
  <2> QED
    BY <1>1, <2>1, PlanType, AbsenceAssumption
<1> HIDE DEF new
<1>5. pc' \in StageLabels /\ pc' # "idle" /\ pc' \notin RollbackLabels
      /\ pc \notin RollbackLabels /\ pc # "idle"
      /\ pc' \notin {"validate", "capture"}
  BY <1>1 DEF StageLabels, RollbackLabels
<1>6. IdleInv' /\ RestoreInv'
  BY <1>1, <1>5 DEF ControlInv, IdleInv, RestoreInv, RollbackLabels
<1>7. ModeInv'
  BY <1>1, <1>3, <1>4, <1>5 DEF ControlInv, ModeInv
<1>8. StageFlags'
  BY <1>1, <1>2, <1>5 DEF ControlInv, StageFlags, FlagNames
<1>9. PlanInv'
  <2>1. Ordered(flags')
    BY <1>5, <1>8, <1>1 DEF StageFlags, Ordered
  <2> QED
    BY <1>3, <2>1 DEF PlanInv, Ordered
<1> QED
  BY <1>6, <1>7, <1>8, <1>9 DEF ControlInv

LEMMA ControlPlanStages ==
    ASSUME TypeOK, ControlInv, PlanStages
    PROVE  ControlInv'
<1> USE DEF StageLabels, FlagNames
<1>1. CASE SavePlan("planPrevious", "previous", "startPrevious")
  BY <1>1, SavePlanControl
<1>2. CASE SavePlan("planMigration", "migration", "migrate")
  BY <1>2, SavePlanControl
<1>3. CASE SavePlan("planTraffic", "traffic", "routePrevious")
  BY <1>3, SavePlanControl
<1>4. CASE SavePlan("planStatic", "static", "collectStatic")
  BY <1>4, SavePlanControl
<1>5. CASE SavePlan("planCandidate", "candidate", "startCandidate")
  BY <1>5, SavePlanControl
<1>6. CASE SavePlan("planWorkers", "workers", "replaceWorkers")
  BY <1>6, SavePlanControl
<1>7. CASE SavePlan("planGunicorn", "gunicorn", "stopGunicorn")
  BY <1>7, SavePlanControl
<1>8. CASE SavePlan("planCurrent", "current", "writeMarker")
  BY <1>8, SavePlanControl
<1> QED
  BY <1>1, <1>2, <1>3, <1>4, <1>5, <1>6, <1>7, <1>8 DEF PlanStages

\* A flag that could not be saved is set in memory only.
LEMMA SavePlanFailsControl ==
    ASSUME TypeOK, ControlInv,
           NEW from \in PlanLabels, NEW flag \in FlagNames, SavePlanFails(from, flag),
           flag = "migration" => from \in PreviousSet,
           flag = "traffic" => from \in MigrationSet,
           flag = "static" => from \in TrafficSet,
           flag = "candidate" => from \in StaticSet,
           flag = "workers" => from \in CandidateSet,
           flag = "gunicorn" => from \in WorkersSet,
           flag = "current" => from \in GunicornSet
    PROVE  ControlInv'
<1>1. /\ pc = from /\ pc' = "rollback" /\ bundle' = bundle /\ orig' = orig
      /\ baselines' = baselines /\ failed' = failed /\ passed' = passed /\ plan' = plan
  BY DEF SavePlanFails, Step, disk
<1>2. \A f \in FlagNames : flags'[f] <=> flags[f] \/ f = flag
  BY DEF SavePlanFails, TypeOK, Flags
<1>3. pc \in StageLabels /\ pc \in CapturedSet /\ pc # "idle" /\ pc \notin RollbackLabels
  BY <1>1 DEF StageLabels, RollbackLabels
<1>4. IdleInv' /\ RestoreInv' /\ StageFlags'
  BY <1>1, <1>3 DEF ControlInv, IdleInv, RestoreInv, StageFlags, StageLabels
<1>5. ModeInv'
  BY <1>1, <1>3 DEF ControlInv, ModeInv, RollbackLabels, Prepared
<1>6. PlanInv'
  <2>1. Ordered(flags')
    BY <1>1, <1>2, <1>3 DEF ControlInv, StageFlags, Ordered, FlagNames
  <2>2. plan # NoPlan /\ plan.flags = flags
    BY <1>3 DEF ControlInv, ModeInv
  <2>3. flags'["traffic"] => flags["migration"]
    BY <1>1, <1>2, <1>3 DEF ControlInv, StageFlags, FlagNames
  <2> QED
    BY <1>1, <1>2, <1>3, <2>1, <2>2, <2>3 DEF ControlInv, PlanInv
<1> QED
  BY <1>4, <1>5, <1>6 DEF ControlInv

\* The traffic boundaries.
LEMMA ControlRoutes ==
    ASSUME TypeOK, ControlInv, WriteUpstream \/ StageReload \/ RollbackReload \/ RouteFails
    PROVE  ControlInv'
<1> USE DEF Step, StageLabels
<1>1. CASE WriteUpstream
  <2>1. /\ pc' = pc /\ bundle' = bundle /\ flags' = flags /\ orig' = orig
        /\ baselines' = baselines /\ failed' = failed /\ passed' = passed /\ plan' = plan
        /\ pc \in RouteLabels
    BY <1>1 DEF WriteUpstream
  <2>2. IdleInv'
    BY <2>1 DEF IdleInv, RouteLabels
  <2>3. ModeInv' /\ StageFlags'
    BY <2>1 DEF ControlInv, ModeInv, StageFlags, Prepared
  <2>4. PlanInv' /\ RestoreInv'
    BY <2>1 DEF ControlInv, PlanInv, Ordered, RestoreInv, NeedsVerification
  <2> QED
    BY <2>2, <2>3, <2>4 DEF ControlInv
<1>2. CASE StageReload
  BY <1>2, StageControl DEF StageReload, Reload
<1>3. CASE RollbackReload
  <2>1. /\ bundle' = bundle /\ flags' = flags /\ orig' = orig /\ baselines' = baselines
        /\ failed' = failed /\ passed' = passed /\ plan' = plan
        /\ pc \in {"rbTraffic", "rbReturn", "rbFinal", "rbFailSafe"}
    BY <1>3 DEF RollbackReload, Reload
  <2>2. /\ pc' \in RollbackLabels \ {"rollback"}
        /\ pc \in RollbackLabels \ {"rollback"}
    BY <1>3, ChainLabels, ChainReaches DEF RollbackReload, Reload, RollbackLabels
  <2>3. Prepared
    BY <2>1 DEF ControlInv, ModeInv, RollbackLabels
  <2>4. RestoreInv'
    BY <1>3, <2>1, ChainReaches DEF RollbackReload, Reload, ControlInv, RestoreInv, RollbackLabels,
       NeedsVerification
  <2> QED
    BY <2>1, <2>2, <2>3, <2>4, RestoreControl
<1>4. CASE RouteFails
  <2>1. CASE pc \in StageRoutes /\ ReloadFails("rollback", failed, TRUE)
    BY <2>1, RollbackControl DEF ReloadFails
  <2>2. CASE \/ pc \in {"rbTraffic", "rbFailSafe"} /\ ReloadFails("record", failed, error)
             \/ /\ pc = "rbReturn"
                /\ ReloadFails(AfterReturn(failed \cup {"route"}), failed \cup {"route"}, error)
             \/ pc = "rbFinal" /\ ReloadFails("rbFailSafe", failed, error)
    <3>1. /\ bundle' = bundle /\ flags' = flags /\ orig' = orig /\ baselines' = baselines
          /\ passed' = passed /\ plan' = plan
          /\ pc \in {"rbTraffic", "rbReturn", "rbFinal", "rbFailSafe"}
      BY <2>2 DEF ReloadFails
    <3>2. /\ pc' \in RollbackLabels \ {"rollback"}
          /\ pc \in RollbackLabels \ {"rollback"}
      BY <2>2, ChainLabels, ChainReaches DEF ReloadFails, RollbackLabels
    <3>3. Prepared
      BY <3>1 DEF ControlInv, ModeInv, RollbackLabels
    <3>4. RestoreInv'
      BY <2>2, <3>1, <3>2, ChainReaches DEF ReloadFails, ControlInv, RestoreInv, RollbackLabels,
         NeedsVerification
    <3> QED
      BY <3>1, <3>2, <3>3, <3>4, RestoreControl
  <2> QED
    BY <1>4, <2>1, <2>2 DEF RouteFails
<1> QED BY <1>1, <1>2, <1>3, <1>4

\* The statements of the rollback.
LEMMA ControlRollback ==
    ASSUME TypeOK, ControlInv, Rollback
    PROVE  ControlInv'
<1> USE DEF Step
<1>1. CASE Record
  BY <1>1, ExitControl DEF Record
<1>2. ASSUME pc \in RollbackLabels, pc' \in RollbackLabels \ {"rollback"},
             UNCHANGED <<bundle, flags, orig, baselines>>,
             plan' = plan \/ (plan' = NoPlan),
             pc # "rollback", pc # "record", RestoreInv'
      PROVE  ControlInv'
  <2>1. Prepared
    BY <1>2 DEF ControlInv, ModeInv
  <2> QED
    BY <1>2, <2>1, RestoreControl
<1>3. CASE RollbackStarts
  <2>1. /\ bundle' = bundle /\ flags' = flags /\ orig' = orig /\ baselines' = baselines
        /\ failed' = failed /\ plan' = plan /\ pc = "rollback"
        /\ \/ ~Prepared /\ pc' = "record" /\ passed' = TRUE
           \/ /\ Prepared /\ UNCHANGED passed
              /\ pc' = IF flags["traffic"] THEN "rbTraffic" ELSE "rbDockerfile"
    BY <1>3 DEF RollbackStarts, disk
  <2>2. pc \in RollbackLabels /\ pc' \in RollbackLabels \ {"rollback"}
    BY <2>1 DEF RollbackLabels
  <2>3. RestoreInv'
    BY <2>1 DEF RestoreInv, RollbackLabels
  <2> QED
    BY <2>1, <2>2, <2>3, RestoreControl
<1>4. CASE RestoreSmoke \/ RestoreDockerfile \/ RestoreUpstream
           \/ RestoreMarker \/ RestoreLineage \/ RestoreStatic
  <2>1. /\ bundle' = bundle /\ flags' = flags /\ orig' = orig /\ baselines' = baselines
        /\ failed' = failed /\ passed' = passed /\ plan' = plan
        /\ pc \in {"rbSmoke"} \cup ConfigurationLabels
        /\ pc' \in ConfigurationLabels
    BY <1>4 DEF RestoreSmoke, RestoreDockerfile, RestoreUpstream, RestoreMarker,
       RestoreLineage, RestoreStatic, disk, memory
  <2>2. RestoreInv'
    BY <2>1 DEF RestoreInv, RollbackLabels
  <2> QED
    BY <1>2, <2>1, <2>2 DEF RollbackLabels
<1>5. CASE RetagReference \/ RestoreWorkers \/ RestoreGunicorn
  <2>1. /\ bundle' = bundle /\ flags' = flags /\ orig' = orig /\ baselines' = baselines
        /\ failed' = failed /\ passed' = passed /\ plan' = plan
        /\ pc \in {"rbRetag"} \cup WorkerLabels \cup GunicornLabels
        /\ \/ pc' \in {"rbStopBeat", "rbStartBeat"} /\ pc \in WorkerLabels
           \/ pc' = "rbStartGunicorn" /\ pc \in GunicornLabels
           \/ pc' = AfterConfiguration(failed) \/ pc' = AfterWorkers(failed)
           \/ pc' = AfterGunicorn(failed)
    BY <1>5 DEF RetagReference, RestoreWorkers, RestoreService, RestoreGunicorn,
       StopGunicorn, StartGunicorn, disk, memory
  <2>2. pc' \in RollbackLabels \ {"rollback"}
    BY <2>1, ChainLabels, ChainReaches DEF RollbackLabels
  <2>3. RestoreInv'
    BY <2>1, <2>2, ChainReaches DEF ControlInv, RestoreInv, NeedsVerification
  <2> QED
    BY <1>2, <2>1, <2>2, <2>3 DEF RollbackLabels
<1>6. CASE VerifyRestored
  <2>1. /\ bundle' = bundle /\ flags' = flags /\ orig' = orig /\ baselines' = baselines
        /\ failed' = failed /\ passed' = passed /\ plan' = plan
        /\ pc = "rbVerify" /\ pc' = Verdict(failed) /\ baselines
    BY <1>6 DEF VerifyRestored, Restored, disk, memory
  <2>2. pc' \in RollbackLabels \ {"rollback"}
    BY <2>1 DEF Verdict, RollbackLabels
  <2>3. RestoreInv'
    BY <2>1, <2>2 DEF ControlInv, RestoreInv, Verdict
  <2> QED
    BY <1>2, <2>1, <2>2, <2>3 DEF RollbackLabels
<1>7. CASE FinalSmoke \/ RollbackRemoves
  <2>1. /\ bundle' = bundle /\ flags' = flags /\ orig' = orig /\ baselines' = baselines
        /\ failed' = failed /\ passed' = passed /\ plan' = plan
        /\ pc \in {"rbFinalSmoke", "rbRemove"} /\ pc' \in {"rbRemove", "rbDisarm"}
    BY <1>7 DEF FinalSmoke, RollbackRemoves, disk, memory
  <2>2. RestoreInv'
    BY <2>1 DEF ControlInv, RestoreInv, RollbackLabels, NeedsVerification
  <2> QED
    BY <1>2, <2>1, <2>2 DEF RollbackLabels
<1>8. CASE RollbackDisarms
  <2>1. /\ bundle' = bundle /\ flags' = flags /\ orig' = orig /\ baselines' = baselines
        /\ plan' = NoPlan /\ pc = "rbDisarm" /\ pc' = "record"
    BY <1>8 DEF RollbackDisarms
  <2>2. RestoreInv'
    BY <2>1 DEF RestoreInv, RollbackLabels
  <2> QED
    BY <1>2, <2>1, <2>2 DEF RollbackLabels
<1> QED
  BY <1>1, <1>3, <1>4, <1>5, <1>6, <1>7, <1>8 DEF Rollback

\* The failures of the stages and of the rollback.
LEMMA ControlFailures ==
    ASSUME TypeOK, ControlInv, Failures
    PROVE  ControlInv'
<1> USE DEF Step
<1>1. CASE StageFails
  BY <1>1, RollbackControl DEF StageFails, disk
<1>2. CASE LineageWriteFails
  BY <1>2, RollbackControl DEF LineageWriteFails, StageLabels
<1>3. CASE PlanStageFails
  BY <1>3, SavePlanFailsControl DEF PlanStageFails, FlagNames
<1>4. CASE RouteFails
  BY <1>4, ControlRoutes
<1>5. CASE DisarmFails
  BY <1>5, EndControl DEF DisarmFails, disk, memory
<1>6. CASE CleanupFails \/ RecordFails
  BY <1>6, ExitControl DEF CleanupFails, RecordFails, disk
<1>10. CASE CaptureFails
  <2>1. /\ bundle' = bundle /\ flags' = flags /\ orig' = orig /\ baselines' = baselines
        /\ plan' = plan /\ failed' = failed /\ pc = "capture" /\ pc' = "record"
    BY <1>10 DEF CaptureFails, disk
  <2>2. /\ bundle.mode \notin {"none", "recovery"} /\ plan = NoPlan /\ ~baselines
        /\ Ordered(flags)
    BY <2>1 DEF ControlInv, ModeInv, PlanInv, RollbackLabels
  <2>3. IdleInv' /\ ModeInv' /\ StageFlags' /\ RestoreInv'
    BY <2>1, <2>2 DEF IdleInv, ModeInv, StageFlags, RestoreInv, StageLabels, RollbackLabels
  <2>4. PlanInv'
    BY <2>1, <2>2 DEF PlanInv, Ordered
  <2> QED
    BY <2>3, <2>4 DEF ControlInv
<1>7. ASSUME pc \in RollbackLabels, pc' \in RollbackLabels \ {"rollback"},
             UNCHANGED <<bundle, flags, orig, baselines, plan>>,
             pc # "rollback", pc # "record", RestoreInv'
      PROVE  ControlInv'
  <2>1. Prepared
    BY <1>7 DEF ControlInv, ModeInv
  <2> QED
    BY <1>7, <2>1, RestoreControl
<1>8. CASE RestoreFails
  <2>1. PICK part \in {"smoke", "configuration", "workers", "gunicorn", "verification"} :
          /\ failed' = failed \cup {part}
          /\ pc \in {"rbSmoke", "rbVerify"} \cup ConfigurationLabels \cup WorkerLabels
                    \cup GunicornLabels
          /\ \/ pc' = "rbDockerfile" \/ pc' = AfterConfiguration(failed')
             \/ pc' = AfterWorkers(failed') \/ pc' = AfterGunicorn(failed')
             \/ pc' = Verdict(failed')
    BY <1>8 DEF RestoreFails, RestorationFails
  <2>2. /\ bundle' = bundle /\ flags' = flags /\ orig' = orig /\ baselines' = baselines
        /\ passed' = passed /\ plan' = plan
    BY <1>8 DEF RestoreFails, RestorationFails, disk
  <2>3. pc' \in RollbackLabels \ {"rollback"} /\ pc \in RollbackLabels
    BY <2>1, ChainLabels, ChainReaches DEF RollbackLabels, Verdict
  <2>4. failed' # {}
    BY <2>1
  <2>5. RestoreInv'
    BY <2>1, <2>2, <2>3, <2>4, ChainReaches DEF RestoreInv, Verdict
  <2> QED
    BY <1>7, <2>1, <2>2, <2>3, <2>5
<1>9. CASE FinalSmokeFails \/ RollbackEndFails
  <2>1. /\ bundle' = bundle /\ flags' = flags /\ orig' = orig /\ baselines' = baselines
        /\ passed' = passed /\ plan' = plan
        /\ \/ pc = "rbFinalSmoke" /\ pc' = "rbFailSafe"
           \/ pc \in {"rbRemove", "rbDisarm"} /\ pc' = "record"
    BY <1>9 DEF FinalSmokeFails, RollbackEndFails, disk, memory
  <2>2. RestoreInv'
    BY <2>1 DEF ControlInv, RestoreInv, RollbackLabels
  <2> QED
    BY <1>7, <2>1, <2>2 DEF RollbackLabels
<1> QED
  BY <1>1, <1>2, <1>3, <1>4, <1>5, <1>6, <1>8, <1>9, <1>10 DEF Failures

\* Every step keeps the control of the invocation.
LEMMA ControlStep ==
    ASSUME TypeOK, ControlInv, [Next]_vars
    PROVE  ControlInv'
<1>1. CASE UNCHANGED vars
  <2>1. /\ bundle' = bundle /\ flags' = flags /\ orig' = orig /\ baselines' = baselines
        /\ passed' = passed /\ plan' = plan /\ pc' = pc /\ failed' = failed /\ prior' = prior
    BY <1>1 DEF vars, disk, memory
  <2>2. IdleInv' /\ ModeInv'
    BY <2>1 DEF ControlInv, IdleInv, ModeInv, Prepared
  <2>3. StageFlags' /\ PlanInv'
    BY <2>1 DEF ControlInv, StageFlags, PlanInv, Ordered
  <2>4. RestoreInv'
    BY <2>1 DEF ControlInv, RestoreInv, NeedsVerification
  <2> QED
    BY <2>2, <2>3, <2>4 DEF ControlInv
<1> QED
  BY <1>1, ControlStart, ControlStages, ControlPlanStages, ControlRoutes, ControlRollback,
     ControlFailures DEF Next, Receiver

-----------------------------------------------------------------------------
(***************************************************************************)
(* Who runs, and whom the journal knows.                                   *)
(***************************************************************************)

\* The process keeps its bundle until it ends; the plan is the one of the process.
IdentityMoves ==
    /\ \/ pc' = "idle"
       \/ pc # "idle" /\ bundle' = bundle
       \/ ReceiveArchive \/ RecoverPlan
    /\ plan' \in {plan, NoPlan} \/ (pc # "idle" /\ pc' # "idle" /\ plan'.attempt = bundle.attempt)

\* The journal is written by its four statements.
JournalMoves ==
    \/ journal' = journal
    \/ pc \in StageLabels /\ \E s \in JournalStates : Advance(s)
    \/ ReceiveArchive
    \/ Publish
    \/ Record

LEMMA IdentityStep ==
    ASSUME TypeOK, [Next]_vars
    PROVE  IdentityMoves /\ JournalMoves
<1> USE DEF Step, IdentityMoves, JournalMoves
<1>1. ASSUME bundle' = bundle, plan' \in {plan, NoPlan}, pc # "idle" \/ pc' = pc, journal' = journal
      PROVE  IdentityMoves /\ JournalMoves
  BY <1>1
<1>2. ASSUME bundle' = bundle, plan' = plan, pc \in StageLabels,
             NEW s \in JournalStates, Advance(s)
      PROVE  IdentityMoves /\ JournalMoves
  BY <1>2 DEF StageLabels
<1>3. CASE ReceiveArchive
  BY <1>3 DEF ReceiveArchive
<1>4. CASE Startup
  BY <1>1, <1>4 DEF Startup, RecoverPlan, DropStalePlan, disk, memory
<1>5. CASE Crash
  BY <1>5 DEF Crash, Exit, disk
<1>6. CASE Stages
  <2>1. CASE Capture
    BY <2>1 DEF Capture, PlanOf
  <2>2. CASE Cleanup
    BY <2>2 DEF Cleanup, Exit, disk
  <2>3. CASE Publish
    BY <2>3 DEF Publish, memory
  <2>4. CASE StartPreviousSlot \/ WriteDockerfile \/ Migrate
             \/ ReplaceWorkers \/ StopBeat \/ FinalHealth \/ WriteLineage \/ Disarm
    BY <1>1, <2>4 DEF StartPreviousSlot, WriteDockerfile, Migrate, ReplaceWorkers, StopBeat,
       FinalHealth, WriteLineage, Disarm, disk, memory
  <2>5. CASE StopGunicorn("stopGunicorn", "startGunicorn")
             \/ StartGunicorn("startGunicorn", "routePromoted")
    BY <1>1, <2>5 DEF StopGunicorn, StartGunicorn, disk, memory
  <2>6. CASE Validate \/ Build \/ Backup \/ CollectStatic
    BY <1>2, <2>6 DEF Validate, Build, Backup, CollectStatic, memory, JournalStates, StageLabels
  <2>7. CASE StartCandidateSlot \/ StartBeat \/ Stabilize \/ WriteMarker
    BY <1>2, <2>7 DEF StartCandidateSlot, StartBeat, Stabilize, WriteMarker, memory,
       JournalStates, StageLabels
  <2> QED
    BY <1>6, <2>1, <2>2, <2>3, <2>4, <2>5, <2>6, <2>7 DEF Stages
<1>7. CASE PlanStages
  BY <1>7 DEF PlanStages, SavePlan, PlanOf
<1>8. CASE WriteUpstream \/ RollbackReload \/ RouteFails
  BY <1>1, <1>8 DEF WriteUpstream, RollbackReload, Reload, RouteFails, ReloadFails, RouteLabels
<1>9. CASE StageReload
  <2>1. bundle' = bundle /\ plan' = plan /\ pc \in StageLabels
    BY <1>9 DEF StageReload, Reload, StageLabels
  <2>2. journal' = journal \/ Advance("traffic_switched") \/ Advance("web_promoted")
    BY <1>9 DEF StageReload
  <2> QED
    BY <1>1, <1>2, <2>1, <2>2 DEF JournalStates, StageLabels
<1>10. CASE Rollback
  <2>1. CASE Record
    BY <2>1 DEF Record, Exit
  <2>2. CASE RollbackStarts \/ RestoreSmoke \/ RestoreDockerfile \/ RestoreUpstream
             \/ RestoreMarker \/ RestoreLineage \/ RestoreStatic \/ RetagReference
    BY <1>1, <2>2 DEF RollbackStarts, RestoreSmoke, RestoreDockerfile, RestoreUpstream,
       RestoreMarker, RestoreLineage, RestoreStatic, RetagReference, disk, memory
  <2>3. CASE RestoreWorkers \/ RestoreGunicorn \/ VerifyRestored \/ FinalSmoke
             \/ RollbackRemoves \/ RollbackDisarms
    BY <1>1, <2>3 DEF RestoreWorkers, RestoreService, RestoreGunicorn, StopGunicorn,
       StartGunicorn, VerifyRestored, FinalSmoke, RollbackRemoves, RollbackDisarms, disk, memory
  <2> QED
    BY <1>10, <2>1, <2>2, <2>3 DEF Rollback
<1>11. CASE Failures
  <2>1. CASE RecordFails \/ CleanupFails
    BY <2>1 DEF RecordFails, CleanupFails, Exit, disk
  <2>2. CASE StageFails \/ CaptureFails
    BY <1>1, <2>2 DEF StageFails, CaptureFails, StageLabels, RollbackLabels, disk
  <2>3. CASE LineageWriteFails \/ PlanStageFails \/ DisarmFails \/ FinalSmokeFails
             \/ RollbackEndFails
    BY <1>1, <2>3 DEF LineageWriteFails, PlanStageFails, SavePlanFails, DisarmFails,
       FinalSmokeFails, RollbackEndFails, disk, memory
  <2>4. CASE RestoreFails
    BY <1>1, <2>4 DEF RestoreFails, RestorationFails, disk
  <2> QED
    BY <1>8, <1>11, <2>1, <2>2, <2>3, <2>4 DEF Failures
<1>12. CASE UNCHANGED vars
  BY <1>1, <1>12 DEF vars, disk, memory
<1> QED
  BY <1>3, <1>4, <1>5, <1>6, <1>7, <1>8, <1>9, <1>10, <1>11, <1>12 DEF Next, Receiver

\* No entry of the journal is forgotten.
ResultsStay == \A a \in Attempts : journal[a].result # "absent" => journal'[a].result # "absent"

LEMMA ResultsStayStep ==
    ASSUME TypeOK, [Next]_vars
    PROVE  ResultsStay
<1>1. JournalMoves
  BY IdentityStep
<1>2. CASE journal' = journal
  BY <1>2 DEF ResultsStay
<1>3. ASSUME NEW s \in JournalStates, Advance(s) PROVE ResultsStay
  BY <1>3, AdvanceEffect DEF ResultsStay
<1>4. CASE ReceiveArchive
  BY <1>4 DEF ReceiveArchive, Entry, ResultsStay, TypeOK
<1>5. CASE Publish
  BY <1>5 DEF Publish, Entry, ResultsStay, TypeOK
<1>6. CASE Record
  <2>1. Outcome.result # "absent"
    BY DEF Outcome, Entry
  <2> QED
    BY <1>6, <2>1 DEF Record, ResultsStay, TypeOK
<1> QED
  BY <1>1, <1>2, <1>3, <1>4, <1>5, <1>6 DEF JournalMoves

\* The attempt that runs, and the one whose plan is kept, have an entry.
KnownInv ==
    /\ pc # "idle" => journal[bundle.attempt].result # "absent"
    /\ plan # NoPlan => journal[plan.attempt].result # "absent"

LEMMA KnownStep ==
    ASSUME TypeOK, KnownInv, [Next]_vars
    PROVE  KnownInv'
<1>1. ResultsStay /\ IdentityMoves
  BY ResultsStayStep, IdentityStep
<1>2. TypeOK'
  BY TypeCorrectStep
<1>3. bundle.attempt \in Attempts /\ (plan # NoPlan => plan.attempt \in Attempts)
  BY DEF TypeOK, Bundles, Plans
<1>4. CASE ReceiveArchive
  <2>1. plan = NoPlan /\ plan' = NoPlan
    BY <1>4 DEF ReceiveArchive
  <2>2. journal'[bundle'.attempt].result = "running"
    BY <1>4 DEF ReceiveArchive, TypeOK, Bundles, Entry
  <2> QED
    BY <2>1, <2>2 DEF KnownInv
<1>5. CASE RecoverPlan
  BY <1>3, <1>5 DEF RecoverPlan, Bundle, disk, KnownInv
<1>6. CASE ~ReceiveArchive /\ ~RecoverPlan
  <2>1. pc' # "idle" => journal'[bundle'.attempt].result # "absent"
    BY <1>1, <1>3, <1>6 DEF IdentityMoves, ResultsStay, KnownInv
  <2>2. plan' # NoPlan => journal'[plan'.attempt].result # "absent"
    BY <1>1, <1>3 DEF IdentityMoves, ResultsStay, KnownInv
  <2> QED
    BY <2>1, <2>2 DEF KnownInv
<1> QED
  BY <1>4, <1>5, <1>6

-----------------------------------------------------------------------------
(***************************************************************************)
(* Migrations come first: whatever image a service or a slot is given, the *)
(* database already has its schema.                                        *)
(***************************************************************************)

BuiltSet == MigrationSet \cup {"backup", "planMigration"}

SchemaInv ==
    /\ SchemaSupportsRunning
    /\ orig.image <= schema
    /\ plan # NoPlan => plan.orig.image <= schema
    /\ pc = "build" => dockerfile = bundle.version
    /\ pc \in BuiltSet => reference = bundle.version
    /\ pc \in MigrationSet \ {"migrate"} => bundle.version <= schema
    /\ flags["workers"] => reference <= schema
    /\ plan # NoPlan /\ plan.flags["workers"] => reference <= schema

\* A container is stopped, or given an image the database supports.
LEMMA SetSupported ==
    ASSUME TypeOK, SchemaSupportsRunning, NEW c \in Containers, NEW v,
           v = Down \/ v <= schema, SetImages(c, v), schema' = schema
    PROVE  SchemaSupportsRunning'
BY DEF TypeOK, SetImages, SchemaSupportsRunning

\* Slots are removed.
LEMMA RemoveSupported ==
    ASSUME TypeOK, SchemaSupportsRunning, NEW S, RemoveSlots(S), schema' = schema
    PROVE  SchemaSupportsRunning'
BY DEF TypeOK, RemoveSlots, SchemaSupportsRunning

\* A step that moves neither the schema, the reference nor the captures.
LEMMA SchemaKeeps ==
    ASSUME SchemaInv, SchemaSupportsRunning', schema' = schema,
           reference' = reference, bundle' = bundle, orig' = orig, flags' = flags,
           plan' \in {plan, NoPlan},
           pc' = "build" => dockerfile' = bundle.version,
           pc' \in BuiltSet => pc \in BuiltSet,
           pc' \in MigrationSet \ {"migrate"} => pc \in MigrationSet \ {"migrate"}
    PROVE  SchemaInv'
BY DEF SchemaInv

\* The end of an invocation.
LEMMA SchemaExit ==
    ASSUME TypeOK, SchemaInv, SchemaSupportsRunning', schema' = schema,
           reference' = reference, Exit, plan' = plan
    PROVE  SchemaInv'
<1> schema \in Nat
  BY BoundsAssumption DEF TypeOK, Versions
<1> QED
  BY DEF SchemaInv, Exit, BuiltSet, NoOriginals, NoFlags, FlagNames

\* The stages.
LEMMA SchemaStages ==
    ASSUME TypeOK, ControlInv, SchemaInv, Stages
    PROVE  SchemaInv'
<1> USE DEF Step, BuiltSet
<1> /\ Prev \in Containers /\ Cand \in Containers /\ Workers \in Containers
    /\ Beat \in Containers /\ Gunicorn \in Containers
  BY ContainerTypes DEF TypeOK
<1> schema \in Nat /\ bundle.version \in Nat /\ reference \in Nat
  BY BoundsAssumption DEF TypeOK, Versions, Bundles
<1> SchemaSupportsRunning
  BY DEF SchemaInv
<1>1. ASSUME UNCHANGED <<reference, image, schema>>, bundle' = bundle, orig' = orig,
             flags' = flags, plan' \in {plan, NoPlan},
             pc' = "build" => dockerfile' = bundle.version,
             pc' \in BuiltSet => pc \in BuiltSet,
             pc' \in MigrationSet \ {"migrate"} => pc \in MigrationSet \ {"migrate"}
      PROVE  SchemaInv'
  <2>1. SchemaSupportsRunning'
    BY <1>1 DEF SchemaSupportsRunning
  <2> QED
    BY <1>1, <2>1, SchemaKeeps
<1>2. CASE Validate \/ WriteDockerfile \/ Backup
  BY <1>1, <1>2 DEF Validate, WriteDockerfile, Backup, docker, memory
<1>3. CASE Capture
  <2>1. image[Gunicorn] <= schema
    BY <1>3 DEF Capture, UniformServices, Services, SchemaSupportsRunning
  <2>2. /\ orig'.image <= schema /\ plan'.orig = orig' /\ plan'.flags = flags /\ flags' = flags
        /\ pc' = "planPrevious" /\ schema' = schema /\ image' = image /\ reference' = reference
    BY <1>3, <2>1 DEF Capture, PlanOf, docker
  <2>3. SchemaSupportsRunning'
    BY <2>2 DEF SchemaSupportsRunning
  <2> QED
    BY <2>2, <2>3 DEF SchemaInv
<1>4. CASE StartPreviousSlot
  <2>1. SchemaSupportsRunning'
    BY <1>4, SetSupported DEF StartPreviousSlot, SchemaInv
  <2> QED
    BY <1>4, <2>1, SchemaKeeps DEF StartPreviousSlot, disk, memory
<1>5. CASE Build
  <2>1. /\ pc = "build" /\ pc' \in {"backup", "rollback"} /\ reference' = bundle.version
        /\ bundle' = bundle /\ flags' = flags /\ orig' = orig /\ plan' = plan
        /\ image' = image /\ schema' = schema
    BY <1>5 DEF Build, memory, SchemaInv
  <2>2. ~flags["workers"] /\ plan.flags = flags
    BY <2>1 DEF ControlInv, StageFlags, ModeInv, StageLabels
  <2>3. SchemaSupportsRunning'
    BY <2>1 DEF SchemaSupportsRunning
  <2> QED
    BY <2>1, <2>2, <2>3 DEF SchemaInv
<1>6. CASE Migrate
  <2>1. /\ pc = "migrate" /\ pc' = "planTraffic" /\ reference' = reference /\ image' = image
        /\ bundle' = bundle /\ flags' = flags /\ orig' = orig /\ plan' = plan
        /\ schema' = IF bundle.version > schema THEN bundle.version ELSE schema
    BY <1>6 DEF Migrate, disk, memory
  <2>2. schema <= schema' /\ bundle.version <= schema'
    BY <2>1
  <2>3. SchemaSupportsRunning'
    <3> SUFFICES ASSUME NEW c \in Containers, image[c] # Down PROVE image[c] <= schema'
      BY <2>1 DEF SchemaSupportsRunning
    <3>1. image[c] \in Nat /\ schema' \in Nat
      BY <2>1, BoundsAssumption DEF TypeOK, Versions
    <3> QED
      BY <2>2, <3>1 DEF SchemaSupportsRunning
  <2>4. orig.image \in Nat /\ schema' \in Nat /\ (plan # NoPlan => plan.orig.image \in Nat)
    BY <2>1, BoundsAssumption DEF TypeOK, Originals, Plans, Versions
  <2> QED
    BY <2>1, <2>2, <2>3, <2>4 DEF SchemaInv
<1>7. CASE CollectStatic
  BY <1>1, <1>7 DEF CollectStatic, memory
<1>8. CASE StartCandidateSlot
  <2>1. SchemaSupportsRunning'
    BY <1>8, SetSupported DEF StartCandidateSlot, SchemaInv
  <2> QED
    BY <1>8, <2>1, SchemaKeeps DEF StartCandidateSlot, memory
<1>9. CASE ReplaceWorkers
  <2>1. SchemaSupportsRunning'
    BY <1>9, SetSupported DEF ReplaceWorkers, SchemaInv
  <2> QED
    BY <1>9, <2>1, SchemaKeeps DEF ReplaceWorkers, disk, memory
<1>10. CASE StopBeat
  <2>1. SchemaSupportsRunning'
    BY <1>10, SetSupported DEF StopBeat
  <2> QED
    BY <1>10, <2>1, SchemaKeeps DEF StopBeat, disk, memory
<1>11. CASE StartBeat
  <2>1. SchemaSupportsRunning'
    BY <1>11, SetSupported DEF StartBeat, SchemaInv
  <2> QED
    BY <1>11, <2>1, SchemaKeeps DEF StartBeat, memory
<1>12. CASE Stabilize \/ FinalHealth
  BY <1>1, <1>12 DEF Stabilize, FinalHealth, disk, docker, memory
<1>13. CASE StopGunicorn("stopGunicorn", "startGunicorn")
  <2>1. SchemaSupportsRunning'
    BY <1>13, SetSupported DEF StopGunicorn
  <2> QED
    BY <1>13, <2>1, SchemaKeeps DEF StopGunicorn, disk, memory
<1>14. CASE StartGunicorn("startGunicorn", "routePromoted")
  <2>1. SchemaSupportsRunning'
    BY <1>14, SetSupported DEF StartGunicorn, SchemaInv
  <2> QED
    BY <1>14, <2>1, SchemaKeeps DEF StartGunicorn, disk, memory
<1>15. CASE WriteMarker \/ Publish \/ WriteLineage \/ Disarm
  BY <1>1, <1>15 DEF WriteMarker, Publish, WriteLineage, Disarm, docker, memory
<1>16. CASE Cleanup
  <2>1. SchemaSupportsRunning'
    BY <1>16, RemoveSupported DEF Cleanup
  <2> QED
    BY <1>16, <2>1, SchemaExit DEF Cleanup, disk
<1> QED
  BY <1>2, <1>3, <1>4, <1>5, <1>6, <1>7, <1>8, <1>9, <1>10, <1>11, <1>12, <1>13, <1>14,
     <1>15, <1>16 DEF Stages

\* The rollback: a service is recreated with the reference only once the workers had
\* been replaced, and then the database supports both releases.
LEMMA SchemaRollback ==
    ASSUME TypeOK, ControlInv, SchemaInv, Rollback
    PROVE  SchemaInv'
<1> USE DEF Step, BuiltSet
<1> /\ Workers \in Containers /\ Beat \in Containers /\ Gunicorn \in Containers
  BY ContainerTypes DEF TypeOK
<1> schema \in Nat /\ reference \in Nat
  BY BoundsAssumption DEF TypeOK, Versions
<1> SchemaSupportsRunning
  BY DEF SchemaInv
<1>1. ASSUME UNCHANGED <<reference, schema>>, SchemaSupportsRunning', bundle' = bundle,
             orig' = orig, flags' = flags, plan' \in {plan, NoPlan}, pc' \in RollbackLabels
      PROVE  SchemaInv'
  BY <1>1, SchemaKeeps DEF RollbackLabels
<1>2. ASSUME image' = image, schema' = schema PROVE SchemaSupportsRunning'
  BY <1>2 DEF SchemaSupportsRunning
<1>3. CASE RollbackStarts \/ RestoreSmoke \/ RestoreDockerfile \/ RestoreUpstream
           \/ RestoreMarker \/ RestoreLineage \/ RestoreStatic
  BY <1>1, <1>2, <1>3 DEF RollbackStarts, RestoreSmoke, RestoreDockerfile, RestoreUpstream,
     RestoreMarker, RestoreLineage, RestoreStatic, disk, docker, memory, RollbackLabels
<1>4. CASE RetagReference
  <2>1. /\ reference' = orig.image /\ image' = image /\ schema' = schema /\ orig' = orig
        /\ flags' = flags /\ plan' = plan /\ bundle' = bundle /\ pc' \in RollbackLabels
    BY <1>4, ChainLabels DEF RetagReference, disk, memory
  <2>2. pc' \notin {"build"} \cup BuiltSet
    BY <2>1 DEF RollbackLabels
  <2> QED
    BY <1>2, <2>1, <2>2 DEF SchemaInv
<1>5. CASE RestoreWorkers
  <2>1. flags["workers"]
    BY <1>5 DEF RestoreWorkers, RestoreService, ControlInv, RestoreInv
  <2>2. SchemaSupportsRunning'
    BY <1>5, <2>1, SetSupported DEF RestoreWorkers, RestoreService, SchemaInv
  <2>3. pc' \in RollbackLabels
    BY <1>5, ChainLabels DEF RestoreWorkers, RestoreService, RollbackLabels
  <2> QED
    BY <1>1, <1>5, <2>2, <2>3 DEF RestoreWorkers, RestoreService, disk, memory
<1>6. CASE RestoreGunicorn
  <2>1. flags["workers"]
    BY <1>6 DEF RestoreGunicorn, StopGunicorn, StartGunicorn, ControlInv, RestoreInv, PlanInv,
       Ordered
  <2>2. SchemaSupportsRunning'
    BY <1>6, <2>1, SetSupported DEF RestoreGunicorn, StopGunicorn, StartGunicorn, SchemaInv
  <2>3. pc' \in RollbackLabels
    BY <1>6, ChainLabels DEF RestoreGunicorn, StopGunicorn, StartGunicorn, RollbackLabels
  <2> QED
    BY <1>1, <1>6, <2>2, <2>3 DEF RestoreGunicorn, StopGunicorn, StartGunicorn, disk, memory
<1>7. CASE VerifyRestored \/ FinalSmoke \/ RollbackDisarms
  BY <1>1, <1>2, <1>7, ChainLabels DEF VerifyRestored, FinalSmoke, RollbackDisarms, disk,
     docker, memory, RollbackLabels
<1>8. CASE RollbackRemoves
  <2>1. SchemaSupportsRunning'
    BY <1>8, RemoveSupported DEF RollbackRemoves
  <2> QED
    BY <1>1, <1>8, <2>1 DEF RollbackRemoves, disk, memory, RollbackLabels
<1>9. CASE Record
  BY <1>2, <1>9, SchemaExit DEF Record, docker
<1> QED
  BY <1>3, <1>4, <1>5, <1>6, <1>7, <1>8, <1>9 DEF Rollback

\* Every step.
LEMMA SchemaStep ==
    ASSUME TypeOK, ControlInv, SchemaInv, [Next]_vars
    PROVE  SchemaInv'
<1> USE DEF Step, BuiltSet
<1> schema \in Nat
  BY BoundsAssumption DEF TypeOK, Versions
<1> SchemaSupportsRunning
  BY DEF SchemaInv
<1>1. ASSUME image' = image, schema' = schema PROVE SchemaSupportsRunning'
  BY <1>1 DEF SchemaSupportsRunning
<1>2. ASSUME UNCHANGED <<reference, image, schema>>, bundle' = bundle, orig' = orig,
             flags' = flags, plan' \in {plan, NoPlan},
             pc' = "build" => dockerfile' = bundle.version,
             pc' \in BuiltSet => pc \in BuiltSet,
             pc' \in MigrationSet \ {"migrate"} => pc \in MigrationSet \ {"migrate"}
      PROVE  SchemaInv'
  BY <1>1, <1>2, SchemaKeeps
<1>3. CASE ReceiveArchive
  <2>1. /\ pc' = "validate" /\ plan' = NoPlan /\ reference' = reference /\ image' = image
        /\ schema' = schema /\ orig' = orig /\ flags' = flags
    BY <1>3 DEF ReceiveArchive, docker
  <2> QED
    BY <1>1, <2>1 DEF SchemaInv
<1>4. CASE RecoverPlan
  <2>1. /\ pc' = "rollback" /\ plan # NoPlan /\ plan' = plan /\ reference' = reference
        /\ image' = image /\ schema' = schema /\ orig' = plan.orig /\ flags' = plan.flags
    BY <1>4 DEF RecoverPlan, docker, disk
  <2> QED
    BY <1>1, <2>1 DEF SchemaInv
<1>5. CASE DropStalePlan
  BY <1>2, <1>5 DEF DropStalePlan, docker, memory
<1>6. CASE Crash
  BY <1>1, <1>6, SchemaExit DEF Crash, disk, docker
<1>7. CASE PlanStages
  <2>1. ASSUME NEW from \in StageLabels, NEW flag \in FlagNames, NEW to \in StageLabels,
               SavePlan(from, flag, to), flag = "workers" => from = "planWorkers",
               to # "build",
               to \in BuiltSet => from \in BuiltSet,
               to \in MigrationSet \ {"migrate"} => from \in MigrationSet \ {"migrate"}
        PROVE  SchemaInv'
    <3>1. /\ pc = from /\ pc' = to /\ image' = image /\ schema' = schema /\ orig' = orig
          /\ reference' = reference /\ bundle' = bundle /\ plan'.orig = orig
          /\ plan'.flags = flags' /\ flags' = [flags EXCEPT ![flag] = TRUE]
      BY <2>1 DEF SavePlan, docker, PlanOf
    <3>2. flags'["workers"] => flags["workers"] \/ pc = "planWorkers"
      BY <2>1, <3>1 DEF TypeOK, Flags, FlagNames
    <3>3. flags'["workers"] => reference <= schema
      BY <3>2 DEF SchemaInv
    <3> QED
      BY <1>1, <2>1, <3>1, <3>3 DEF SchemaInv
  <2>2. CASE SavePlan("planPrevious", "previous", "startPrevious")
             \/ SavePlan("planMigration", "migration", "migrate")
             \/ SavePlan("planTraffic", "traffic", "routePrevious")
    BY <2>1, <2>2 DEF StageLabels, FlagNames
  <2>3. CASE SavePlan("planStatic", "static", "collectStatic")
             \/ SavePlan("planCandidate", "candidate", "startCandidate")
             \/ SavePlan("planWorkers", "workers", "replaceWorkers")
    BY <2>1, <2>3 DEF StageLabels, FlagNames
  <2>4. CASE SavePlan("planGunicorn", "gunicorn", "stopGunicorn")
             \/ SavePlan("planCurrent", "current", "writeMarker")
    BY <2>1, <2>4 DEF StageLabels, FlagNames
  <2> QED
    BY <1>7, <2>2, <2>3, <2>4 DEF PlanStages
<1>8. CASE WriteUpstream \/ RollbackReload \/ RouteFails
  <2>1. /\ UNCHANGED <<reference, image, schema>> /\ bundle' = bundle /\ orig' = orig
        /\ flags' = flags /\ plan' = plan
        /\ pc' = pc \/ pc' \in RollbackLabels
    BY <1>8, ChainLabels DEF WriteUpstream, RollbackReload, Reload, RouteFails, ReloadFails,
       docker, RollbackLabels
  <2>2. pc # "build"
    BY <1>8 DEF WriteUpstream, RouteLabels, RollbackReload, Reload, RouteFails, ReloadFails
  <2> QED
    BY <1>2, <2>1, <2>2 DEF RollbackLabels
<1>9. CASE StageReload
  BY <1>2, <1>9 DEF StageReload, Reload, docker
<1>10. CASE Failures
  <2>1. CASE StageFails \/ CaptureFails \/ LineageWriteFails \/ DisarmFails \/ FinalSmokeFails
             \/ RollbackEndFails
    BY <1>2, <2>1 DEF StageFails, CaptureFails, LineageWriteFails, DisarmFails, FinalSmokeFails,
       RollbackEndFails, disk, docker, memory
  <2>2. CASE PlanStageFails
    <3>1. ASSUME NEW from, NEW flag \in FlagNames, SavePlanFails(from, flag),
                 flag = "workers" => from = "planWorkers"
          PROVE  SchemaInv'
      <4>1. /\ pc = from /\ pc' = "rollback" /\ image' = image /\ schema' = schema
            /\ orig' = orig /\ reference' = reference /\ plan' = plan
            /\ flags' = [flags EXCEPT ![flag] = TRUE]
        BY <3>1 DEF SavePlanFails, disk, docker
      <4>2. flags'["workers"] => flags["workers"] \/ pc = "planWorkers"
        BY <3>1, <4>1 DEF TypeOK, Flags, FlagNames
      <4>3. flags'["workers"] => reference <= schema
        BY <4>2 DEF SchemaInv
      <4> QED
        BY <1>1, <4>1, <4>3 DEF SchemaInv
    <3> QED
      BY <2>2, <3>1 DEF PlanStageFails, FlagNames
  <2>3. CASE CleanupFails
    <3>1. PICK S : RemoveSlots(S)
      BY <2>3 DEF CleanupFails
    <3>2. schema' = schema /\ reference' = reference /\ plan' = plan /\ Exit
      BY <2>3 DEF CleanupFails, disk
    <3>3. SchemaSupportsRunning'
      BY <3>1, <3>2, RemoveSupported
    <3> QED
      BY <3>2, <3>3, SchemaExit
  <2>4. CASE RestoreFails
    <3>1. /\ UNCHANGED <<reference, image, schema>> /\ bundle' = bundle /\ orig' = orig
          /\ flags' = flags /\ plan' = plan /\ pc' \in RollbackLabels
      BY <2>4, ChainLabels DEF RestoreFails, RestorationFails, disk, docker, RollbackLabels
    <3> QED
      BY <1>2, <3>1 DEF RollbackLabels
  <2>5. CASE RecordFails
    BY <1>1, <2>5, SchemaExit DEF RecordFails, disk, docker
  <2> QED
    BY <1>8, <1>10, <2>1, <2>2, <2>3, <2>4, <2>5 DEF Failures
<1>11. CASE UNCHANGED vars
  BY <1>2, <1>11 DEF vars, disk, docker, memory, SchemaInv
<1> QED
  BY <1>3, <1>4, <1>5, <1>6, <1>7, <1>8, <1>9, <1>10, <1>11, SchemaStages, SchemaRollback
     DEF Next, Receiver, Startup

-----------------------------------------------------------------------------
(***************************************************************************)
(* The upstream file.  A switch in progress has written the target of its  *)
(* statement and holds the bytes it replaced; the originals hold the route *)
(* every attempt starts from.                                              *)
(***************************************************************************)

CaptureMoves ==
    /\ orig' \in {orig, NoOriginals} \/ Capture \/ (plan # NoPlan /\ orig' = plan.orig)
    /\ plan' \in {plan, NoPlan} \/ plan'.orig = orig'

FileMoves ==
    \/ upstream' = upstream /\ prior' = prior /\ (pc \notin RouteLabels \/ UNCHANGED vars)
    \/ upstream' = upstream /\ prior' = NoRoute
    \/ WriteUpstream
    \/ RestoreUpstream
    \/ upstream' = prior /\ prior # NoRoute /\ prior' = NoRoute

LEMMA FileStep ==
    ASSUME TypeOK, [Next]_vars
    PROVE  CaptureMoves /\ FileMoves
<1> USE DEF Step, CaptureMoves, FileMoves
<1>1. ASSUME upstream' = upstream, prior' = prior, pc \notin RouteLabels, orig' = orig,
             plan' \in {plan, NoPlan} \/ plan'.orig = orig'
      PROVE  CaptureMoves /\ FileMoves
  BY <1>1
<1>2. ASSUME Exit, upstream' = upstream, plan' = plan
      PROVE  CaptureMoves /\ FileMoves
  BY <1>2 DEF Exit
<1> USE DEF RouteLabels
<1>3. CASE ReceiveArchive
  BY <1>1, <1>3 DEF ReceiveArchive
<1>4. CASE Startup
  BY <1>4 DEF Startup, RecoverPlan, DropStalePlan, disk, memory
<1>5. CASE Crash
  BY <1>2, <1>5 DEF Crash, disk
<1>6. CASE Stages
  <2>1. CASE Capture
    BY <2>1 DEF Capture, PlanOf
  <2>2. CASE Cleanup
    BY <1>2, <2>2 DEF Cleanup, disk
  <2>3. CASE Validate \/ StartPreviousSlot \/ WriteDockerfile \/ Build \/ Backup \/ Migrate
             \/ CollectStatic \/ StartCandidateSlot
    BY <1>1, <2>3 DEF Validate, StartPreviousSlot, WriteDockerfile, Build, Backup, Migrate,
       CollectStatic, StartCandidateSlot, disk, memory
  <2>4. CASE ReplaceWorkers \/ StopBeat \/ StartBeat \/ Stabilize
             \/ StopGunicorn("stopGunicorn", "startGunicorn")
             \/ StartGunicorn("startGunicorn", "routePromoted")
    BY <1>1, <2>4 DEF ReplaceWorkers, StopBeat, StartBeat, Stabilize, StopGunicorn,
       StartGunicorn, disk, memory
  <2>5. CASE FinalHealth \/ WriteMarker \/ Publish \/ WriteLineage \/ Disarm
    BY <1>1, <2>5 DEF FinalHealth, WriteMarker, Publish, WriteLineage, Disarm, disk, memory
  <2> QED
    BY <1>6, <2>1, <2>2, <2>3, <2>4, <2>5 DEF Stages
<1>7. CASE PlanStages
  BY <1>1, <1>7 DEF PlanStages, SavePlan, PlanOf
<1>8. CASE WriteUpstream
  BY <1>8 DEF WriteUpstream
<1>9. CASE StageReload \/ RollbackReload
  BY <1>9 DEF StageReload, RollbackReload, Reload
<1>10. CASE RouteFails
  BY <1>10 DEF RouteFails, ReloadFails
<1>11. CASE Rollback
  <2>1. CASE Record
    BY <1>2, <2>1 DEF Record
  <2>2. CASE RestoreUpstream
    BY <2>2 DEF RestoreUpstream, memory
  <2>3. CASE RollbackStarts \/ RestoreSmoke \/ RestoreDockerfile \/ RestoreMarker
             \/ RestoreLineage \/ RestoreStatic \/ RetagReference
    BY <1>1, <2>3 DEF RollbackStarts, RestoreSmoke, RestoreDockerfile, RestoreMarker,
       RestoreLineage, RestoreStatic, RetagReference, disk, memory
  <2>4. CASE RestoreWorkers \/ RestoreGunicorn \/ VerifyRestored \/ FinalSmoke
             \/ RollbackRemoves \/ RollbackDisarms
    BY <1>1, <2>4 DEF RestoreWorkers, RestoreService, RestoreGunicorn, StopGunicorn,
       StartGunicorn, VerifyRestored, FinalSmoke, RollbackRemoves, RollbackDisarms, disk, memory
  <2> QED
    BY <1>11, <2>1, <2>2, <2>3, <2>4 DEF Rollback
<1>12. CASE Failures
  <2>1. CASE RecordFails \/ CleanupFails
    BY <1>2, <2>1 DEF RecordFails, CleanupFails, disk
  <2>2. CASE StageFails \/ CaptureFails
    BY <1>1, <2>2 DEF StageFails, CaptureFails, StageLabels, RollbackLabels, disk
  <2>3. CASE LineageWriteFails \/ PlanStageFails \/ DisarmFails \/ FinalSmokeFails
             \/ RollbackEndFails
    BY <1>1, <2>3 DEF LineageWriteFails, PlanStageFails, SavePlanFails, DisarmFails,
       FinalSmokeFails, RollbackEndFails, disk, memory
  <2>4. CASE RestoreFails
    BY <1>1, <2>4 DEF RestoreFails, RestorationFails, disk
  <2> QED
    BY <1>10, <1>12, <2>1, <2>2, <2>3, <2>4 DEF Failures
<1>13. CASE UNCHANGED vars
  BY <1>13 DEF vars, disk, memory
<1> QED
  BY <1>3, <1>4, <1>5, <1>6, <1>7, <1>8, <1>9, <1>10, <1>11, <1>12, <1>13 DEF Next, Receiver

FileInv ==
    /\ orig.upstream = GunicornOnly
    /\ plan # NoPlan => plan.orig.upstream = GunicornOnly
    /\ pc = "capture" => upstream = GunicornOnly
    /\ Servers(upstream) # {}
    /\ prior # NoRoute =>
           pc \in RouteLabels /\ upstream = TargetRoute /\ Servers(prior) # {}

\* Every route a boundary renders names a server.
LEMMA TargetRouteServes == Servers(TargetRoute) # {} /\ Servers(GunicornOnly) # {}
BY DEF TargetRoute, Servers, Route, GunicornOnly

LEMMA FileInvStep ==
    ASSUME TypeOK, ControlInv, FileInv, [Next]_vars
    PROVE  FileInv'
<1>1. CaptureMoves /\ FileMoves
  BY FileStep
<1>2. orig'.upstream = GunicornOnly
  BY <1>1 DEF CaptureMoves, Capture, Step, NoOriginals, FileInv
<1>3. plan' # NoPlan => plan'.orig.upstream = GunicornOnly
  BY <1>1, <1>2 DEF CaptureMoves, FileInv
<1>4. Servers(upstream') # {}
  BY <1>1, TargetRouteServes DEF FileMoves, FileInv, WriteUpstream, RestoreUpstream
<1>5. prior' # NoRoute =>
        pc' \in RouteLabels /\ upstream' = TargetRoute' /\ Servers(prior') # {}
  <2>1. CASE WriteUpstream
    <3>1. pc' = pc /\ bundle' = bundle /\ upstream' = TargetRoute /\ prior' = upstream
          /\ pc \in RouteLabels
      BY <2>1 DEF WriteUpstream
    <3>2. TargetRoute' = TargetRoute
      BY <3>1 DEF TargetRoute, Prev, Cand
    <3> QED
      BY <3>1, <3>2 DEF FileInv
  <2>2. CASE UNCHANGED vars
    BY <2>2 DEF vars, disk, memory, FileInv, TargetRoute, Prev, Cand
  <2>3. CASE prior' = NoRoute
    BY <2>3
  <2>4. CASE prior' = prior /\ pc \notin RouteLabels
    BY <2>4 DEF FileInv
  <2> QED
    BY <1>1, <2>1, <2>2, <2>3, <2>4 DEF FileMoves, RestoreUpstream, Step, memory, RouteLabels
<1>6. pc' = "capture" => upstream' = GunicornOnly
  <2>1. CASE Validate
    BY <2>1 DEF Validate, ValidTransition
  <2>2. CASE UNCHANGED vars
    BY <2>2 DEF vars, disk, FileInv
  <2>3. ASSUME pc' = "capture", ~Validate, ~UNCHANGED vars PROVE FALSE
    <3>1. ~Stages
      BY <2>3 DEF Stages, Step, Capture, StartPreviousSlot, WriteDockerfile, Build, Backup,
        Migrate, CollectStatic, StartCandidateSlot, ReplaceWorkers, StopBeat, StartBeat,
        Stabilize, StopGunicorn, StartGunicorn, FinalHealth, WriteMarker, Publish,
        WriteLineage, Disarm, Cleanup, Exit
    <3>2. ~(ReceiveArchive \/ Startup \/ Crash \/ PlanStages)
      BY <2>3 DEF ReceiveArchive, Startup, RecoverPlan, DropStalePlan, Crash, Exit,
        PlanStages, SavePlan, Step
    <3>3. ~(WriteUpstream \/ StageReload \/ RollbackReload \/ RouteFails)
      BY <2>3, ChainLabels DEF WriteUpstream, StageReload, RollbackReload, Reload, RouteFails,
        ReloadFails, Step, RollbackLabels, RouteLabels
    <3>4. ~Rollback
      BY <2>3, ChainLabels DEF Rollback, RollbackStarts, RestoreSmoke, RestoreDockerfile,
        RestoreUpstream, RestoreMarker, RestoreLineage, RestoreStatic, RetagReference,
        RestoreWorkers, RestoreService, RestoreGunicorn, StopGunicorn, StartGunicorn,
        VerifyRestored, FinalSmoke, RollbackRemoves, RollbackDisarms, Record, Exit, Step,
        RollbackLabels
    <3>5. ~Failures
      BY <2>3, <3>3, ChainLabels DEF Failures, StageFails, CaptureFails, LineageWriteFails, PlanStageFails,
        SavePlanFails, DisarmFails, CleanupFails, RestoreFails, RestorationFails,
        FinalSmokeFails, RollbackEndFails, RecordFails, Exit, Step, RollbackLabels
    <3> QED
      BY <2>3, <3>1, <3>2, <3>3, <3>4, <3>5 DEF Next, Receiver
  <2> QED
    BY <2>1, <2>2, <2>3
<1> QED
  BY <1>2, <1>3, <1>4, <1>5, <1>6 DEF FileInv

-----------------------------------------------------------------------------
(***************************************************************************)
(* The loaded route.                                                       *)
(***************************************************************************)

\* Flags are only added while a process runs, and a plan that is written has them all.
FlagMoves ==
    /\ \/ pc = "idle" \/ pc' = "idle"
       \/ \A f \in FlagNames : flags[f] => flags'[f]
    /\ plan' \in {plan, NoPlan} \/ plan'.flags = flags'

\* A route is loaded at a traffic boundary, Gunicorn leaves it when it is stopped, the
\* slots when they are removed; everything else leaves the route and its slots running.
NoSlotStops == \A t \in Slots : image'[t] = Down => image[t] = Down

RouteMoves ==
    \/ UNCHANGED nginx /\ NoSlotStops
    \/ /\ image' = image /\ pc \in RouteLabels /\ prior # NoRoute
       /\ \E r \in {upstream, prior} : Loadable(r) /\ Load(r)
    \/ /\ pc \in {"stopGunicorn", "rbStopGunicorn"}
       /\ loaded' = loaded /\ serving' = serving \ {Gunicorn} /\ NoSlotStops
    \/ /\ pc \in {"cleanup", "rbRemove"}
       /\ loaded' = loaded /\ \E S \in SUBSET {Prev, Cand} : RemoveSlots(S)

\* Replacing a service or starting a slot stops no slot.
LEMMA SetStopsNoSlot ==
    ASSUME TypeOK, NEW c \in Containers, NEW v, SetImages(c, v), c \in Services \/ v # Down
    PROVE  NoSlotStops
BY DEF TypeOK, SetImages, NoSlotStops, Services, Slots, Containers, PrevSlot, CandSlot,
   Gunicorn, Workers, Beat

LEMMA RouteStep ==
    ASSUME TypeOK, [Next]_vars
    PROVE  FlagMoves /\ RouteMoves
<1> USE DEF Step
<1> /\ Prev \in Containers /\ Cand \in Containers /\ Workers \in Containers
    /\ Beat \in Containers /\ Gunicorn \in Containers /\ reference # Down
    /\ Workers \in Services /\ Beat \in Services /\ Gunicorn \in Services
  BY ContainerTypes, AbsenceAssumption DEF TypeOK, Services
<1>1. ASSUME UNCHANGED nginx, NoSlotStops \/ image' = image,
             plan' \in {plan, NoPlan}, flags' = flags
      PROVE  FlagMoves /\ RouteMoves
  BY <1>1 DEF FlagMoves, RouteMoves, NoSlotStops
<1>2. ASSUME plan' = plan, flags' = flags \/ pc' = "idle"
      PROVE  FlagMoves
  BY <1>2 DEF FlagMoves
<1>3. CASE ReceiveArchive
  BY <1>1, <1>3 DEF ReceiveArchive, nginx, docker
<1>4. CASE Startup
  BY <1>4 DEF Startup, RecoverPlan, DropStalePlan, disk, docker, nginx, memory, FlagMoves,
     RouteMoves, NoSlotStops
<1>5. CASE Crash
  BY <1>2, <1>5 DEF Crash, Exit, disk, docker, nginx, RouteMoves, NoSlotStops
<1>6. CASE Stages
  <2>1. CASE Capture
    BY <2>1 DEF Capture, PlanOf, docker, nginx, FlagMoves, RouteMoves, NoSlotStops
  <2>2. CASE Cleanup
    <3>1. FlagMoves
      BY <1>2, <2>2 DEF Cleanup, Exit, disk
    <3> QED
      BY <2>2, <3>1 DEF Cleanup, RouteMoves
  <2>3. CASE StopGunicorn("stopGunicorn", "startGunicorn")
    <3>1. NoSlotStops
      BY <2>3, SetStopsNoSlot DEF StopGunicorn
    <3>2. FlagMoves
      BY <1>2, <2>3 DEF StopGunicorn, disk, memory
    <3> QED
      BY <2>3, <3>1, <3>2 DEF StopGunicorn, RouteMoves
  <2>4. CASE StartPreviousSlot \/ StartCandidateSlot \/ ReplaceWorkers \/ StopBeat \/ StartBeat
             \/ StartGunicorn("startGunicorn", "routePromoted")
    <3>1. NoSlotStops
      BY <2>4, SetStopsNoSlot DEF StartPreviousSlot, StartCandidateSlot, ReplaceWorkers,
         StopBeat, StartBeat, StartGunicorn
    <3> QED
      BY <1>1, <2>4, <3>1 DEF StartPreviousSlot, StartCandidateSlot, ReplaceWorkers,
         StopBeat, StartBeat, StartGunicorn, disk, memory
  <2>5. CASE Validate \/ WriteDockerfile \/ Build \/ Backup \/ Migrate \/ CollectStatic
    BY <1>1, <2>5 DEF Validate, WriteDockerfile, Build, Backup, Migrate, CollectStatic,
       disk, docker, memory
  <2>6. CASE Stabilize \/ FinalHealth \/ WriteMarker \/ Publish \/ WriteLineage \/ Disarm
    BY <1>1, <2>6 DEF Stabilize, FinalHealth, WriteMarker, Publish, WriteLineage, Disarm,
       disk, docker, memory
  <2> QED
    BY <1>6, <2>1, <2>2, <2>3, <2>4, <2>5, <2>6 DEF Stages
<1>7. CASE PlanStages
  <2>1. ASSUME NEW from, NEW flag, NEW to, SavePlan(from, flag, to)
        PROVE  FlagMoves /\ RouteMoves
    <3>1. \A f \in FlagNames : flags[f] => flags'[f]
      BY <2>1 DEF SavePlan, TypeOK, Flags
    <3> QED
      BY <2>1, <3>1 DEF SavePlan, PlanOf, docker, FlagMoves, RouteMoves, NoSlotStops
  <2> QED
    BY <1>7, <2>1 DEF PlanStages
<1>8. CASE WriteUpstream
  BY <1>1, <1>8 DEF WriteUpstream, docker
<1>9. CASE StageReload \/ RollbackReload
  <2>1. /\ prior # NoRoute /\ Loadable(upstream) /\ Load(upstream) /\ image' = image
        /\ plan' = plan /\ flags' = flags /\ pc \in RouteLabels
    BY <1>9 DEF StageReload, RollbackReload, Reload, docker, RouteLabels
  <2> QED
    BY <1>2, <2>1 DEF RouteMoves
<1>10. CASE RouteFails
  <2>1. /\ prior # NoRoute /\ image' = image /\ plan' = plan /\ flags' = flags
        /\ pc \in RouteLabels
        /\ UNCHANGED nginx \/ \E r \in {upstream, prior} : Loadable(r) /\ Load(r)
    BY <1>10 DEF RouteFails, ReloadFails, docker
  <2> QED
    BY <1>1, <1>2, <2>1 DEF RouteMoves
<1>11. CASE Rollback
  <2>1. CASE Record
    BY <1>2, <2>1 DEF Record, Exit, docker, nginx, RouteMoves, NoSlotStops
  <2>2. CASE RollbackStarts \/ RestoreSmoke \/ RestoreDockerfile \/ RestoreUpstream
             \/ RestoreMarker \/ RestoreLineage \/ RestoreStatic \/ RetagReference
    BY <1>1, <2>2 DEF RollbackStarts, RestoreSmoke, RestoreDockerfile, RestoreUpstream,
       RestoreMarker, RestoreLineage, RestoreStatic, RetagReference, disk, docker, memory
  <2>3. CASE RestoreWorkers
    <3>1. NoSlotStops
      BY <2>3, SetStopsNoSlot DEF RestoreWorkers, RestoreService
    <3> QED
      BY <1>1, <2>3, <3>1 DEF RestoreWorkers, RestoreService, disk, memory
  <2>4. CASE StopGunicorn("rbStopGunicorn", "rbStartGunicorn")
    <3>1. NoSlotStops
      BY <2>4, SetStopsNoSlot DEF StopGunicorn
    <3>2. FlagMoves
      BY <1>2, <2>4 DEF StopGunicorn, disk, memory
    <3> QED
      BY <2>4, <3>1, <3>2 DEF StopGunicorn, RouteMoves
  <2>5. CASE StartGunicorn("rbStartGunicorn", AfterGunicorn(failed))
    <3>1. NoSlotStops
      BY <2>5, SetStopsNoSlot DEF StartGunicorn
    <3> QED
      BY <1>1, <2>5, <3>1 DEF StartGunicorn, disk, memory
  <2>6. CASE VerifyRestored \/ FinalSmoke \/ RollbackDisarms
    BY <1>1, <2>6 DEF VerifyRestored, FinalSmoke, RollbackDisarms, disk, docker, memory
  <2>7. CASE RollbackRemoves
    <3>1. FlagMoves
      BY <1>2, <2>7 DEF RollbackRemoves, disk, memory
    <3> DEFINE S == {s \in {Prev} : flags["previous"]} \cup {s \in {Cand} : flags["candidate"]}
    <3>2. S \in SUBSET {Prev, Cand} /\ RemoveSlots(S) /\ loaded' = loaded /\ pc = "rbRemove"
      BY <2>7 DEF RollbackRemoves
    <3> QED
      BY <3>1, <3>2 DEF RouteMoves
  <2> QED
    BY <1>11, <2>1, <2>2, <2>3, <2>4, <2>5, <2>6, <2>7 DEF Rollback, RestoreGunicorn
<1>12. CASE Failures
  <2>1. CASE RecordFails
    BY <1>2, <2>1 DEF RecordFails, Exit, disk, docker, nginx, RouteMoves, NoSlotStops
  <2>2. CASE CleanupFails
    <3>1. FlagMoves
      BY <1>2, <2>2 DEF CleanupFails, Exit, disk
    <3> QED
      BY <2>2, <3>1 DEF CleanupFails, RouteMoves
  <2>3. CASE StageFails \/ CaptureFails \/ LineageWriteFails \/ DisarmFails \/ FinalSmokeFails
             \/ RollbackEndFails
    BY <1>1, <2>3 DEF StageFails, CaptureFails, LineageWriteFails, DisarmFails,
       FinalSmokeFails, RollbackEndFails, disk, docker, memory
  <2>4. CASE RestoreFails
    BY <1>1, <2>4 DEF RestoreFails, RestorationFails, disk, docker
  <2>5. CASE PlanStageFails
    <3>1. ASSUME NEW from, NEW flag, SavePlanFails(from, flag)
          PROVE  FlagMoves /\ RouteMoves
      <4>1. \A f \in FlagNames : flags[f] => flags'[f]
        BY <3>1 DEF SavePlanFails, TypeOK, Flags
      <4> QED
        BY <3>1, <4>1 DEF SavePlanFails, disk, docker, FlagMoves, RouteMoves, NoSlotStops
    <3> QED
      BY <2>5, <3>1 DEF PlanStageFails
  <2> QED
    BY <1>10, <1>12, <2>1, <2>2, <2>3, <2>4, <2>5 DEF Failures
<1>13. CASE UNCHANGED vars
  BY <1>1, <1>13 DEF vars, disk, docker, memory
<1> QED
  BY <1>3, <1>4, <1>5, <1>6, <1>7, <1>8, <1>9, <1>10, <1>11, <1>12, <1>13 DEF Next, Receiver

\* What is loaded while Gunicorn is replaced, at the end of an attempt, and while a
\* rollback that switched traffic restores the services.
FallbackSet == {"planGunicorn", "stopGunicorn", "startGunicorn", "routePromoted"}
FinalSet    == {"planCurrent", "writeMarker", "publish", "writeLineage", "disarm", "cleanup",
                "rbFinalSmoke"}
HeldSet     == {"rbSmoke", "rbReturn"} \cup ConfigurationLabels \cup WorkerLabels
               \cup GunicornLabels

LoadedInv ==
    /\ pc \in FallbackSet => loaded = Route({Cand}, {Prev})
    /\ pc \in FinalSet => loaded = GunicornOnly
    /\ pc \in HeldSet /\ flags["traffic"] => loaded = Route({Prev}, {Gunicorn})
    /\ pc = "rbRemove" /\ flags["traffic"] => loaded = GunicornOnly

LEMMA LoadedKeeps ==
    ASSUME LoadedInv, loaded' = loaded, bundle' = bundle,
           pc' \in FallbackSet => pc \in FallbackSet,
           pc' \in FinalSet => pc \in FinalSet,
           pc' \in HeldSet /\ flags'["traffic"] => pc \in HeldSet /\ flags["traffic"],
           pc' = "rbRemove" /\ flags'["traffic"] => pc \in {"rbRemove", "rbFinalSmoke"} /\ flags["traffic"]
    PROVE  LoadedInv'
<1>1. Prev' = Prev /\ Cand' = Cand
  BY DEF Prev, Cand
<1> QED
  BY <1>1 DEF LoadedInv, FinalSet

\* A statement that reloads.
LEMMA LoadedReload ==
    ASSUME ControlInv, FileInv, NEW from, NEW to, Reload(from, to),
           from \in RouteLabels,
           to \in FallbackSet => from = "routeFallback",
           to \in FinalSet => from \in {"routeFinal", "rbFinal"},
           to \in HeldSet => from = "rbTraffic",
           to = "rbRemove" => ~flags["traffic"]
    PROVE  LoadedInv'
<1>1. /\ pc = from /\ pc' = to /\ loaded' = upstream /\ bundle' = bundle /\ flags' = flags
      /\ upstream = TargetRoute
  BY DEF Reload, Step, Load, FileInv
<1>2. Prev' = Prev /\ Cand' = Cand
  BY <1>1 DEF Prev, Cand
<1>3. pc = "routeFallback" => loaded' = Route({Cand}, {Prev})
  BY <1>1 DEF TargetRoute
<1>4. pc \in {"routeFinal", "rbFinal"} => loaded' = GunicornOnly
  BY <1>1 DEF TargetRoute
<1>5. pc = "rbTraffic" => loaded' = Route({Prev}, {Gunicorn})
  BY <1>1 DEF TargetRoute
<1> QED
  BY <1>1, <1>2, <1>3, <1>4, <1>5 DEF LoadedInv

LEMMA LoadedStep ==
    ASSUME TypeOK, ControlInv, FileInv, LoadedInv, [Next]_vars
    PROVE  LoadedInv'
<1> USE DEF Step
<1> USE DEF FallbackSet, FinalSet, HeldSet
<1>1. ASSUME pc' \in {"idle", "validate", "rollback", "record"} PROVE LoadedInv'
  BY <1>1 DEF LoadedInv
<1>2. CASE ReceiveArchive \/ RecoverPlan \/ Crash
  BY <1>1, <1>2 DEF ReceiveArchive, RecoverPlan, Crash, Exit
<1>3. CASE DropStalePlan
  BY <1>1, <1>3 DEF DropStalePlan
<1>4. CASE Stages
  <2>1. CASE Validate \/ Capture \/ StartPreviousSlot \/ WriteDockerfile \/ Build \/ Backup
             \/ Migrate \/ CollectStatic
    BY <2>1 DEF Validate, Capture, StartPreviousSlot, WriteDockerfile, Build, Backup, Migrate,
       CollectStatic, LoadedInv
  <2>2. CASE StartCandidateSlot \/ ReplaceWorkers \/ StopBeat \/ StartBeat \/ Stabilize
             \/ FinalHealth
    BY <2>2 DEF StartCandidateSlot, ReplaceWorkers, StopBeat, StartBeat, Stabilize,
       FinalHealth, LoadedInv
  <2>3. CASE StopGunicorn("stopGunicorn", "startGunicorn")
             \/ StartGunicorn("startGunicorn", "routePromoted")
    BY <2>3, LoadedKeeps DEF StopGunicorn, StartGunicorn, nginx, memory
  <2>4. CASE WriteMarker \/ Publish \/ WriteLineage \/ Disarm
    BY <2>4, LoadedKeeps DEF WriteMarker, Publish, WriteLineage, Disarm, nginx, memory
  <2>5. CASE Cleanup
    BY <1>1, <2>5 DEF Cleanup, Exit
  <2> QED
    BY <1>4, <2>1, <2>2, <2>3, <2>4, <2>5 DEF Stages
<1>5. CASE PlanStages
  <2>1. CASE \/ SavePlan("planPrevious", "previous", "startPrevious")
             \/ SavePlan("planMigration", "migration", "migrate")
             \/ SavePlan("planTraffic", "traffic", "routePrevious")
             \/ SavePlan("planStatic", "static", "collectStatic")
             \/ SavePlan("planCandidate", "candidate", "startCandidate")
             \/ SavePlan("planWorkers", "workers", "replaceWorkers")
    BY <2>1 DEF SavePlan, LoadedInv
  <2>2. CASE \/ SavePlan("planGunicorn", "gunicorn", "stopGunicorn")
             \/ SavePlan("planCurrent", "current", "writeMarker")
    BY <2>2, LoadedKeeps DEF SavePlan, nginx
  <2> QED
    BY <1>5, <2>1, <2>2 DEF PlanStages
<1>6. CASE WriteUpstream
  BY <1>6, LoadedKeeps DEF WriteUpstream, nginx
<1>7. CASE StageReload
  BY <1>7, LoadedReload DEF StageReload, RouteLabels
<1>8. CASE RollbackReload
  <2>1. CASE Reload("rbReturn", AfterReturn(failed))
    <3>1. AfterReturn(failed) \notin FallbackSet \cup FinalSet \cup HeldSet
      BY DEF AfterReturn, Verdict
    <3>2. AfterReturn(failed) = "rbRemove" => ~flags["traffic"]
      BY ChainReaches
    <3> QED
      BY <2>1, <3>1, <3>2, LoadedReload DEF RouteLabels
  <2>2. CASE Reload("rbTraffic", "rbSmoke") \/ Reload("rbFinal", "rbFinalSmoke")
             \/ Reload("rbFailSafe", "record")
    BY <2>2, LoadedReload DEF RouteLabels
  <2> QED
    BY <1>8, <2>1, <2>2 DEF RollbackReload
<1>9. CASE RouteFails
  <2>1. pc' \in {"rollback", "record", "rbFailSafe"} \/ pc' = AfterReturn(failed \cup {"route"})
    BY <1>9 DEF RouteFails, ReloadFails
  <2>2. AfterReturn(failed \cup {"route"}) = "record"
    BY DEF AfterReturn, Verdict
  <2> QED
    BY <2>1, <2>2 DEF LoadedInv
<1>10. CASE Rollback
  <2>1. CASE RollbackStarts \/ RollbackDisarms \/ Record
    BY <2>1 DEF RollbackStarts, RollbackDisarms, Record, Exit, LoadedInv
  <2>2. CASE RestoreSmoke \/ RestoreDockerfile \/ RestoreUpstream
             \/ RestoreMarker \/ RestoreLineage \/ RestoreStatic
    BY <2>2, LoadedKeeps DEF RestoreSmoke, RestoreDockerfile, RestoreUpstream, RestoreMarker,
       RestoreLineage, RestoreStatic, nginx, memory
  <2>3. CASE RetagReference \/ RestoreWorkers \/ RestoreGunicorn
    <3>1. /\ bundle' = bundle /\ flags' = flags /\ loaded' = loaded
          /\ pc \in {"rbRetag"} \cup WorkerLabels \cup GunicornLabels
          /\ \/ pc' \in {"rbStopBeat", "rbStartBeat", "rbStartGunicorn"}
             \/ pc' = AfterConfiguration(failed) \/ pc' = AfterWorkers(failed)
             \/ pc' = AfterGunicorn(failed)
      BY <2>3 DEF RetagReference, RestoreWorkers, RestoreService, RestoreGunicorn,
         StopGunicorn, StartGunicorn, nginx, memory
    <3>2. pc' = "rbRemove" => ~flags["traffic"]
      BY <3>1, ChainReaches
    <3>3. pc' \notin FallbackSet \cup FinalSet
      BY <3>1, ChainReaches
    <3> QED
      BY <3>1, <3>2, <3>3, LoadedKeeps
  <2>4. CASE VerifyRestored
    <3>1. pc' \in {"record", "rbFinal"} \/ (pc' = "rbRemove" /\ ~flags["traffic"])
      BY <2>4 DEF VerifyRestored, Verdict
    <3> QED
      BY <2>4, <3>1, LoadedKeeps DEF VerifyRestored, nginx, memory
  <2>5. CASE FinalSmoke
    BY <2>5, LoadedKeeps DEF FinalSmoke, nginx, memory, ControlInv, RestoreInv
  <2>6. CASE RollbackRemoves
    BY <2>6 DEF RollbackRemoves, LoadedInv
  <2> QED
    BY <1>10, <2>1, <2>2, <2>3, <2>4, <2>5, <2>6 DEF Rollback
<1>11. CASE Failures
  <2>1. CASE StageFails \/ CaptureFails \/ LineageWriteFails \/ PlanStageFails \/ RollbackEndFails
             \/ CleanupFails \/ RecordFails
    BY <1>1, <2>1 DEF StageFails, CaptureFails, LineageWriteFails, PlanStageFails, SavePlanFails,
       RollbackEndFails, CleanupFails, RecordFails, Exit
  <2>2. CASE DisarmFails \/ FinalSmokeFails
    BY <2>2, LoadedKeeps DEF DisarmFails, FinalSmokeFails, nginx, memory
  <2>3. CASE RestoreFails
    <3>1. /\ bundle' = bundle /\ flags' = flags /\ loaded' = loaded
          /\ pc \in HeldSet \cup {"rbVerify"}
          /\ failed' # {}
          /\ \/ pc' = "rbDockerfile" /\ pc = "rbSmoke"
             \/ pc' = AfterConfiguration(failed') \/ pc' = AfterWorkers(failed')
             \/ pc' = AfterGunicorn(failed') \/ pc' = Verdict(failed')
          /\ pc = "rbVerify" => pc' = Verdict(failed')
      BY <2>3 DEF RestoreFails, RestorationFails, nginx
    <3>2. pc' # "rbRemove" /\ pc' \notin FallbackSet \cup FinalSet
      BY <3>1, ChainReaches DEF Verdict
    <3>3. pc = "rbVerify" => pc' = "record"
      BY <3>1 DEF Verdict
    <3> QED
      BY <3>1, <3>2, <3>3, LoadedKeeps
  <2> QED
    BY <1>9, <1>11, <2>1, <2>2, <2>3 DEF Failures
<1>12. CASE UNCHANGED vars
  BY <1>12, LoadedKeeps DEF vars, nginx, memory
<1> QED
  BY <1>2, <1>3, <1>4, <1>5, <1>6, <1>7, <1>8, <1>9, <1>10, <1>11, <1>12
     DEF Next, Receiver, Startup

\* A route names no slot of an attempt.
SlotsOf(a) == {PrevSlot(a), CandSlot(a)}
Avoids(r, a) == Servers(r) \cap SlotsOf(a) = {}

\* No route names the slots of an attempt that does not exist yet, and the loaded one
\* names those of an attempt only once that attempt may have switched traffic.
SlotInv ==
    /\ \A a \in Attempts : journal[a].result = "absent" =>
           /\ Avoids(loaded, a) /\ Avoids(upstream, a)
           /\ prior # NoRoute => Avoids(prior, a)
    /\ pc # "idle" /\ ~flags["migration"] => Avoids(loaded, bundle.attempt)
    /\ pc # "idle" /\ bundle.mode # "recovery" /\ ~flags["traffic"] =>
           Avoids(loaded, bundle.attempt)
    /\ plan # NoPlan /\ ~plan.flags["migration"] => Avoids(loaded, plan.attempt)

\* Switching traffic is behind its flag.
LEMMA RouteFlags ==
    ASSUME ControlInv, pc \in RouteLabels
    PROVE  pc # "idle" /\ flags["traffic"] /\ flags["migration"]
           /\ (plan # NoPlan => plan.flags["migration"])
BY DEF RouteLabels, StageLabels, ControlInv, StageFlags, RestoreInv, PlanInv, Ordered

\* The slots a boundary renders are those of its own attempt.
LEMMA TargetRouteAvoids ==
    ASSUME NEW a \in Attempts, bundle \in Bundles, a # bundle.attempt
    PROVE  Avoids(TargetRoute, a) /\ Avoids(GunicornOnly, a)
BY DEF Avoids, SlotsOf, TargetRoute, Servers, Route, GunicornOnly, Prev, Cand, PrevSlot,
   CandSlot, Gunicorn, Bundles

LEMMA SlotStep ==
    ASSUME TypeOK, ControlInv, KnownInv, FileInv, SlotInv, [Next]_vars
    PROVE  SlotInv'
<1>1. FlagMoves /\ RouteMoves /\ FileMoves /\ IdentityMoves /\ ResultsStay
  BY RouteStep, FileStep, IdentityStep, ResultsStayStep
<1>2. bundle.attempt \in Attempts
  BY DEF TypeOK, Bundles
<1>3. ASSUME NEW a \in Attempts, journal'[a].result = "absent"
      PROVE  /\ Avoids(loaded', a) /\ Avoids(upstream', a)
             /\ prior' # NoRoute => Avoids(prior', a)
  <2>1. journal[a].result = "absent"
    BY <1>1, <1>3 DEF ResultsStay
  <2>2. Avoids(loaded, a) /\ Avoids(upstream, a) /\ (prior # NoRoute => Avoids(prior, a))
    BY <2>1 DEF SlotInv
  <2>3. Avoids(loaded', a)
    BY <1>1, <2>2 DEF RouteMoves, Load, nginx
  <2>4. pc # "idle" => Avoids(TargetRoute, a) /\ Avoids(GunicornOnly, a)
    BY <2>1, TargetRouteAvoids DEF KnownInv, TypeOK
  <2>5. CASE WriteUpstream
    <3>1. upstream' = TargetRoute /\ prior' = upstream /\ pc # "idle"
      BY <2>5 DEF WriteUpstream, RouteLabels
    <3> QED
      BY <2>2, <2>3, <2>4, <3>1
  <2>6. CASE RestoreUpstream
    <3>1. upstream' = GunicornOnly /\ prior' = prior /\ pc # "idle"
      BY <2>6 DEF RestoreUpstream, Step, memory, FileInv
    <3> QED
      BY <2>2, <2>3, <2>4, <3>1
  <2>7. CASE ~WriteUpstream /\ ~RestoreUpstream
    BY <1>1, <2>2, <2>3, <2>7 DEF FileMoves
  <2> QED
    BY <2>5, <2>6, <2>7
\* The loaded route changes only once traffic may have been switched.
<1>4. loaded' = loaded \/ (pc # "idle" /\ flags["traffic"] /\ flags["migration"]
                           /\ (plan # NoPlan => plan.flags["migration"]))
  BY <1>1, RouteFlags DEF RouteMoves, nginx
<1>5. /\ pc' # "idle" /\ ~flags'["migration"] => Avoids(loaded', bundle'.attempt)
      /\ pc' # "idle" /\ bundle'.mode # "recovery" /\ ~flags'["traffic"] =>
             Avoids(loaded', bundle'.attempt)
  <2>1. CASE ReceiveArchive
    <3>1. PICK b \in Bundles : Fresh(b.attempt) /\ bundle' = b
      BY <2>1 DEF ReceiveArchive
    <3>2. journal[b.attempt].result = "absent" /\ b.attempt \in Attempts /\ loaded' = loaded
      BY <2>1, <3>1 DEF Fresh, Bundles, ReceiveArchive, nginx
    <3> QED
      BY <3>1, <3>2 DEF SlotInv
  <2>2. CASE RecoverPlan
    <3>1. /\ plan # NoPlan /\ bundle'.attempt = plan.attempt /\ bundle'.mode = "recovery"
          /\ flags' = plan.flags /\ loaded' = loaded
      BY <2>2 DEF RecoverPlan, Bundle, nginx
    <3> QED
      BY <3>1 DEF SlotInv
  <2>3. CASE pc # "idle" /\ pc' # "idle" /\ bundle' = bundle
    <3>1. (flags["migration"] => flags'["migration"]) /\ (flags["traffic"] => flags'["traffic"])
      BY <1>1, <2>3 DEF FlagMoves, FlagNames
    <3> QED
      BY <1>4, <2>3, <3>1 DEF SlotInv
  <2>4. CASE pc' = "idle"
    BY <2>4
  <2> QED
    BY <1>1, <2>1, <2>2, <2>3, <2>4 DEF IdentityMoves
<1>6. plan' # NoPlan /\ ~plan'.flags["migration"] => Avoids(loaded', plan'.attempt)
  <2>1. CASE plan' = plan
    BY <1>4, <2>1 DEF SlotInv
  <2>2. CASE plan' \notin {plan, NoPlan}
    <3>1. pc # "idle" /\ pc' # "idle" /\ plan'.attempt = bundle.attempt /\ plan'.flags = flags'
      BY <1>1, <2>2 DEF IdentityMoves, FlagMoves
    <3>2. bundle' = bundle
      BY <1>1, <3>1 DEF IdentityMoves, ReceiveArchive, RecoverPlan
    <3> QED
      BY <1>5, <3>1, <3>2
  <2> QED
    BY <2>1, <2>2
<1> QED
  BY <1>3, <1>5, <1>6 DEF SlotInv

\* The loaded route has servers, its slots run and answer, and Gunicorn answers when it
\* is the only one.
RouteInv ==
    /\ Servers(loaded) # {}
    /\ Servers(loaded) \ {Gunicorn} \subseteq serving
    /\ Servers(loaded) \subseteq {Gunicorn} => Gunicorn \in serving
    /\ NoDanglingRoute

\* Slots are removed only while the loaded route does not name them.
LEMMA RemovalIsSafe ==
    ASSUME TypeOK, ControlInv, LoadedInv, SlotInv, pc \in {"cleanup", "rbRemove"}
    PROVE  Servers(loaded) \cap {Prev, Cand} = {}
<1>1. SlotsOf(bundle.attempt) = {Prev, Cand}
  BY DEF SlotsOf, Prev, Cand
<1>2. CASE loaded = GunicornOnly
  BY <1>2 DEF Servers, GunicornOnly, Route, Prev, Cand, PrevSlot, CandSlot, Gunicorn
<1>3. CASE pc = "rbRemove" /\ ~flags["traffic"]
  <2>1. bundle.mode # "recovery" \/ ~flags["migration"]
    BY <1>3 DEF ControlInv, ModeInv, RestoreInv, NeedsVerification
  <2> QED
    BY <1>1, <1>3, <2>1 DEF SlotInv, Avoids
<1> QED
  BY <1>2, <1>3 DEF LoadedInv, FinalSet

LEMMA RouteInvStep ==
    ASSUME TypeOK, ControlInv, FileInv, LoadedInv, SlotInv, RouteInv, [Next]_vars
    PROVE  RouteInv'
<1>1. RouteMoves
  BY RouteStep
<1>2. \A t \in Servers(loaded) : t = Gunicorn \/ t \in Slots
  BY DEF TypeOK, Routes, Servers, Targets
<1>3. CASE UNCHANGED nginx /\ NoSlotStops
  BY <1>2, <1>3 DEF nginx, NoSlotStops, RouteInv, NoDanglingRoute
<1>4. CASE /\ image' = image /\ pc \in RouteLabels /\ prior # NoRoute
           /\ \E r \in {upstream, prior} : Loadable(r) /\ Load(r)
  <2>1. PICK r \in {upstream, prior} : Loadable(r) /\ Load(r)
    BY <1>4
  <2>2. Servers(r) # {}
    BY <1>4, <2>1 DEF FileInv
  <2> QED
    BY <1>4, <2>1, <2>2 DEF RouteInv, Load, Loadable, NoDanglingRoute
<1>5. CASE /\ pc \in {"stopGunicorn", "rbStopGunicorn"}
           /\ loaded' = loaded /\ serving' = serving \ {Gunicorn} /\ NoSlotStops
  <2>1. loaded \in {Route({Cand}, {Prev}), Route({Prev}, {Gunicorn})}
    BY <1>5 DEF LoadedInv, FallbackSet, HeldSet, ControlInv, RestoreInv, PlanInv, Ordered
  <2>2. Prev \in Servers(loaded) /\ Prev # Gunicorn
    BY <2>1 DEF Servers, Route, Prev, PrevSlot, Gunicorn
  <2> QED
    BY <1>2, <1>5, <2>2 DEF RouteInv, NoDanglingRoute, NoSlotStops
<1>6. CASE /\ pc \in {"cleanup", "rbRemove"}
           /\ loaded' = loaded /\ \E S \in SUBSET {Prev, Cand} : RemoveSlots(S)
  <2>1. PICK S \in SUBSET {Prev, Cand} : RemoveSlots(S)
    BY <1>6
  <2>2. Servers(loaded) \cap S = {} /\ Gunicorn \notin S
    BY <1>6, <2>1, RemovalIsSafe DEF Prev, Cand, PrevSlot, CandSlot, Gunicorn
  <2>3. Slots \subseteq Containers
    BY DEF Containers
  <2>4. \A t \in Servers(loaded) : t = Gunicorn \/ image'[t] = image[t]
    BY <1>2, <2>1, <2>2, <2>3 DEF RemoveSlots
  <2>5. NoDanglingRoute'
    BY <1>6, <2>4 DEF RouteInv, NoDanglingRoute
  <2>6. serving' = serving \ S
    BY <2>1 DEF RemoveSlots
  <2> QED
    BY <1>6, <2>2, <2>5, <2>6 DEF RouteInv
<1> QED
  BY <1>1, <1>3, <1>4, <1>5, <1>6 DEF RouteMoves

\* The inductive invariant.
ServedInv ==
    /\ TypeOK /\ ControlInv /\ KnownInv /\ SchemaInv
    /\ FileInv /\ LoadedInv /\ SlotInv /\ RouteInv

LEMMA ServedInit == Init => ServedInv
<1> SUFFICES ASSUME Init PROVE ServedInv
  OBVIOUS
<1> USE DEF Init
<1>1. TypeOK
  BY TypeCorrectInit
<1>2. ControlInv
  <2>1. IdleInv /\ ModeInv
    BY DEF IdleInv, ModeInv, NoBundle, Bundle, RollbackLabels
  <2>2. StageFlags /\ PlanInv /\ RestoreInv
    BY DEF StageFlags, StageLabels, PlanInv, Ordered, RestoreInv, RollbackLabels, NoFlags,
       FlagNames
  <2> QED
    BY <2>1, <2>2 DEF ControlInv
<1>3. KnownInv
  BY DEF KnownInv
<1>4. SchemaInv
  <2>1. SchemaSupportsRunning
    BY DEF SchemaSupportsRunning
  <2> QED
    BY <2>1 DEF SchemaInv, NoOriginals, BuiltSet, NoFlags, FlagNames
<1>5. Servers(GunicornOnly) = {Gunicorn}
  BY DEF Servers, GunicornOnly, Route
<1>6. FileInv /\ LoadedInv
  BY <1>5 DEF FileInv, NoOriginals, LoadedInv, FallbackSet, FinalSet, HeldSet
<1>7. SlotInv
  BY <1>5 DEF SlotInv, Avoids, SlotsOf, PrevSlot, CandSlot, Gunicorn
<1>8. RouteInv
  BY <1>5 DEF RouteInv, NoDanglingRoute
<1> QED
  BY <1>1, <1>2, <1>3, <1>4, <1>6, <1>7, <1>8 DEF ServedInv

LEMMA ServedStep == ServedInv /\ [Next]_vars => ServedInv'
BY TypeCorrectStep, ControlStep, KnownStep, SchemaStep, FileInvStep, LoadedStep, SlotStep,
   RouteInvStep DEF ServedInv

\* "No raw 502": whatever fails, wherever the receiver is killed and even when the commit
\* itself cannot be written, the loaded route answers, names only slots that run, and no
\* running container needs a schema the database lacks.
THEOREM UsersStayServed == Spec => []UsersAreServed
<1>1. ServedInv => UsersAreServed
  <2> SUFFICES ASSUME ServedInv PROVE UsersAreServed
    OBVIOUS
  <2>1. RouteServed
    BY DEF ServedInv, RouteInv, RouteServed
  <2> QED
    BY <2>1 DEF ServedInv, RouteInv, SchemaInv, UsersAreServed
<1> QED
  BY <1>1, ServedInit, ServedStep, PTL DEF Spec

-----------------------------------------------------------------------------
(***************************************************************************)
(* What production runs at every statement of the stages: what has not     *)
(* been replaced yet is what was captured.  Only the route that the Nginx  *)
(* master has loaded is not captured: a torn production may have another   *)
(* one loaded than its upstream file says.                                 *)
(***************************************************************************)

EndingSet == {"planCurrent", "writeMarker", "publish", "writeLineage"}

FilesAt ==
    /\ dockerfile = IF pc \in {"planPrevious", "startPrevious", "writeDockerfile"}
                    THEN orig.dockerfile ELSE bundle.version
    /\ pc \notin {"planPrevious", "startPrevious"} =>
           reference = IF pc \in {"writeDockerfile", "build"} THEN orig.image ELSE bundle.version
    /\ static = IF pc \in StaticSet \ {"collectStatic"} THEN bundle.version ELSE orig.static
    /\ marker = IF pc \in {"publish", "writeLineage"} THEN bundle.version ELSE orig.marker
    /\ lineage = orig.lineage

ServicesAt ==
    /\ image[Workers] = IF pc \in WorkersSet \ {"replaceWorkers"}
                        THEN bundle.version ELSE orig.image
    /\ image[Beat] = IF pc \in WorkersSet \ {"replaceWorkers", "stopBeat"}
                     THEN IF pc = "startBeat" THEN Down ELSE bundle.version
                     ELSE orig.image
    /\ image[Gunicorn] = IF pc \in GunicornSet \ {"stopGunicorn"}
                         THEN IF pc = "startGunicorn" THEN Down ELSE bundle.version
                         ELSE orig.image

TrafficAt ==
    /\ pc \notin TrafficSet => torn \/ loaded = GunicornOnly
    /\ pc \notin TrafficSet \/ pc \in EndingSet => upstream = GunicornOnly
    /\ pc \in EndingSet \cup {"routeFinal"} => image[Prev] # Down

StageInv == pc \in CapturedSet => FilesAt /\ ServicesAt /\ TrafficAt

\* What was captured is one release; the cleanup after a commit needs it no more.
Coherent(o) == o.dockerfile = o.image /\ o.static = o.image /\ o.marker = o.image
CoherentInv ==
    /\ pc # "cleanup" => Coherent(orig)
    /\ plan # NoPlan => Coherent(plan.orig)

\* A service is given an image, and nothing else changes.
LEMMA SetImagesEffect ==
    ASSUME TypeOK, NEW c \in Containers, NEW v, SetImages(c, v)
    PROVE  image'[c] = v /\ \A d \in Containers : d # c => image'[d] = image[d]
BY DEF TypeOK, SetImages

\* The services and the slots of the attempt are different containers.
LEMMA ContainersDiffer ==
    /\ Workers # Beat /\ Workers # Gunicorn /\ Beat # Gunicorn
    /\ Prev \notin Services /\ Cand \notin Services /\ Prev # Cand
BY DEF Workers, Beat, Gunicorn, Prev, Cand, PrevSlot, CandSlot, Services

LEMMA StageInvStages ==
    ASSUME TypeOK, ControlInv, FileInv, StageInv, Stages,
           pc = "capture" => torn \/ loaded = GunicornOnly
    PROVE  StageInv'
<1> USE DEF Step, StageInv, EndingSet
<1> /\ Prev \in Containers /\ Cand \in Containers /\ Workers \in Containers
    /\ Beat \in Containers /\ Gunicorn \in Containers
  BY ContainerTypes DEF TypeOK
<1> /\ Workers # Beat /\ Workers # Gunicorn /\ Beat # Gunicorn
    /\ Prev # Workers /\ Prev # Beat /\ Prev # Gunicorn
    /\ Cand # Workers /\ Cand # Beat /\ Cand # Gunicorn /\ Prev # Cand
  BY ContainersDiffer DEF Services
<1>1. CASE Capture
  <2>1. /\ image[Workers] = image[Gunicorn] /\ image[Beat] = image[Gunicorn]
        /\ torn \/ loaded = GunicornOnly
        /\ upstream = GunicornOnly
    BY <1>1 DEF Capture, UniformServices, Services, FileInv
  <2>2. /\ pc' = "planPrevious" /\ image' = image /\ dockerfile' = dockerfile
        /\ static' = static /\ marker' = marker /\ torn' = torn
        /\ lineage' = lineage /\ loaded' = loaded /\ upstream' = upstream
        /\ orig'.image = image[Gunicorn] /\ orig'.lineage = lineage
        /\ orig'.dockerfile = dockerfile /\ orig'.static = static /\ orig'.marker = marker
    BY <1>1 DEF Capture, docker, nginx
  <2> QED
    BY <2>1, <2>2 DEF FilesAt, ServicesAt, TrafficAt
<1>3. CASE Validate \/ Cleanup \/ WriteLineage \/ Disarm
  BY <1>3 DEF Validate, Cleanup, Exit, WriteLineage, Disarm
<1>4. CASE StartPreviousSlot
  <2>1. \A d \in Containers : d # Prev => image'[d] = image[d]
    BY <1>4, SetImagesEffect DEF StartPreviousSlot
  <2> QED
    BY <1>4, <2>1 DEF StartPreviousSlot, disk, nginx, memory, FilesAt, ServicesAt, TrafficAt
<1>5. CASE WriteDockerfile
  BY <1>5 DEF WriteDockerfile, docker, nginx, memory, FilesAt, ServicesAt, TrafficAt
<1>6. CASE Build
  BY <1>6 DEF Build, nginx, memory, FilesAt, ServicesAt, TrafficAt
<1>7. CASE Backup
  BY <1>7 DEF Backup, docker, nginx, memory, FilesAt, ServicesAt, TrafficAt
<1>8. CASE Migrate
  BY <1>8 DEF Migrate, disk, nginx, memory, FilesAt, ServicesAt, TrafficAt
<1>9. CASE CollectStatic
  BY <1>9 DEF CollectStatic, nginx, memory, FilesAt, ServicesAt, TrafficAt
<1>10. CASE StartCandidateSlot
  <2>1. \A d \in Containers : d # Cand => image'[d] = image[d]
    BY <1>10, SetImagesEffect DEF StartCandidateSlot
  <2> QED
    BY <1>10, <2>1 DEF StartCandidateSlot, nginx, memory, FilesAt, ServicesAt, TrafficAt
<1>11. CASE ReplaceWorkers
  <2>1. image'[Workers] = reference /\ \A d \in Containers : d # Workers => image'[d] = image[d]
    BY <1>11, SetImagesEffect DEF ReplaceWorkers
  <2> QED
    BY <1>11, <2>1 DEF ReplaceWorkers, disk, nginx, memory, FilesAt, ServicesAt, TrafficAt
<1>12. CASE StopBeat
  <2>1. image'[Beat] = Down /\ \A d \in Containers : d # Beat => image'[d] = image[d]
    BY <1>12, SetImagesEffect DEF StopBeat
  <2> QED
    BY <1>12, <2>1 DEF StopBeat, disk, nginx, memory, FilesAt, ServicesAt, TrafficAt
<1>13. CASE StartBeat
  <2>1. image'[Beat] = reference /\ \A d \in Containers : d # Beat => image'[d] = image[d]
    BY <1>13, SetImagesEffect DEF StartBeat
  <2> QED
    BY <1>13, <2>1 DEF StartBeat, nginx, memory, FilesAt, ServicesAt, TrafficAt
<1>14. CASE Stabilize
  BY <1>14 DEF Stabilize, docker, nginx, memory, FilesAt, ServicesAt, TrafficAt
<1>15. CASE StopGunicorn("stopGunicorn", "startGunicorn")
  <2>1. image'[Gunicorn] = Down /\ \A d \in Containers : d # Gunicorn => image'[d] = image[d]
    BY <1>15, SetImagesEffect DEF StopGunicorn
  <2> QED
    BY <1>15, <2>1 DEF StopGunicorn, disk, memory, FilesAt, ServicesAt, TrafficAt
<1>16. CASE StartGunicorn("startGunicorn", "routePromoted")
  <2>1. image'[Gunicorn] = reference /\ \A d \in Containers : d # Gunicorn => image'[d] = image[d]
    BY <1>16, SetImagesEffect DEF StartGunicorn
  <2> QED
    BY <1>16, <2>1 DEF StartGunicorn, disk, nginx, memory, FilesAt, ServicesAt, TrafficAt
<1>17. CASE FinalHealth
  <2>1. image[Prev] # Down
    BY <1>17, AbsenceAssumption DEF FinalHealth, FunctionalHealth, TypeOK, Originals
  <2> QED
    BY <1>17, <2>1 DEF FinalHealth, disk, docker, nginx, memory, FilesAt, ServicesAt,
       TrafficAt, Prev
<1>18. CASE WriteMarker
  BY <1>18 DEF WriteMarker, docker, nginx, memory, FilesAt, ServicesAt, TrafficAt, Prev
<1>19. CASE Publish
  BY <1>19 DEF Publish, docker, nginx, memory, FilesAt, ServicesAt, TrafficAt, Prev
<1> QED
  BY <1>1, <1>3, <1>4, <1>5, <1>6, <1>7, <1>8, <1>9, <1>10, <1>11, <1>12, <1>13, <1>14,
     <1>15, <1>16, <1>17, <1>18, <1>19 DEF Stages

\* A restoration that raises goes on with the rollback.
LEMMA RestoreFailsStays ==
    ASSUME RestoreFails
    PROVE  pc' \in RollbackLabels
<1>1. "rbDockerfile" \in RollbackLabels
  BY DEF RollbackLabels
<1> QED
  BY <1>1, ChainLabels DEF RestoreFails, RestorationFails

\* The steps that leave the stages.
LEMMA StagesLeft ==
    ASSUME \/ ReceiveArchive \/ Startup \/ Crash \/ RollbackReload \/ Rollback \/ Failures
    PROVE  pc' \notin CapturedSet /\ pc' # "capture"
<1> USE DEF Step
<1>1. CASE ReceiveArchive \/ Startup \/ Crash
  BY <1>1 DEF ReceiveArchive, Startup, RecoverPlan, DropStalePlan, Crash, Exit
<1>2. CASE RollbackReload
  BY <1>2, ChainLabels DEF RollbackReload, Reload, RollbackLabels
<1>3. CASE Rollback
  BY <1>3, ChainLabels DEF Rollback, RollbackStarts, RestoreSmoke, RestoreDockerfile,
     RestoreUpstream, RestoreMarker, RestoreLineage, RestoreStatic, RetagReference,
     RestoreWorkers, RestoreService, RestoreGunicorn, StopGunicorn, StartGunicorn,
     VerifyRestored, FinalSmoke, RollbackRemoves, RollbackDisarms, Record, Exit,
     RollbackLabels
<1>4. CASE RouteFails
  BY <1>4, ChainLabels DEF RouteFails, ReloadFails, RollbackLabels
<1>5. CASE Failures
  <2>1. CASE StageFails \/ CaptureFails \/ LineageWriteFails \/ PlanStageFails \/ DisarmFails \/ CleanupFails
    BY <2>1, ChainLabels DEF StageFails, CaptureFails, LineageWriteFails, PlanStageFails, SavePlanFails,
       DisarmFails, CleanupFails, Exit, RollbackLabels
  <2>2. CASE RestoreFails
    BY <2>2, RestoreFailsStays DEF RollbackLabels
  <2>3. CASE FinalSmokeFails \/ RollbackEndFails \/ RecordFails
    BY <2>3, ChainLabels DEF FinalSmokeFails, RollbackEndFails, RecordFails, Exit,
       RollbackLabels
  <2> QED
    BY <1>4, <1>5, <2>1, <2>2, <2>3 DEF Failures
<1> QED
  BY <1>1, <1>2, <1>3, <1>5

LEMMA StageInvStep ==
    ASSUME TypeOK, ControlInv, FileInv, LoadedInv, StageInv, [Next]_vars,
           pc = "capture" => torn \/ loaded = GunicornOnly
    PROVE  StageInv'
<1> USE DEF Step, StageInv, EndingSet, FilesAt, ServicesAt, TrafficAt
<1>1. CASE PlanStages
  BY <1>1 DEF PlanStages, SavePlan, docker, nginx, Prev, LoadedInv, FinalSet
<1>2. CASE WriteUpstream
  BY <1>2 DEF WriteUpstream, RouteLabels, docker, nginx, Prev
<1>3. CASE StageReload
  <2>1. /\ dockerfile' = dockerfile /\ reference' = reference /\ static' = static
        /\ marker' = marker /\ lineage' = lineage /\ image' = image /\ orig' = orig
        /\ bundle' = bundle /\ upstream' = upstream /\ upstream = TargetRoute
        /\ torn' = torn
    BY <1>3 DEF StageReload, Reload, docker, FileInv
  <2>2. \/ pc = "routePrevious" /\ pc' = "planStatic"
        \/ pc = "routeFallback" /\ pc' = "planGunicorn"
        \/ pc = "routeFinal" /\ pc' = "planCurrent"
        \/ pc = "routeCandidate" /\ pc' = "planWorkers"
        \/ pc = "routePromoted" /\ pc' = "finalHealth"
    BY <1>3 DEF StageReload, Reload
  <2>3. pc = "routeFinal" => upstream = GunicornOnly
    BY <2>1 DEF TargetRoute
  <2> QED
    BY <2>1, <2>2, <2>3 DEF Prev
<1>4. CASE UNCHANGED vars
  BY <1>4 DEF vars, disk, docker, nginx, memory, Prev
<1> QED
  BY <1>1, <1>2, <1>3, <1>4, StagesLeft, StageInvStages DEF Next, Receiver

-----------------------------------------------------------------------------
(***************************************************************************)
(* The rollback touches only what a flag covers.                           *)
(***************************************************************************)

\* The steps a rollback may take.
LEMMA RollbackSteps ==
    ASSUME pc \in RollbackLabels, Next
    PROVE  \/ Crash \/ WriteUpstream \/ RollbackReload \/ RouteFails \/ Rollback
           \/ RestoreFails \/ FinalSmokeFails \/ RollbackEndFails \/ RecordFails
<1> USE DEF Step, RollbackLabels, StageLabels
<1>1. ~ReceiveArchive /\ ~Startup /\ ~PlanStages /\ ~StageReload
  BY DEF ReceiveArchive, Startup, RecoverPlan, DropStalePlan, PlanStages, SavePlan,
     StageReload, Reload
<1>2. ~Stages
  BY DEF Stages, Validate, Capture, StartPreviousSlot, WriteDockerfile, Build, Backup,
     Migrate, CollectStatic, StartCandidateSlot, ReplaceWorkers, StopBeat, StartBeat,
     Stabilize, StopGunicorn, StartGunicorn, FinalHealth, WriteMarker, Publish,
     WriteLineage, Disarm, Cleanup
<1>3. ~StageFails /\ ~CaptureFails /\ ~LineageWriteFails /\ ~PlanStageFails /\ ~DisarmFails /\ ~CleanupFails
  BY DEF StageFails, CaptureFails, LineageWriteFails, PlanStageFails, SavePlanFails, DisarmFails,
     CleanupFails
<1> QED
  BY <1>1, <1>2, <1>3 DEF Next, Receiver, Failures

TouchesCovered ==
    /\ ~flags["workers"] => image'[Workers] = image[Workers] /\ image'[Beat] = image[Beat]
    /\ ~flags["gunicorn"] => image'[Gunicorn] = image[Gunicorn]
    /\ ~flags["static"] => static' = static
    /\ ~flags["current"] => marker' = marker /\ lineage' = lineage
    /\ ~flags["traffic"] => loaded' = loaded /\ upstream' \in {upstream, GunicornOnly}

LEMMA RollbackTouches ==
    ASSUME TypeOK, ControlInv, FileInv, pc \in RollbackLabels, [Next]_vars
    PROVE  TouchesCovered
<1> USE DEF Step, TouchesCovered
<1> /\ Workers \in Containers /\ Beat \in Containers /\ Gunicorn \in Containers
    /\ Workers # Beat /\ Workers # Gunicorn /\ Beat # Gunicorn
    /\ Prev \notin Services /\ Cand \notin Services
    /\ Workers \in Services /\ Beat \in Services /\ Gunicorn \in Services
  BY ContainerTypes, ContainersDiffer DEF TypeOK, Services
<1>1. CASE Crash
  BY <1>1 DEF Crash, disk, docker, nginx
<1>2. CASE WriteUpstream \/ RollbackReload \/ RouteFails
  <2>1. flags["traffic"]
    BY <1>2, RouteFlags DEF WriteUpstream, RollbackReload, Reload, RouteFails, ReloadFails,
       RouteLabels
  <2> QED
    BY <1>2, <2>1 DEF WriteUpstream, RollbackReload, Reload, RouteFails, ReloadFails, docker
<1>3. CASE RestoreFails \/ FinalSmokeFails \/ RollbackEndFails \/ RecordFails
  BY <1>3 DEF RestoreFails, RestorationFails, FinalSmokeFails, RollbackEndFails, RecordFails,
     disk, docker, nginx
<1>4. CASE Rollback
  <2>1. CASE RestoreWorkers
    <3>1. flags["workers"]
      BY <2>1 DEF RestoreWorkers, RestoreService, ControlInv, RestoreInv
    <3>2. image'[Gunicorn] = image[Gunicorn]
      BY <2>1, SetImagesEffect DEF RestoreWorkers, RestoreService
    <3> QED
      BY <2>1, <3>1, <3>2 DEF RestoreWorkers, RestoreService, disk, nginx
  <2>2. CASE RestoreGunicorn
    <3>1. flags["gunicorn"]
      BY <2>2 DEF RestoreGunicorn, StopGunicorn, StartGunicorn, ControlInv, RestoreInv
    <3>2. image'[Workers] = image[Workers] /\ image'[Beat] = image[Beat]
      BY <2>2, SetImagesEffect DEF RestoreGunicorn, StopGunicorn, StartGunicorn
    <3> QED
      BY <2>2, <3>1, <3>2 DEF RestoreGunicorn, StopGunicorn, StartGunicorn, disk, nginx
  <2>3. CASE RollbackRemoves
    <3>1. \A c \in Services : image'[c] = image[c]
      BY <2>3 DEF RollbackRemoves, RemoveSlots, Containers
    <3> QED
      BY <2>3, <3>1 DEF RollbackRemoves, disk
  <2>4. CASE RollbackStarts \/ RestoreSmoke \/ RestoreDockerfile \/ RestoreUpstream
             \/ RestoreMarker \/ RestoreLineage
    BY <2>4 DEF RollbackStarts, RestoreSmoke, RestoreDockerfile, RestoreUpstream, FileInv,
       RestoreMarker, RestoreLineage, disk, docker, nginx
  <2>5. CASE RestoreStatic \/ RetagReference \/ VerifyRestored \/ FinalSmoke
             \/ RollbackDisarms \/ Record
    BY <2>5 DEF RestoreStatic, RetagReference, VerifyRestored, FinalSmoke, RollbackDisarms,
       Record, disk, docker, nginx
  <2> QED
    BY <1>4, <2>1, <2>2, <2>3, <2>4, <2>5 DEF Rollback
<1>5. CASE UNCHANGED vars
  BY <1>5 DEF vars, disk, docker, nginx
<1> QED
  BY <1>1, <1>2, <1>3, <1>4, <1>5, RollbackSteps

\* Before an attempt changes anything, and once it has nothing left to change, production
\* stands still.
Standing ==
    /\ \A c \in Services : image'[c] = image[c]
    /\ UNCHANGED <<reference, dockerfile, static, marker, upstream, loaded>>
    /\ lineage' = lineage \/ pc = "writeLineage"

StandingSet == {"idle", "validate", "capture", "writeLineage", "disarm", "cleanup",
                "rollback", "record"}

LEMMA ProductionStands ==
    ASSUME TypeOK, pc \in StandingSet, [Next]_vars
    PROVE  Standing
<1> USE DEF Step, Standing, StandingSet
<1> Prev \notin Services /\ Cand \notin Services
  BY ContainersDiffer
<1>1. CASE ReceiveArchive \/ Startup \/ Crash \/ UNCHANGED vars
  BY <1>1 DEF ReceiveArchive, Startup, RecoverPlan, DropStalePlan, Crash, vars, disk, docker,
     nginx
<1>2. CASE Stages
  <2>1. CASE Validate \/ Capture \/ WriteLineage \/ Disarm
    BY <2>1 DEF Validate, Capture, WriteLineage, Disarm, docker, nginx
  <2>2. CASE Cleanup
    BY <2>2 DEF Cleanup, RemoveSlots, Containers, disk
  <2> QED
    BY <1>2, <2>1, <2>2 DEF Stages, StartPreviousSlot, WriteDockerfile, Build, Backup,
       Migrate, CollectStatic, StartCandidateSlot, ReplaceWorkers, StopBeat, StartBeat,
       Stabilize, StopGunicorn, StartGunicorn, FinalHealth, WriteMarker, Publish
<1>3. ~PlanStages /\ ~WriteUpstream /\ ~StageReload /\ ~RollbackReload /\ ~RouteFails
  BY DEF PlanStages, SavePlan, WriteUpstream, RouteLabels, StageReload, RollbackReload,
     Reload, RouteFails, ReloadFails
<1>4. CASE Rollback
  BY <1>4 DEF Rollback, RollbackStarts, RestoreSmoke, RestoreDockerfile, RestoreUpstream,
     RestoreMarker, RestoreLineage, RestoreStatic, RetagReference, RestoreWorkers,
     RestoreService, RestoreGunicorn, StopGunicorn, StartGunicorn, VerifyRestored,
     FinalSmoke, RollbackRemoves, RollbackDisarms, Record, disk, docker, nginx
<1>5. CASE Failures
  <2>1. CASE StageFails \/ CaptureFails \/ LineageWriteFails \/ PlanStageFails \/ DisarmFails
    BY <2>1 DEF StageFails, CaptureFails, LineageWriteFails, PlanStageFails, SavePlanFails, DisarmFails,
       disk, docker, nginx
  <2>2. CASE CleanupFails
    <3>1. PICK removed \in SUBSET {Prev, Cand} : RemoveSlots(removed)
      BY <2>2 DEF CleanupFails
    <3>2. removed \cap Services = {}
      BY <3>1
    <3> QED
      BY <2>2, <3>1, <3>2 DEF CleanupFails, RemoveSlots, Containers, disk
  <2>3. CASE RestoreFails \/ FinalSmokeFails \/ RollbackEndFails \/ RecordFails
    BY <2>3 DEF RestoreFails, RestorationFails, FinalSmokeFails, RollbackEndFails,
       RecordFails, disk, docker, nginx
  <2> QED
    BY <1>3, <1>5, <2>1, <2>2, <2>3 DEF Failures
<1> QED
  BY <1>1, <1>2, <1>3, <1>4, <1>5 DEF Next, Receiver

\* The process keeps what it is and what it captured until its rollback ends.
LEMMA RollbackKeeps ==
    ASSUME pc \in RollbackLabels, [Next]_vars
    PROVE  \/ Exit /\ plan' = plan
           \/ /\ UNCHANGED <<bundle, flags, orig, baselines>>
              /\ plan' = plan \/ RollbackDisarms
              /\ pc' \in RollbackLabels
<1> USE DEF Step
<1>1. CASE Crash \/ RecordFails \/ Record
  BY <1>1 DEF Crash, RecordFails, Record, disk
<1>2. CASE WriteUpstream \/ RollbackReload \/ RouteFails
  BY <1>2, ChainLabels DEF WriteUpstream, RollbackReload, Reload, RouteFails, ReloadFails,
     RollbackLabels
<1>3. CASE RestoreFails \/ FinalSmokeFails \/ RollbackEndFails
  BY <1>3, ChainLabels DEF RestoreFails, RestorationFails, FinalSmokeFails, RollbackEndFails,
     disk, memory, RollbackLabels
<1>4. CASE Rollback /\ ~Record
  BY <1>4, ChainLabels DEF Rollback, RollbackStarts, RestoreSmoke, RestoreDockerfile,
     RestoreUpstream, RestoreMarker, RestoreLineage, RestoreStatic, RetagReference,
     RestoreWorkers, RestoreService, RestoreGunicorn, StopGunicorn, StartGunicorn,
     VerifyRestored, FinalSmoke, RollbackRemoves, RollbackDisarms, disk, memory,
     RollbackLabels
<1>5. CASE UNCHANGED vars
  BY <1>5 DEF vars, disk, memory
<1> QED
  BY <1>1, <1>2, <1>3, <1>4, <1>5, RollbackSteps

-----------------------------------------------------------------------------
(***************************************************************************)
(* What the rollback of an attempt that can be restored starts from: all   *)
(* that no flag covers is what was captured.  A recovery cannot verify a   *)
(* database that may have been migrated, and keeps its plan for a manual   *)
(* one.                                                                    *)
(***************************************************************************)

Clean(f, o) ==
    /\ ~f["workers"] => image[Workers] = o.image /\ image[Beat] = o.image
    /\ ~f["gunicorn"] => image[Gunicorn] = o.image
    /\ ~f["static"] => static = o.static
    /\ ~f["current"] => marker = o.marker /\ lineage = o.lineage
    /\ ~f["traffic"] => loaded = GunicornOnly /\ upstream = GunicornOnly

MayPass == baselines \/ (Prepared /\ ~flags["migration"])

CleanInv ==
    /\ pc \in RollbackLabels /\ MayPass => Clean(flags, orig)
    /\ plan # NoPlan /\ ~plan.flags["migration"] => Clean(NoFlags, plan.orig)

\* No flag of the later stages without the earlier ones.
LEMMA NoneTouched ==
    ASSUME NEW f, Ordered(f), NEW o, ~f["traffic"]
    PROVE  Clean(f, o) <=> Clean(NoFlags, o)
BY DEF Clean, Ordered, NoFlags, FlagNames

\* The stages write the plan ahead of what they touch.
LEMMA StageClean ==
    ASSUME ControlInv, StageInv, ~torn, pc \in CapturedSet
    PROVE  Clean(flags, orig)
<1>1. pc \in StageLabels
  BY DEF StageLabels
<1> QED
  BY <1>1 DEF ControlInv, StageFlags, StageInv, FilesAt, ServicesAt, TrafficAt, Clean

\* How a rollback is entered.
RollbackEntry ==
    \/ RecoverPlan \/ CaptureFails
    \/ /\ pc \in StageLabels /\ pc' = "rollback"
       /\ UNCHANGED <<plan, bundle, orig, baselines, failed, passed, image, static, marker>>
       /\ \A f \in FlagNames : flags[f] => flags'[f]
       /\ lineage' = lineage \/ flags'["current"]
       /\ (loaded' = loaded /\ upstream' = upstream) \/ flags'["traffic"]

LEMMA RollbackEntered ==
    ASSUME TypeOK, ControlInv, pc \notin RollbackLabels, pc' \in RollbackLabels, [Next]_vars
    PROVE  RollbackEntry
<1> USE DEF Step, RollbackEntry
<1>1. CASE ReceiveArchive \/ DropStalePlan \/ Crash \/ UNCHANGED vars
  BY <1>1 DEF ReceiveArchive, DropStalePlan, Crash, Exit, vars, RollbackLabels
<1>2. CASE Stages
  <2>1. Build
    BY <1>2 DEF Stages, Validate, Capture, StartPreviousSlot, WriteDockerfile, Backup,
       Migrate, CollectStatic, StartCandidateSlot, ReplaceWorkers, StopBeat, StartBeat,
       Stabilize, StopGunicorn, StartGunicorn, FinalHealth, WriteMarker, Publish,
       WriteLineage, Disarm, Cleanup, Exit, RollbackLabels
  <2> QED
    BY <2>1 DEF Build, nginx, memory, RollbackLabels, StageLabels
<1>3. CASE PlanStages \/ WriteUpstream \/ StageReload \/ RollbackReload \/ Rollback
  BY <1>3 DEF PlanStages, SavePlan, WriteUpstream, StageReload, RollbackReload, Reload,
     Rollback, RollbackStarts, RestoreSmoke, RestoreDockerfile, RestoreUpstream,
     RestoreMarker, RestoreLineage, RestoreStatic, RetagReference, RestoreWorkers,
     RestoreService, RestoreGunicorn, StopGunicorn, StartGunicorn, VerifyRestored, FinalSmoke,
     RollbackRemoves, RollbackDisarms, Record, RollbackLabels
<1>4. CASE Failures
  <2>1. CASE StageFails \/ CaptureFails
    BY <2>1 DEF StageFails, disk, docker, nginx
  <2>2. CASE LineageWriteFails
    <3>1. flags["current"]
      BY <2>2 DEF LineageWriteFails, ControlInv, StageFlags, StageLabels
    <3> QED
      BY <2>2, <3>1 DEF LineageWriteFails, docker, nginx, StageLabels
  <2>3. CASE PlanStageFails
    <3>1. PICK from \in PlanLabels, flag \in FlagNames : SavePlanFails(from, flag)
      BY <2>3 DEF PlanStageFails, FlagNames
    <3>2. \A f \in FlagNames : flags[f] => flags'[f]
      BY <3>1 DEF SavePlanFails, TypeOK, Flags
    <3> QED
      BY <3>1, <3>2 DEF SavePlanFails, disk, docker, nginx, StageLabels
  <2>4. CASE RouteFails
    <3>1. flags["traffic"]
      BY <2>4, RouteFlags DEF RouteFails, ReloadFails
    <3>2. pc \in StageRoutes /\ ReloadFails("rollback", failed, TRUE)
      BY <2>4 DEF RouteFails, RollbackLabels
    <3> QED
      BY <3>1, <3>2 DEF ReloadFails, docker, StageLabels
  <2>5. CASE DisarmFails \/ CleanupFails \/ RestoreFails \/ FinalSmokeFails
             \/ RollbackEndFails \/ RecordFails
    BY <2>5 DEF DisarmFails, CleanupFails, Exit, RestoreFails, RestorationFails,
       FinalSmokeFails, RollbackEndFails, RecordFails, RollbackLabels
  <2> QED
    BY <1>4, <2>1, <2>2, <2>3, <2>4, <2>5 DEF Failures
<1> QED
  BY <1>1, <1>2, <1>3, <1>4 DEF Next, Receiver, Startup

\* Outside the stages and the rollback the plan is created by the capture, or removed.
LEMMA StandingPlan ==
    ASSUME pc \in {"idle", "validate", "capture", "disarm", "cleanup"}, [Next]_vars
    PROVE  plan' \in {plan, NoPlan} \/ pc' \in CapturedSet
<1> USE DEF Step
<1>1. CASE ReceiveArchive \/ Startup \/ Crash \/ UNCHANGED vars
  BY <1>1 DEF ReceiveArchive, Startup, RecoverPlan, DropStalePlan, Crash, vars, disk
<1>2. CASE Stages
  BY <1>2 DEF Stages, Validate, Capture, StartPreviousSlot, WriteDockerfile, Build, Backup,
     Migrate, CollectStatic, StartCandidateSlot, ReplaceWorkers, StopBeat, StartBeat,
     Stabilize, StopGunicorn, StartGunicorn, FinalHealth, WriteMarker, Publish,
     WriteLineage, Disarm, Cleanup, disk
<1>3. CASE PlanStages \/ WriteUpstream \/ StageReload \/ RollbackReload
  BY <1>3 DEF PlanStages, SavePlan, WriteUpstream, StageReload, RollbackReload, Reload
<1>4. CASE Rollback
  BY <1>4 DEF Rollback, RollbackStarts, RestoreSmoke, RestoreDockerfile, RestoreUpstream,
     RestoreMarker, RestoreLineage, RestoreStatic, RetagReference, RestoreWorkers,
     RestoreService, RestoreGunicorn, StopGunicorn, StartGunicorn, VerifyRestored,
     FinalSmoke, RollbackRemoves, RollbackDisarms, Record
<1>5. CASE Failures
  BY <1>5 DEF Failures, StageFails, CaptureFails, LineageWriteFails, PlanStageFails, SavePlanFails,
     RouteFails, ReloadFails, DisarmFails, CleanupFails, RestoreFails, RestorationFails,
     FinalSmokeFails, RollbackEndFails, RecordFails, disk
<1> QED
  BY <1>1, <1>2, <1>3, <1>4, <1>5 DEF Next, Receiver

\* How the stages end.
LEMMA StagesEnd ==
    ASSUME TypeOK, ControlInv, pc \in CapturedSet, pc' \notin CapturedSet, [Next]_vars
    PROVE  pc = "writeLineage" \/ Crash \/ RollbackEntry
<1> USE DEF Step
<1>1. CASE ReceiveArchive \/ Startup \/ WriteUpstream \/ UNCHANGED vars
  BY <1>1 DEF ReceiveArchive, Startup, RecoverPlan, DropStalePlan, WriteUpstream, vars
<1>2. CASE Stages
  <2>1. pc = "writeLineage" \/ Build
    BY <1>2 DEF Stages, Validate, Capture, StartPreviousSlot, WriteDockerfile, Backup,
       Migrate, CollectStatic, StartCandidateSlot, ReplaceWorkers, StopBeat, StartBeat,
       Stabilize, StopGunicorn, StartGunicorn, FinalHealth, WriteMarker, Publish,
       WriteLineage, Disarm, Cleanup
  <2>2. CASE Build
    <3>1. pc' \in RollbackLabels /\ pc \notin RollbackLabels
      BY <2>2 DEF Build, RollbackLabels
    <3> QED
      BY <3>1, RollbackEntered
  <2> QED
    BY <2>1, <2>2
<1>3. CASE PlanStages
  BY <1>3 DEF PlanStages, SavePlan
<1>4. CASE StageReload
  BY <1>4 DEF StageReload, Reload
<1>5. CASE RollbackReload \/ Rollback
  BY <1>5 DEF RollbackReload, Reload,
     Rollback, RollbackStarts, RestoreSmoke, RestoreDockerfile, RestoreUpstream,
     RestoreMarker, RestoreLineage, RestoreStatic, RetagReference, RestoreWorkers,
     RestoreService, RestoreGunicorn, StopGunicorn, StartGunicorn, VerifyRestored, FinalSmoke,
     RollbackRemoves, RollbackDisarms, Record
<1>6. CASE Failures
  <2>1. pc' = "rollback" /\ pc \notin RollbackLabels
    BY <1>6 DEF Failures, StageFails, CaptureFails, LineageWriteFails, PlanStageFails, SavePlanFails,
       RouteFails, ReloadFails, DisarmFails, CleanupFails, Exit, RestoreFails,
       RestorationFails, FinalSmokeFails, RollbackEndFails, RecordFails, RollbackLabels
  <2> QED
    BY <2>1, RollbackEntered DEF RollbackLabels
<1> QED
  BY <1>1, <1>2, <1>3, <1>4, <1>5, <1>6 DEF Next, Receiver

\* A capture that raises leaves a rollback that can restore nothing and needs not.
LEMMA CaptureFailed ==
    ASSUME ControlInv, CaptureFails
    PROVE  ~MayPass' /\ ~Prepared' /\ plan' = NoPlan /\ plan = NoPlan
<1>1. pc = "capture" /\ baselines' = baselines /\ bundle' = bundle /\ plan' = plan
  BY DEF CaptureFails, Step, disk
<1>2. ~baselines /\ bundle.mode # "recovery" /\ plan = NoPlan
  BY <1>1 DEF ControlInv, ModeInv, RollbackLabels
<1> QED
  BY <1>1, <1>2 DEF MayPass, Prepared

\* The cleanup is the last statement of its invocation, and writes no plan.
LEMMA CleanupEnds ==
    ASSUME [Next]_vars
    PROVE  /\ pc = "cleanup" => Exit \/ pc' = "cleanup"
           /\ pc' = "cleanup" => plan' \in {plan, NoPlan}
<1> USE DEF Step
<1>1. CASE ReceiveArchive \/ Startup \/ Crash \/ UNCHANGED vars
  BY <1>1 DEF ReceiveArchive, Startup, RecoverPlan, DropStalePlan, Crash, vars, disk
<1>2. CASE Stages
  BY <1>2 DEF Stages, Validate, Capture, StartPreviousSlot, WriteDockerfile, Build, Backup,
     Migrate, CollectStatic, StartCandidateSlot, ReplaceWorkers, StopBeat, StartBeat,
     Stabilize, StopGunicorn, StartGunicorn, FinalHealth, WriteMarker, Publish,
     WriteLineage, Disarm, Cleanup, disk
<1>3. CASE PlanStages \/ WriteUpstream \/ StageReload \/ RollbackReload
  BY <1>3 DEF PlanStages, SavePlan, WriteUpstream, StageReload, RollbackReload, Reload, RouteLabels
<1>4. CASE Rollback
  BY <1>4 DEF Rollback, RollbackStarts, RestoreSmoke, RestoreDockerfile, RestoreUpstream,
     RestoreMarker, RestoreLineage, RestoreStatic, RetagReference, RestoreWorkers,
     RestoreService, RestoreGunicorn, StopGunicorn, StartGunicorn, VerifyRestored,
     FinalSmoke, RollbackRemoves, RollbackDisarms, Record, disk
<1>5. CASE Failures
  <2>1. CASE StageFails \/ CaptureFails \/ LineageWriteFails \/ PlanStageFails \/ DisarmFails
             \/ CleanupFails
    BY <2>1 DEF StageFails, CaptureFails, LineageWriteFails, PlanStageFails, SavePlanFails,
       DisarmFails, CleanupFails, StageLabels, disk
  <2>2. CASE RouteFails \/ RestoreFails \/ FinalSmokeFails \/ RollbackEndFails \/ RecordFails
    BY <2>2 DEF RouteFails, ReloadFails, RestoreFails, RestorationFails, FinalSmokeFails,
       RollbackEndFails, RecordFails, disk
  <2> QED
    BY <1>5, <2>1, <2>2 DEF Failures
<1> QED
  BY <1>1, <1>2, <1>3, <1>4, <1>5 DEF Next, Receiver

LEMMA CoherentStep ==
    ASSUME TypeOK, CoherentInv, [Next]_vars,
           pc = "capture" => \E v \in Versions : Installed(v)
    PROVE  CoherentInv'
<1>1. CaptureMoves
  BY FileStep
<1>2. Coherent(NoOriginals)
  BY DEF Coherent, NoOriginals
<1>3. Capture => Coherent(orig')
  BY DEF Capture, Step, Installed, Coherent, Services
<1>4. pc' # "cleanup" => Coherent(orig')
  BY <1>1, <1>2, <1>3, CleanupEnds DEF CaptureMoves, CoherentInv, Exit
<1> QED
  BY <1>1, <1>4, CleanupEnds DEF CaptureMoves, CoherentInv, Coherent

\* An attempt that can be restored enters its rollback, and goes through it, clean.
LEMMA CleanRollback ==
    ASSUME TypeOK, ControlInv, FileInv, StageInv, ~torn, CleanInv, [Next]_vars,
           pc' \in RollbackLabels, MayPass'
    PROVE  Clean(flags, orig)'
<1>1. CASE pc \in RollbackLabels
  <2>1. TouchesCovered /\ UNCHANGED <<bundle, flags, orig, baselines>>
    BY <1>1, RollbackTouches, RollbackKeeps DEF Exit, RollbackLabels
  <2>2. Clean(flags, orig)
    BY <1>1, <2>1 DEF CleanInv, MayPass, Prepared
  <2> QED
    BY <2>1, <2>2 DEF Clean, TouchesCovered
<1>2. CASE RecoverPlan
  <2>1. /\ plan # NoPlan /\ flags' = plan.flags /\ orig' = plan.orig /\ ~baselines
        /\ baselines' = baselines /\ pc = "idle"
        /\ UNCHANGED <<image, static, marker, lineage, loaded, upstream>>
    BY <1>2 DEF RecoverPlan, ControlInv, IdleInv, disk, docker, nginx
  <2>2. ~plan.flags["migration"]
    BY <2>1 DEF MayPass
  <2>3. Clean(plan.flags, plan.orig)
    BY <2>1, <2>2, NoneTouched DEF CleanInv, ControlInv, PlanInv, Ordered
  <2> QED
    BY <2>1, <2>3 DEF Clean
<1>3. CASE pc \notin RollbackLabels /\ ~RecoverPlan
  <2>1. /\ pc \in StageLabels
        /\ UNCHANGED <<bundle, orig, baselines, image, static, marker>>
        /\ \A f \in FlagNames : flags[f] => flags'[f]
        /\ lineage' = lineage \/ flags'["current"]
        /\ (loaded' = loaded /\ upstream' = upstream) \/ flags'["traffic"]
    BY <1>3, RollbackEntered, CaptureFailed DEF RollbackEntry
  <2>2. baselines
    BY <2>1, <1>3 DEF MayPass, Prepared, ControlInv, ModeInv
  <2>3. pc \in CapturedSet
    BY <2>1, <2>2 DEF ControlInv, ModeInv, StageLabels
  <2>4. Clean(flags, orig)
    BY <2>3, StageClean
  <2> QED
    BY <2>1, <2>4 DEF Clean, FlagNames
<1> QED
  BY <1>1, <1>2, <1>3

LEMMA CleanStep ==
    ASSUME TypeOK, ControlInv, ControlInv', FileInv, StageInv, StageInv', ~torn, ~torn',
           CleanInv, [Next]_vars
    PROVE  CleanInv'
<1>1. pc' \in RollbackLabels /\ MayPass' => Clean(flags, orig)'
  BY CleanRollback
<1>2. ASSUME plan' # NoPlan, ~plan'.flags["migration"]
      PROVE  Clean(NoFlags, plan.orig)'
  <2>1. ~NoFlags["migration"]
    BY DEF NoFlags, FlagNames
  <2>2. CASE pc' \in CapturedSet
    <3>1. pc' \in StageLabels /\ pc' \in CapturedSet /\ plan'.flags = flags' /\ plan'.orig = orig'
      BY <1>2, <2>2 DEF StageLabels, ControlInv, ModeInv, PlanInv
    <3>2. pc' \notin TrafficSet
      BY <1>2, <3>1 DEF ControlInv, StageFlags
    <3> QED
      BY <3>1, <3>2 DEF StageInv, FilesAt, ServicesAt, TrafficAt, Clean
  <2>3. CASE pc' \in RollbackLabels /\ pc \notin RollbackLabels /\ ~RecoverPlan
    <3>1. UNCHANGED <<plan, bundle, orig, baselines>> /\ pc \in StageLabels /\ pc' # "idle"
      BY <1>2, <2>3, RollbackEntered, CaptureFailed DEF RollbackEntry
    <3>2. baselines' /\ ~flags'["traffic"] /\ Ordered(flags') /\ plan'.orig = orig'
      BY <1>2, <2>3, <3>1 DEF ControlInv, ModeInv, PlanInv, StageLabels
    <3> QED
      BY <1>1, <2>3, <3>2 DEF MayPass, Clean, Ordered, NoFlags, FlagNames
  <2>4. CASE pc \in RollbackLabels
    <3>1. plan' = plan
      BY <1>2, <2>4, RollbackKeeps DEF RollbackDisarms
    <3>2. ~flags["traffic"] /\ Ordered(flags) /\ Clean(NoFlags, plan.orig)
      BY <1>2, <2>4, <3>1 DEF CleanInv, ControlInv, PlanInv, RollbackLabels
    <3> QED
      BY <2>4, <3>1, <3>2, RollbackTouches DEF TouchesCovered, Clean, Ordered, NoFlags, FlagNames
  <2>5. CASE pc \in CapturedSet /\ Crash
    <3>1. Clean(flags, orig) /\ plan.flags = flags /\ plan.orig = orig /\ plan' = plan
      BY <2>5, StageClean DEF ControlInv, ModeInv, PlanInv, Crash, disk
    <3>2. Clean(NoFlags, plan.orig)
      BY <1>2, <3>1, NoneTouched DEF ControlInv, PlanInv, Ordered
    <3> QED
      BY <2>5, <3>1, <3>2 DEF Crash, disk, docker, nginx, Clean
  <2>6. CASE pc = "writeLineage"
    <3>1. plan.flags["migration"] /\ flags["migration"]
      BY <2>6 DEF ControlInv, ModeInv, StageFlags, StageLabels
    <3>2. plan' # plan => plan'.flags["migration"]
      BY <1>2, <2>6, <3>1, IdentityStep, RouteStep DEF IdentityMoves, FlagMoves, FlagNames
    <3> QED
      BY <1>2, <3>1, <3>2
  <2>7. CASE RecoverPlan \/ pc \in {"idle", "validate", "capture", "disarm", "cleanup"}
    <3>1. pc \in StandingSet /\ pc # "writeLineage"
      BY <2>7 DEF StandingSet, RecoverPlan
    <3>2. Standing /\ lineage' = lineage
      BY <3>1, ProductionStands DEF Standing
    <3>3. plan' = plan \/ pc' \in CapturedSet
      BY <1>2, <2>7, StandingPlan DEF RecoverPlan
    <3>4. CASE plan' = plan
      BY <1>2, <3>2, <3>4 DEF CleanInv, Standing, Clean, Services
    <3> QED
      BY <2>2, <3>3, <3>4
  <2> QED
    BY <2>2, <2>3, <2>4, <2>5, <2>6, <2>7, StagesEnd
       DEF TypeOK, Labels, StageLabels, RollbackEntry, RollbackLabels, CaptureFails, Step
<1> QED
  BY <1>1, <1>2 DEF CleanInv

-----------------------------------------------------------------------------
(***************************************************************************)
(* The progress of a rollback: what each statement has behind it is back,  *)
(* unless a restoration has failed.                                        *)
(***************************************************************************)

EndSet        == {"rbFinal", "rbFinalSmoke", "rbRemove", "rbDisarm"}
VerdictSet    == {"rbReturn", "rbVerify"} \cup EndSet
LaterSet      == WorkerLabels \cup GunicornLabels \cup VerdictSet
StaticBack    == LaterSet \cup {"rbRetag"}
LineageBack   == StaticBack \cup {"rbStatic"}
MarkerBack    == LineageBack \cup {"rbLineage"}
DockerfileBack == MarkerBack \cup {"rbUpstream", "rbMarker"}

FilesBack ==
    /\ pc \in DockerfileBack => dockerfile = orig.image
    /\ pc \in MarkerBack => marker = orig.image
    /\ pc \in LineageBack => lineage = orig.lineage
    /\ pc \in StaticBack => static = orig.image
    /\ pc \in LaterSet => reference = orig.image

ServicesBack ==
    /\ pc \in {"rbStopBeat", "rbStartBeat"} => image[Workers] = orig.image
    /\ pc \in GunicornLabels \cup VerdictSet /\ "workers" \notin failed =>
           image[Workers] = orig.image /\ image[Beat] = orig.image
    /\ pc \in VerdictSet /\ "gunicorn" \notin failed => image[Gunicorn] = orig.image

RoutesBack == pc \in EndSet \ {"rbFinal"} => upstream = GunicornOnly /\ loaded = GunicornOnly

OnTrack == MayPass /\ "configuration" \notin failed

ProgressInv == (OnTrack => FilesBack /\ ServicesBack) /\ RoutesBack

USE DEF EndSet, VerdictSet, LaterSet, StaticBack, LineageBack, MarkerBack, DockerfileBack

\* What the chain passes over, no flag covers.
LEMMA ChainSkips ==
    ASSUME NEW f
    PROVE  /\ AfterConfiguration(f) \notin WorkerLabels => ~flags["workers"]
           /\ AfterConfiguration(f) \in VerdictSet => ~flags["gunicorn"]
           /\ AfterWorkers(f) \in VerdictSet => ~flags["gunicorn"]
           /\ Verdict(f) \in EndSet => f = {}
           /\ Verdict(f) \in {"record", "rbFinal", "rbRemove"}
           /\ Verdict(f) = "rbRemove" => ~flags["traffic"]
           /\ \A to \in {AfterConfiguration(f), AfterWorkers(f), AfterGunicorn(f), AfterReturn(f)} :
                /\ to \in VerdictSet \cup WorkerLabels \cup GunicornLabels \cup {"record"}
                /\ to \notin {"rbFinalSmoke", "rbDisarm"}
                /\ to \in EndSet => ~flags["traffic"] \/ to = "rbFinal"
           /\ AfterWorkers(f) \notin WorkerLabels
           /\ AfterGunicorn(f) \in VerdictSet \cup {"record"}
           /\ AfterReturn(f) \in VerdictSet \cup {"record"}
BY DEF AfterConfiguration, AfterWorkers, AfterGunicorn, AfterReturn, Verdict

\* Only what can be restored gets to the end of its rollback.
LEMMA EndMayPass ==
    ASSUME ControlInv, pc \in EndSet
    PROVE  OnTrack /\ failed = {}
BY DEF ControlInv, RestoreInv, ModeInv, MayPass, OnTrack, NeedsVerification, RollbackLabels

LEMMA FailedGrows ==
    ASSUME pc \in RollbackLabels, pc' \in RollbackLabels, [Next]_vars
    PROVE  failed \subseteq failed'
<1> USE DEF Step
<1>1. CASE Crash \/ RecordFails \/ Record
  BY <1>1 DEF Crash, RecordFails, Record, Exit, RollbackLabels
<1>2. CASE WriteUpstream \/ RollbackReload \/ RouteFails
  BY <1>2 DEF WriteUpstream, RollbackReload, Reload, RouteFails, ReloadFails
<1>3. CASE RestoreFails \/ FinalSmokeFails \/ RollbackEndFails
  BY <1>3 DEF RestoreFails, RestorationFails, FinalSmokeFails, RollbackEndFails, memory
<1>4. CASE Rollback /\ ~Record
  BY <1>4 DEF Rollback, RollbackStarts, RestoreSmoke, RestoreDockerfile,
     RestoreUpstream, RestoreMarker, RestoreLineage, RestoreStatic, RetagReference,
     RestoreWorkers, RestoreService, RestoreGunicorn, StopGunicorn, StartGunicorn,
     VerifyRestored, FinalSmoke, RollbackRemoves, RollbackDisarms, memory
<1>5. CASE UNCHANGED vars
  BY <1>5 DEF vars, memory
<1> QED
  BY <1>1, <1>2, <1>3, <1>4, <1>5, RollbackSteps

LEMMA ProgressStep ==
    ASSUME TypeOK, ControlInv, ControlInv', FileInv, LoadedInv, LoadedInv',
           StageInv, CoherentInv, CoherentInv', CleanInv, CleanInv', ProgressInv, [Next]_vars
    PROVE  ProgressInv'
<1> USE DEF Step
<1> /\ Workers \in Containers /\ Beat \in Containers /\ Gunicorn \in Containers
    /\ Workers # Beat /\ Workers # Gunicorn /\ Beat # Gunicorn
    /\ Prev \notin Services /\ Cand \notin Services
    /\ Workers \in Services /\ Beat \in Services /\ Gunicorn \in Services
  BY ContainerTypes, ContainersDiffer DEF TypeOK, Services
<1>1. CASE pc' \notin DockerfileBack
  BY <1>1 DEF ProgressInv, FilesBack, ServicesBack, RoutesBack
<1>2. ASSUME pc' \in DockerfileBack PROVE pc' \in RollbackLabels /\ pc' # "rollback"
  BY <1>2 DEF RollbackLabels
<1>3. ASSUME pc' \in DockerfileBack PROVE pc \in RollbackLabels
  BY <1>2, <1>3, RollbackEntered DEF RollbackEntry, RecoverPlan, CaptureFails
<1> SUFFICES ASSUME pc' \in DockerfileBack PROVE ProgressInv'
  BY <1>1
<1>4. UNCHANGED <<bundle, flags, orig, baselines>>
  BY <1>2, <1>3, RollbackKeeps DEF Exit, RollbackLabels
<1>5. /\ failed \subseteq failed' /\ Coherent(orig) /\ Coherent(orig')
      /\ MayPass' => MayPass /\ Clean(flags, orig)'
  <2>1. pc # "cleanup" /\ pc' # "cleanup"
    BY <1>2, <1>3 DEF RollbackLabels
  <2> QED
    BY <1>2, <1>3, <1>4, <2>1, FailedGrows DEF CoherentInv, CleanInv, MayPass, Prepared
<1>6. pc' \in EndSet => MayPass'
  BY DEF ControlInv, RestoreInv, ModeInv, MayPass, NeedsVerification, RollbackLabels
<1>7. OnTrack' => OnTrack /\ Clean(flags, orig)' /\ FilesBack /\ ServicesBack
  BY <1>5 DEF OnTrack, ProgressInv
<1>8. pc' = "rbRemove" /\ ~flags["traffic"] => RoutesBack'
  BY <1>4, <1>5, <1>6 DEF Clean, RoutesBack
\* What leaves the files and the services alone and passes over what no flag covers.
<1>9. ASSUME UNCHANGED <<dockerfile, marker, lineage, static, reference, image>>,
             pc \in DockerfileBack => pc' \in DockerfileBack,
             pc \in VerdictSet, pc' \in VerdictSet
      PROVE  OnTrack' => FilesBack' /\ ServicesBack'
  BY <1>4, <1>5, <1>7, <1>9 DEF FilesBack, ServicesBack
<1>10. CASE WriteUpstream
  BY <1>7, <1>10 DEF WriteUpstream, RouteLabels, docker, nginx, ProgressInv, FilesBack,
     ServicesBack, RoutesBack
<1>11. CASE RollbackReload
  <2>1. CASE Reload("rbReturn", AfterReturn(failed))
    <3>1. /\ pc = "rbReturn" /\ pc' \in VerdictSet /\ flags["traffic"]
          /\ UNCHANGED <<dockerfile, marker, lineage, static, reference, image>>
      BY <2>1, ChainSkips DEF Reload, docker, ControlInv, RestoreInv
    <3>2. pc' \notin EndSet \ {"rbFinal"}
      BY <2>1, <3>1, ChainSkips DEF Reload
    <3> QED
      BY <1>9, <3>1, <3>2 DEF ProgressInv, RoutesBack
  <2>2. CASE Reload("rbFinal", "rbFinalSmoke")
    <3>1. /\ pc = "rbFinal" /\ pc' = "rbFinalSmoke" /\ upstream' = upstream
          /\ upstream = TargetRoute
          /\ UNCHANGED <<dockerfile, marker, lineage, static, reference, image>>
      BY <2>2 DEF Reload, docker, FileInv
    <3>2. upstream' = GunicornOnly /\ loaded' = GunicornOnly
      BY <3>1 DEF TargetRoute, LoadedInv, FinalSet
    <3> QED
      BY <1>9, <3>1, <3>2 DEF ProgressInv, RoutesBack
  <2> QED
    BY <1>11, <2>1, <2>2 DEF RollbackReload, Reload
<1>12. CASE RouteFails
  <2>1. /\ pc = "rbReturn" /\ pc' = AfterReturn(failed \cup {"route"})
    BY <1>12 DEF RouteFails, ReloadFails, RollbackLabels
  <2> QED
    BY <2>1 DEF AfterReturn, Verdict
<1>13. CASE RestoreFails
  <2>1. CASE RestorationFails({"rbSmoke"}, "smoke", FALSE, "rbDockerfile")
    BY <2>1 DEF RestorationFails
  <2>2. CASE RestorationFails(ConfigurationLabels, "configuration",
                        pc = "rbStatic" /\ flags["static"] /\ ~StaticWriter,
                        AfterConfiguration(failed \cup {"configuration"}))
    <3>1. ~OnTrack'
      BY <2>2 DEF RestorationFails, OnTrack
    <3> QED
      BY <1>6, <2>2, <3>1, ChainSkips DEF ProgressInv, RoutesBack, OnTrack, ControlInv,
         RestoreInv, RestorationFails
  <2>3. CASE RestorationFails(WorkerLabels, "workers", FALSE,
                        AfterWorkers(failed \cup {"workers"}))
    <3>1. /\ pc \in WorkerLabels /\ pc' = AfterWorkers(failed')
          /\ failed' = failed \cup {"workers"}
          /\ UNCHANGED <<dockerfile, marker, lineage, static, reference, image>>
      BY <2>3 DEF RestorationFails, disk, docker
    <3>2. /\ pc' \notin WorkerLabels \cup EndSet
          /\ pc' \in VerdictSet => ~flags["gunicorn"]
      BY <1>6, <3>1, ChainSkips DEF ControlInv, RestoreInv
    <3>3. OnTrack' => FilesBack' /\ ServicesBack'
      BY <1>4, <1>5, <1>7, <3>1, <3>2 DEF FilesBack, ServicesBack, Clean
    <3> QED
      BY <3>2, <3>3 DEF ProgressInv, RoutesBack
  <2>4. CASE RestorationFails(GunicornLabels, "gunicorn", FALSE,
                        AfterGunicorn(failed \cup {"gunicorn"}))
    <3>1. /\ pc \in GunicornLabels /\ pc' = AfterGunicorn(failed')
          /\ failed' = failed \cup {"gunicorn"}
          /\ UNCHANGED <<dockerfile, marker, lineage, static, reference, image>>
      BY <2>4 DEF RestorationFails, disk, docker
    <3>2. pc' \in VerdictSet \ EndSet
      BY <3>1, ChainSkips DEF ControlInv, RestoreInv
    <3>3. OnTrack' => FilesBack' /\ ServicesBack'
      BY <1>4, <1>5, <1>7, <3>1, <3>2 DEF FilesBack, ServicesBack, Clean
    <3> QED
      BY <3>2, <3>3 DEF ProgressInv, RoutesBack
  <2>5. CASE RestorationFails({"rbVerify"}, "verification", ~Restored,
                        Verdict(failed \cup {"verification"}))
    BY <2>5 DEF RestorationFails, Verdict
  <2> QED
    BY <1>13, <2>1, <2>2, <2>3, <2>4, <2>5 DEF RestoreFails
<1>14. CASE FinalSmokeFails \/ RollbackEndFails
  BY <1>14 DEF FinalSmokeFails, RollbackEndFails
<1>15. CASE RollbackStarts \/ RestoreSmoke \/ RestoreDockerfile \/ RestoreUpstream
            \/ RestoreMarker \/ RestoreLineage
  <2>1. pc' \notin LaterSet \cup {"rbRetag"}
    BY <1>15 DEF RollbackStarts, RestoreSmoke, RestoreDockerfile, RestoreUpstream,
       RestoreMarker, RestoreLineage
  <2> QED
    BY <1>4, <1>5, <1>7, <1>15, <2>1 DEF RollbackStarts, RestoreSmoke, RestoreDockerfile,
       RestoreUpstream, RestoreMarker, RestoreLineage, FilesBack, ServicesBack, RoutesBack,
       ProgressInv, Clean, Coherent, docker
<1>16. CASE RestoreStatic
  BY <1>4, <1>5, <1>7, <1>16 DEF RestoreStatic, FilesBack, ServicesBack, RoutesBack,
     ProgressInv, Clean, Coherent, disk
<1>17. CASE RetagReference
  <2>1. /\ pc = "rbRetag" /\ pc' = AfterConfiguration(failed) /\ reference' = orig.image
        /\ failed' = failed
        /\ UNCHANGED <<dockerfile, marker, lineage, static, image>>
    BY <1>17 DEF RetagReference, disk, memory
  <2>2. /\ pc' \in WorkerLabels => pc' = "rbWorkers"
        /\ pc' \notin WorkerLabels => ~flags["workers"]
        /\ pc' \in VerdictSet => ~flags["gunicorn"]
        /\ pc' \notin EndSet \ {"rbFinal", "rbRemove"}
        /\ pc' = "rbRemove" => ~flags["traffic"]
    BY <2>1, ChainSkips, ChainReaches
  <2>3. OnTrack' => FilesBack'
    BY <1>4, <1>5, <1>7, <2>1 DEF FilesBack
  <2>4. OnTrack' => ServicesBack'
    BY <1>4, <1>5, <1>7, <2>1, <2>2 DEF ServicesBack, Clean
  <2>5. RoutesBack'
    BY <1>8, <2>2 DEF RoutesBack
  <2> QED
    BY <2>3, <2>4, <2>5 DEF ProgressInv
<1>18. CASE RestoreWorkers
  <2>1. /\ pc \in WorkerLabels /\ flags["workers"] /\ failed' = failed
        /\ UNCHANGED <<dockerfile, marker, lineage, static, reference>>
    BY <1>18 DEF RestoreWorkers, RestoreService, disk, memory, ControlInv, RestoreInv
  <2>2. CASE RestoreService("rbWorkers", "rbStopBeat", Workers, reference)
    <3>1. image'[Workers] = reference /\ pc = "rbWorkers" /\ pc' = "rbStopBeat"
      BY <2>2, SetImagesEffect DEF RestoreService
    <3> QED
      BY <1>4, <1>5, <1>7, <2>1, <3>1 DEF FilesBack, ServicesBack, RoutesBack, ProgressInv
  <2>3. CASE RestoreService("rbStopBeat", "rbStartBeat", Beat, Down)
    <3>1. image'[Workers] = image[Workers] /\ pc = "rbStopBeat" /\ pc' = "rbStartBeat"
      BY <2>3, SetImagesEffect DEF RestoreService
    <3> QED
      BY <1>4, <1>5, <1>7, <2>1, <3>1 DEF FilesBack, ServicesBack, RoutesBack, ProgressInv
  <2>4. CASE RestoreService("rbStartBeat", AfterWorkers(failed), Beat, reference)
    <3>1. /\ image'[Beat] = reference /\ image'[Workers] = image[Workers]
          /\ image'[Gunicorn] = image[Gunicorn]
          /\ pc = "rbStartBeat" /\ pc' = AfterWorkers(failed)
      BY <2>4, SetImagesEffect DEF RestoreService
    <3>2. /\ pc' \notin WorkerLabels
          /\ pc' \in VerdictSet => ~flags["gunicorn"]
          /\ pc' \notin EndSet \ {"rbFinal", "rbRemove"}
          /\ pc' = "rbRemove" => ~flags["traffic"]
      BY <3>1, ChainSkips
    <3>3. OnTrack' => FilesBack'
      BY <1>4, <1>5, <1>7, <2>1, <3>1 DEF FilesBack
    <3>4. OnTrack' => ServicesBack'
      BY <1>4, <1>5, <1>7, <2>1, <3>1, <3>2 DEF FilesBack, ServicesBack, Clean
    <3>5. RoutesBack'
      BY <1>8, <3>2 DEF RoutesBack
    <3> QED
      BY <3>3, <3>4, <3>5 DEF ProgressInv
  <2> QED
    BY <1>18, <2>2, <2>3, <2>4 DEF RestoreWorkers
<1>19. CASE RestoreGunicorn
  <2>1. /\ pc \in GunicornLabels /\ failed' = failed
        /\ UNCHANGED <<dockerfile, marker, lineage, static, reference>>
        /\ image'[Workers] = image[Workers] /\ image'[Beat] = image[Beat]
    BY <1>19, SetImagesEffect DEF RestoreGunicorn, StopGunicorn, StartGunicorn, disk, memory
  <2>2. CASE StopGunicorn("rbStopGunicorn", "rbStartGunicorn")
    <3>1. pc = "rbStopGunicorn" /\ pc' = "rbStartGunicorn"
      BY <2>2 DEF StopGunicorn
    <3> QED
      BY <1>4, <1>5, <1>7, <2>1, <3>1 DEF FilesBack, ServicesBack, RoutesBack, ProgressInv
  <2>3. CASE StartGunicorn("rbStartGunicorn", AfterGunicorn(failed))
    <3>1. image'[Gunicorn] = reference /\ pc' = AfterGunicorn(failed)
      BY <2>3, SetImagesEffect DEF StartGunicorn
    <3>2. /\ pc' \in VerdictSet
          /\ pc' \notin EndSet \ {"rbFinal", "rbRemove"}
          /\ pc' = "rbRemove" => ~flags["traffic"]
      BY <3>1, ChainSkips
    <3>3. OnTrack' => FilesBack' /\ ServicesBack'
      BY <1>4, <1>5, <1>7, <2>1, <3>1, <3>2 DEF FilesBack, ServicesBack
    <3>4. RoutesBack'
      BY <1>8, <3>2 DEF RoutesBack
    <3> QED
      BY <3>3, <3>4 DEF ProgressInv
  <2> QED
    BY <1>19, <2>2, <2>3 DEF RestoreGunicorn
<1>20. CASE VerifyRestored
  <2>1. /\ pc = "rbVerify" /\ pc' = Verdict(failed)
        /\ UNCHANGED <<dockerfile, marker, lineage, static, reference, image>>
    BY <1>20 DEF VerifyRestored, disk, docker
  <2>2. /\ pc' \in VerdictSet
        /\ pc' \notin EndSet \ {"rbFinal", "rbRemove"}
        /\ pc' = "rbRemove" => ~flags["traffic"]
    BY <2>1, ChainSkips
  <2> QED
    BY <1>8, <1>9, <2>1, <2>2 DEF ProgressInv, RoutesBack
<1>21. CASE FinalSmoke
  <2>1. /\ pc = "rbFinalSmoke" /\ pc' = "rbRemove" /\ upstream' = upstream /\ loaded' = loaded
        /\ UNCHANGED <<dockerfile, marker, lineage, static, reference, image>>
    BY <1>21 DEF FinalSmoke, disk, docker, nginx
  <2> QED
    BY <1>9, <2>1 DEF ProgressInv, RoutesBack
<1>22. CASE RollbackRemoves
  <2>1. /\ pc = "rbRemove" /\ pc' = "rbDisarm" /\ upstream' = upstream /\ loaded' = loaded
        /\ failed' = failed
        /\ UNCHANGED <<dockerfile, marker, lineage, static, reference>>
    BY <1>22 DEF RollbackRemoves, disk, memory
  <2>2. \A c \in Services : image'[c] = image[c]
    BY <1>22 DEF RollbackRemoves, RemoveSlots, Containers
  <2> QED
    BY <1>4, <1>5, <1>7, <2>1, <2>2 DEF ProgressInv, RoutesBack, FilesBack, ServicesBack
<1>23. CASE RollbackDisarms
  BY <1>23 DEF RollbackDisarms
<1>24. CASE Crash \/ Record \/ RecordFails
  BY <1>2, <1>24 DEF Crash, Record, RecordFails, Exit, RollbackLabels
<1>25. CASE UNCHANGED vars
  BY <1>7, <1>25 DEF vars, disk, docker, nginx, memory, ProgressInv, FilesBack, ServicesBack,
     RoutesBack
<1> QED
  BY <1>3, <1>10, <1>11, <1>12, <1>13, <1>14, <1>15, <1>16, <1>17, <1>18, <1>19, <1>20,
     <1>21, <1>22, <1>23, <1>24, <1>25, RollbackSteps DEF Rollback

-----------------------------------------------------------------------------
(***************************************************************************)
(* The attempt that runs, and the one whose plan is kept, are the latest.  *)
(***************************************************************************)

Latest(a) == \A b \in Attempts : b > a => journal[b].result = "absent"

LatestInv ==
    /\ \A a, b \in Attempts : a < b /\ journal[a].result = "absent" => journal[b].result = "absent"
    /\ pc # "idle" => Latest(bundle.attempt)
    /\ plan # NoPlan => Latest(plan.attempt)

\* Only the arrival of an archive adds an entry.
LEMMA EntriesArrive ==
    ASSUME TypeOK, KnownInv, [Next]_vars, ~ReceiveArchive
    PROVE  \A a \in Attempts : journal'[a].result = "absent" <=> journal[a].result = "absent"
<1>1. JournalMoves
  BY IdentityStep
<1>2. CASE journal' = journal
  BY <1>2
<1>3. ASSUME NEW s \in JournalStates, Advance(s)
      PROVE  \A a \in Attempts : journal'[a].result = journal[a].result
  BY <1>3, AdvanceEffect
<1>4. CASE Publish
  <2>1. journal[bundle.attempt].result # "absent"
    BY <1>4 DEF Publish, Step, KnownInv
  <2> QED
    BY <1>4, <2>1 DEF Publish, Entry, TypeOK
<1>5. CASE Record
  <2>1. Outcome.result # "absent" /\ journal[bundle.attempt].result # "absent"
    BY <1>5 DEF Outcome, Entry, Record, KnownInv
  <2> QED
    BY <1>5, <2>1 DEF Record, TypeOK
<1> QED
  BY <1>1, <1>2, <1>3, <1>4, <1>5 DEF JournalMoves

LEMMA LatestStep ==
    ASSUME TypeOK, KnownInv, LatestInv, [Next]_vars
    PROVE  LatestInv'
<1>1. CASE ReceiveArchive
  <2>1. PICK b \in Bundles :
          /\ Fresh(b.attempt) /\ bundle' = b
          /\ journal' = [journal EXCEPT ![b.attempt] =
                Entry("none", "running", "none", b.version)]
    BY <1>1 DEF ReceiveArchive
  <2> DEFINE n == b.attempt
  <2>2. n \in Attempts /\ plan' = NoPlan
    BY <1>1 DEF Bundles, ReceiveArchive
  <2>3. /\ journal'[n].result = "running"
        /\ \A a \in Attempts : a # n => journal'[a] = journal[a]
    BY <2>1, <2>2 DEF TypeOK, Entry
  <2>4. /\ journal[n].result = "absent"
        /\ \A a \in Attempts : a < n => journal[a].result # "absent"
    BY <2>1, <2>2 DEF Fresh, Attempts
  <2> HIDE DEF n
  <2>5. \A a, c \in Attempts : a < c /\ journal'[a].result = "absent" => journal'[c].result = "absent"
    BY <2>3, <2>4 DEF LatestInv, Attempts
  <2>6. \A c \in Attempts : c > n => journal'[c].result = "absent"
    BY <2>2, <2>3, <2>4 DEF LatestInv, Attempts
  <2> QED
    BY <2>1, <2>2, <2>5, <2>6 DEF LatestInv, Latest, n
<1>2. CASE ~ReceiveArchive
  <2>1. \A a \in Attempts : journal'[a].result = "absent" <=> journal[a].result = "absent"
    BY <1>2, EntriesArrive
  <2>2. bundle.attempt \in Attempts /\ (plan # NoPlan => plan.attempt \in Attempts)
    BY DEF TypeOK, Bundles, Plans
  <2>3. \A a \in Attempts : Latest(a) => Latest(a)'
    BY <2>1 DEF Latest
  <2>4. pc' # "idle" => Latest(bundle.attempt)'
    <3>1. CASE RecoverPlan
      BY <2>1, <3>1 DEF RecoverPlan, Bundle, LatestInv, Latest
    <3>2. CASE pc # "idle" /\ bundle' = bundle
      BY <2>1, <3>2 DEF LatestInv, Latest
    <3> QED
      BY <1>2, <3>1, <3>2, IdentityStep DEF IdentityMoves
  <2>5. plan' # NoPlan => Latest(plan.attempt)'
    BY <2>1, <2>2, IdentityStep DEF IdentityMoves, LatestInv, Latest
  <2> QED
    BY <2>1, <2>4, <2>5 DEF LatestInv
<1> QED
  BY <1>1, <1>2

-----------------------------------------------------------------------------
(***************************************************************************)
(* The commit, and the one way an attempt goes into its rollback with its  *)
(* success on record: current.json could not be written after it.          *)
(***************************************************************************)

CommitInv ==
    /\ pc \in StageLabels \ {"writeLineage"} => journal[bundle.attempt].result # "success"
    /\ pc \in {"writeLineage", "disarm", "cleanup"} =>
           /\ VerifiedAttempt(bundle.attempt) /\ bundle.mode = "deploy"
           /\ journal[bundle.attempt].version = bundle.version
    /\ bundle.mode = "recovery" => ~VerifiedAttempt(bundle.attempt)

FailedCommit ==
    pc \in RollbackLabels /\ bundle.mode # "recovery" /\ VerifiedAttempt(bundle.attempt)

UndoneInv ==
    /\ \A a \in undone : VerifiedAttempt(a)
    /\ FailedCommit => bundle.attempt \in undone
    /\ pc \in StageLabels \cup {"disarm", "cleanup"} => bundle.attempt \notin undone

\* Where the statements after the commit are reached from.
LEMMA CommitReached ==
    ASSUME pc' \in {"writeLineage", "disarm", "cleanup"}, [Next]_vars
    PROVE  Publish \/ (pc \in {"writeLineage", "disarm", "cleanup"} /\ UNCHANGED <<bundle, journal>>)
<1> USE DEF Step
<1>1. CASE ReceiveArchive \/ Startup \/ Crash \/ UNCHANGED vars
  BY <1>1 DEF ReceiveArchive, Startup, RecoverPlan, DropStalePlan, Crash, Exit, vars, disk,
     memory
<1>2. CASE Stages
  BY <1>2 DEF Stages, Validate, Capture, StartPreviousSlot, WriteDockerfile, Build, Backup,
     Migrate, CollectStatic, StartCandidateSlot, ReplaceWorkers, StopBeat, StartBeat,
     Stabilize, StopGunicorn, StartGunicorn, FinalHealth, WriteMarker, WriteLineage, Disarm,
     Cleanup, Exit, memory
<1>3. CASE PlanStages \/ StageReload
  BY <1>3 DEF PlanStages, SavePlan, StageReload, Reload
<1>4. CASE WriteUpstream
  BY <1>4 DEF WriteUpstream, RouteLabels
<1>5. CASE RollbackReload \/ Rollback
  <2>1. pc \in RollbackLabels
    BY <1>5 DEF RollbackReload, Reload, Rollback, RollbackStarts, RestoreSmoke,
       RestoreDockerfile, RestoreUpstream, RestoreMarker, RestoreLineage, RestoreStatic,
       RetagReference, RestoreWorkers, RestoreService, RestoreGunicorn, StopGunicorn,
       StartGunicorn, VerifyRestored, FinalSmoke, RollbackRemoves, RollbackDisarms, Record,
       RollbackLabels
  <2> QED
    BY <2>1, RollbackKeeps DEF Exit, RollbackLabels
<1>6. CASE Failures
  BY <1>6, ChainLabels DEF Failures, StageFails, CaptureFails, LineageWriteFails, PlanStageFails,
     SavePlanFails, RouteFails, ReloadFails, DisarmFails, CleanupFails, Exit, RestoreFails,
     RestorationFails, FinalSmokeFails, RollbackEndFails, RecordFails, disk, memory,
     RollbackLabels
<1> QED
  BY <1>1, <1>2, <1>3, <1>4, <1>5, <1>6 DEF Next, Receiver

LEMMA StagesReached ==
    ASSUME pc' \in StageLabels, [Next]_vars
    PROVE  ReceiveArchive \/ (pc \in StageLabels /\ (pc = "writeLineage" => pc' = pc))
<1> USE DEF Step, StageLabels
<1>1. CASE Startup \/ Crash \/ WriteUpstream \/ UNCHANGED vars
  BY <1>1 DEF Startup, RecoverPlan, DropStalePlan, Crash, Exit, WriteUpstream, vars
<1>2. CASE Stages
  BY <1>2 DEF Stages, Validate, Capture, StartPreviousSlot, WriteDockerfile, Build, Backup,
     Migrate, CollectStatic, StartCandidateSlot, ReplaceWorkers, StopBeat, StartBeat,
     Stabilize, StopGunicorn, StartGunicorn, FinalHealth, WriteMarker, Publish, WriteLineage,
     Disarm, Cleanup, Exit
<1>3. CASE PlanStages \/ StageReload
  BY <1>3 DEF PlanStages, SavePlan, StageReload, Reload
<1>4. CASE RollbackReload \/ Rollback
  <2>1. pc \in RollbackLabels
    BY <1>4 DEF RollbackReload, Reload, Rollback, RollbackStarts, RestoreSmoke,
       RestoreDockerfile, RestoreUpstream, RestoreMarker, RestoreLineage, RestoreStatic,
       RetagReference, RestoreWorkers, RestoreService, RestoreGunicorn, StopGunicorn,
       StartGunicorn, VerifyRestored, FinalSmoke, RollbackRemoves, RollbackDisarms, Record,
       RollbackLabels
  <2> QED
    BY <2>1, RollbackKeeps DEF Exit, RollbackLabels
<1>5. CASE Failures
  <2>1. CASE StageFails \/ CaptureFails \/ LineageWriteFails \/ PlanStageFails \/ RouteFails
    BY <2>1, ChainLabels DEF StageFails, CaptureFails, LineageWriteFails, PlanStageFails, SavePlanFails,
       RouteFails, ReloadFails, RollbackLabels
  <2>2. CASE DisarmFails \/ CleanupFails \/ RestoreFails
    BY <2>2, RestoreFailsStays DEF DisarmFails, CleanupFails, Exit, RollbackLabels
  <2>3. CASE FinalSmokeFails \/ RollbackEndFails \/ RecordFails
    BY <2>3, ChainLabels DEF FinalSmokeFails, RollbackEndFails, RecordFails, Exit,
       RollbackLabels
  <2> QED
    BY <1>5, <2>1, <2>2, <2>3 DEF Failures
<1> QED
  BY <1>1, <1>2, <1>3, <1>4, <1>5 DEF Next, Receiver

LEMMA CommitStep ==
    ASSUME TypeOK, AttemptInv, ControlInv, ControlInv', CommitInv, [Next]_vars
    PROVE  CommitInv'
<1>1. IdentityMoves /\ JournalMoves
  BY IdentityStep
<1>2. bundle.attempt \in Attempts
  BY DEF TypeOK, Bundles
<1>3. ASSUME pc' \in StageLabels \ {"writeLineage"}
      PROVE  journal'[bundle'.attempt].result # "success"
  <2>1. CASE ReceiveArchive
    BY <2>1 DEF ReceiveArchive, TypeOK, Bundles, Entry
  <2>2. CASE ~ReceiveArchive
    <3>1. /\ pc \in StageLabels \ {"writeLineage"} /\ ~Publish /\ pc # "idle" /\ pc' # "idle"
          /\ ~Record /\ ~RecoverPlan
      BY <1>3, <2>2, StagesReached DEF Publish, Record, RecoverPlan, Step, StageLabels
    <3>2. bundle' = bundle /\ journal[bundle.attempt].result # "success"
      BY <1>1, <2>2, <3>1 DEF IdentityMoves, CommitInv
    <3> QED
      BY <1>1, <1>2, <2>2, <3>1, <3>2, AdvanceEffect DEF JournalMoves
  <2> QED
    BY <2>1, <2>2
<1>4. ASSUME pc' \in {"writeLineage", "disarm", "cleanup"}
      PROVE  /\ VerifiedAttempt(bundle.attempt)' /\ bundle'.mode = "deploy"
             /\ journal'[bundle'.attempt].version = bundle'.version
  <2>1. CASE Publish
    <3>1. /\ bundle' = bundle /\ pc = "publish"
          /\ journal'[bundle.attempt].state = journal[bundle.attempt].state
          /\ journal'[bundle.attempt].version = journal[bundle.attempt].version
          /\ journal'[bundle.attempt].result = "success"
      BY <1>2, <2>1 DEF Publish, Step, memory, Entry, TypeOK
    <3>2. /\ journal[bundle.attempt].state = "verified" /\ bundle.mode = "deploy"
          /\ journal[bundle.attempt].version = bundle.version
      BY <3>1 DEF AttemptInv, StageLabels, DeployLabels, TypeOK, Bundles
    <3> QED
      BY <3>1, <3>2 DEF VerifiedAttempt
  <2>2. CASE pc \in {"writeLineage", "disarm", "cleanup"} /\ UNCHANGED <<bundle, journal>>
    BY <2>2 DEF CommitInv, VerifiedAttempt
  <2> QED
    BY <1>4, <2>1, <2>2, CommitReached
<1>5. ASSUME bundle'.mode = "recovery" PROVE ~VerifiedAttempt(bundle.attempt)'
  <2>1. CASE RecoverPlan
    BY <2>1 DEF RecoverPlan, Bundle, disk, VerifiedAttempt
  <2>2. CASE ~RecoverPlan
    <3>1. pc' # "idle" /\ ~ReceiveArchive
      BY <1>5 DEF ControlInv, IdleInv, NoBundle, Bundle, ReceiveArchive
    <3>2. bundle' = bundle /\ pc # "idle"
      BY <1>1, <2>2, <3>1 DEF IdentityMoves
    <3>3. pc \in RollbackLabels
      BY <1>5, <3>2 DEF ControlInv, ModeInv
    <3>4. journal' = journal
      BY <1>1, <1>5, <3>1, <3>2, <3>3 DEF JournalMoves, Advance, Publish, Record, Step,
         RollbackLabels
    <3> QED
      BY <1>5, <3>2, <3>4 DEF CommitInv, VerifiedAttempt
  <2> QED
    BY <2>1, <2>2
<1> QED
  BY <1>3, <1>4, <1>5 DEF CommitInv

\* The statements that write the history.
HistoryMoves ==
    /\ undone' = undone \/ LineageWriteFails \/ Record
    /\ torn' = torn \/ DropStalePlan \/ Disarm

LEMMA HistoryStep ==
    ASSUME [Next]_vars
    PROVE  HistoryMoves
<1> USE DEF HistoryMoves
<1>1. CASE ReceiveArchive \/ Startup \/ Crash \/ UNCHANGED vars
  BY <1>1 DEF ReceiveArchive, Startup, RecoverPlan, DropStalePlan, Crash, vars
<1>2. CASE Stages
  BY <1>2 DEF Stages, Validate, Capture, StartPreviousSlot, WriteDockerfile, Build, Backup,
     Migrate, CollectStatic, StartCandidateSlot, ReplaceWorkers, StopBeat, StartBeat,
     Stabilize, StopGunicorn, StartGunicorn, FinalHealth, WriteMarker, Publish,
     WriteLineage, Disarm, Cleanup
<1>3. CASE PlanStages \/ WriteUpstream \/ StageReload \/ RollbackReload
  BY <1>3 DEF PlanStages, SavePlan, WriteUpstream, StageReload, RollbackReload, Reload
<1>4. CASE Rollback
  BY <1>4 DEF Rollback, RollbackStarts, RestoreSmoke, RestoreDockerfile, RestoreUpstream,
     RestoreMarker, RestoreLineage, RestoreStatic, RetagReference, RestoreWorkers,
     RestoreService, RestoreGunicorn, StopGunicorn, StartGunicorn, VerifyRestored,
     FinalSmoke, RollbackRemoves, RollbackDisarms, Record
<1>5. CASE Failures
  BY <1>5 DEF Failures, StageFails, CaptureFails, LineageWriteFails, PlanStageFails, SavePlanFails,
     RouteFails, ReloadFails, DisarmFails, CleanupFails, RestoreFails, RestorationFails,
     FinalSmokeFails, RollbackEndFails, RecordFails
<1> QED
  BY <1>1, <1>2, <1>3, <1>4, <1>5 DEF Next, Receiver

\* A verified success stays on record until the rollback of its attempt has ended.
LEMMA VerifiedAfter ==
    ASSUME TypeOK, AttemptInv, [Next]_vars, NEW a \in Attempts, VerifiedAttempt(a),
           ~(Record /\ a = bundle.attempt)
    PROVE  VerifiedAttempt(a)'
<1>1. journal'[a].state = "verified"
  BY AttemptStep DEF VerifiedAttempt, VerifiedStays
<1>2. JournalMoves
  BY IdentityStep
<1>3. bundle.attempt \in Attempts
  BY DEF TypeOK, Bundles
<1>4. CASE journal' = journal
  BY <1>4 DEF VerifiedAttempt
<1>5. ASSUME NEW s \in JournalStates, Advance(s) PROVE VerifiedAttempt(a)'
  BY <1>1, <1>5, AdvanceEffect DEF VerifiedAttempt
<1>6. CASE ReceiveArchive
  <2>1. PICK b \in Bundles :
          /\ Fresh(b.attempt)
          /\ journal' = [journal EXCEPT ![b.attempt] =
                Entry("none", "running", "none", b.version)]
    BY <1>6 DEF ReceiveArchive
  <2>2. a # b.attempt
    BY <2>1 DEF Fresh, VerifiedAttempt
  <2> QED
    BY <2>1, <2>2 DEF VerifiedAttempt, TypeOK
<1>7. CASE Publish
  BY <1>1, <1>3, <1>7 DEF Publish, Entry, VerifiedAttempt, TypeOK
<1>8. CASE Record
  BY <1>3, <1>8 DEF Record, VerifiedAttempt, TypeOK
<1> QED
  BY <1>2, <1>4, <1>5, <1>6, <1>7, <1>8 DEF JournalMoves

\* Only current.json fails with the success of the attempt on record.
LEMMA FailedCommitEntered ==
    ASSUME TypeOK, AttemptInv, ControlInv, CommitInv, [Next]_vars,
           pc \notin RollbackLabels, FailedCommit'
    PROVE  LineageWriteFails /\ bundle' = bundle
<1>1. ~CaptureFails
  <2> SUFFICES ASSUME CaptureFails PROVE FALSE
    OBVIOUS
  <2>1. pc = "capture" /\ bundle' = bundle /\ journal' = journal
    BY DEF CaptureFails, Step, disk
  <2> QED
    BY <2>1 DEF FailedCommit, VerifiedAttempt, CommitInv, StageLabels
<1>2. /\ pc \in StageLabels /\ pc' = "rollback"
      /\ UNCHANGED <<bundle, orig, baselines, failed, passed, image>>
  BY <1>1, RollbackEntered DEF RollbackEntry, FailedCommit, RecoverPlan, Bundle
<1>3. bundle.attempt \in Attempts
  BY DEF TypeOK, Bundles
<1>4. journal'[bundle.attempt].result = journal[bundle.attempt].result
  BY <1>2, <1>3, IdentityStep, AdvanceEffect DEF JournalMoves, ReceiveArchive, Publish,
     Record, Step, Exit
<1>5. journal'[bundle.attempt].result = "success"
  BY <1>2 DEF FailedCommit, VerifiedAttempt
<1>6. pc # "rollback" /\ pc' = "rollback" /\ pc = "writeLineage"
  BY <1>2, <1>4, <1>5 DEF CommitInv
<1>7. ~ReceiveArchive /\ ~Startup /\ ~Crash /\ ~PlanStages /\ ~WriteUpstream
      /\ ~StageReload /\ ~RollbackReload
  BY <1>6 DEF ReceiveArchive, Startup, RecoverPlan, DropStalePlan, Crash, Exit, PlanStages,
     SavePlan, WriteUpstream, StageReload, RollbackReload, Reload, Step
<1>8. ~Stages
  BY <1>6 DEF Stages, Validate, Capture, StartPreviousSlot, WriteDockerfile, Build, Backup,
     Migrate, CollectStatic, StartCandidateSlot, ReplaceWorkers, StopBeat, StartBeat,
     Stabilize, StopGunicorn, StartGunicorn, FinalHealth, WriteMarker, Publish,
     WriteLineage, Disarm, Cleanup, Step
<1>9. ~Rollback
  BY <1>6 DEF Rollback, RollbackStarts, RestoreSmoke, RestoreDockerfile, RestoreUpstream,
     RestoreMarker, RestoreLineage, RestoreStatic, RetagReference, RestoreWorkers,
     RestoreService, RestoreGunicorn, StopGunicorn, StartGunicorn, VerifyRestored,
     FinalSmoke, RollbackRemoves, RollbackDisarms, Record, Step
<1>10. Failures => LineageWriteFails
  BY <1>6 DEF Failures, StageFails, CaptureFails, PlanStageFails, SavePlanFails, RouteFails,
     ReloadFails, DisarmFails, CleanupFails, RestoreFails, RestorationFails,
     FinalSmokeFails, RollbackEndFails, RecordFails, Step
<1> QED
  BY <1>2, <1>6, <1>7, <1>8, <1>9, <1>10 DEF Next, Receiver, vars

LEMMA UndoneStep ==
    ASSUME TypeOK, TypeOK', AttemptInv, ControlInv, KnownInv, CommitInv, UndoneInv, [Next]_vars
    PROVE  UndoneInv'
<1>1. HistoryMoves /\ IdentityMoves
  BY HistoryStep, IdentityStep
<1>2. bundle.attempt \in Attempts /\ undone \subseteq Attempts /\ undone' \subseteq Attempts
  BY DEF TypeOK, Bundles
<1>3. \A a \in undone' : a \in undone \/ (LineageWriteFails /\ a = bundle.attempt)
  BY <1>1 DEF HistoryMoves, LineageWriteFails, Record
<1>4. ASSUME NEW a \in undone' PROVE VerifiedAttempt(a)'
  <2>1. VerifiedAttempt(a)
    BY <1>3, <1>4 DEF UndoneInv, CommitInv, LineageWriteFails, Step
  <2>2. ~(Record /\ a = bundle.attempt)
    BY <1>4 DEF Record
  <2> QED
    BY <1>2, <1>4, <2>1, <2>2, VerifiedAfter
<1>5. ASSUME FailedCommit' PROVE bundle'.attempt \in undone'
  <2>1. CASE pc \in RollbackLabels
    <3>1. UNCHANGED <<bundle, flags, orig, baselines>> /\ pc' \in RollbackLabels
      BY <1>5, <2>1, RollbackKeeps DEF FailedCommit, Exit, RollbackLabels
    <3>2. ~Record /\ ~LineageWriteFails
      BY <2>1, <3>1 DEF Record, Exit, LineageWriteFails, Step, RollbackLabels
    <3>3. journal' = journal
      BY <2>1, <3>1, <3>2, IdentityStep DEF JournalMoves, Publish, Step, ReceiveArchive,
         RollbackLabels, StageLabels
    <3> QED
      BY <1>1, <1>5, <2>1, <3>1, <3>2, <3>3
         DEF HistoryMoves, UndoneInv, FailedCommit, VerifiedAttempt
  <2>2. CASE pc \notin RollbackLabels
    BY <1>5, <2>2, FailedCommitEntered DEF LineageWriteFails
  <2> QED
    BY <2>1, <2>2
<1>6. ASSUME pc' \in StageLabels \cup {"disarm", "cleanup"} PROVE bundle'.attempt \notin undone'
  <2>1. pc' # "rollback"
    BY <1>6 DEF StageLabels
  <2>2. undone' \subseteq undone
    BY <1>3, <2>1 DEF LineageWriteFails, Step
  <2>3. CASE ReceiveArchive
    BY <2>2, <2>3 DEF ReceiveArchive, Fresh, UndoneInv, VerifiedAttempt
  <2>4. CASE ~ReceiveArchive
    <3>1. pc \in StageLabels \cup {"disarm", "cleanup"} /\ pc # "idle" /\ pc' # "idle"
      <4>1. CASE pc' \in StageLabels
        BY <2>4, <4>1, StagesReached DEF StageLabels
      <4>2. CASE pc' \in {"disarm", "cleanup"}
        BY <4>2, CommitReached DEF StageLabels, Publish, Step
      <4> QED
        BY <1>6, <4>1, <4>2
    <3>2. bundle' = bundle
      BY <1>1, <2>4, <3>1 DEF IdentityMoves, RecoverPlan
    <3> QED
      BY <2>2, <3>1, <3>2 DEF UndoneInv
  <2> QED
    BY <2>3, <2>4
<1> QED
  BY <1>4, <1>5, <1>6 DEF UndoneInv

-----------------------------------------------------------------------------
(***************************************************************************)
(* Production is the release of the latest verified attempt unless a       *)
(* rollback undoes that attempt, and, until a plan is dropped in the       *)
(* middle of such a rollback, one whole release whenever no plan is kept.  *)
(***************************************************************************)

PlanKeptInv ==
    /\ pc \in RollbackLabels \ {"record"} /\ Prepared => plan # NoPlan
    /\ pc = "disarm" => plan # NoPlan

PassedInv ==
    /\ passed => pc = "record"
    /\ passed /\ Prepared => plan = NoPlan /\ Installed(orig.image) /\ lineage = orig.lineage

InstalledInv ==
    \A a \in Attempts \ undone :
        VerifiedAttempt(a) /\ Latest(a) => Installed(journal[a].version)

\* What stands stays installed.
LEMMA StandingInstalled ==
    ASSUME Standing, NEW v
    PROVE  Installed(v)' <=> Installed(v)
BY DEF Standing, Installed

\* At the end of its rollback an attempt has put everything back.
LEMMA RestoredAtEnd ==
    ASSUME ControlInv, ProgressInv, pc = "rbDisarm"
    PROVE  Installed(orig.image) /\ lineage = orig.lineage
<1>1. OnTrack /\ failed = {}
  BY EndMayPass
<1> QED
  BY <1>1 DEF ProgressInv, FilesBack, ServicesBack, RoutesBack, Installed, Services

\* Once committed, the release of the attempt is installed.
LEMMA CommittedIsInstalled ==
    ASSUME TypeOK, LatestInv, CommitInv, UndoneInv, InstalledInv,
           pc \in {"writeLineage", "disarm", "cleanup"}
    PROVE  Installed(bundle.version)
<1>1. pc # "idle" /\ bundle.attempt \in Attempts /\ bundle.attempt \notin undone
  BY DEF TypeOK, Bundles, UndoneInv, StageLabels
<1> QED
  BY <1>1 DEF CommitInv, LatestInv, InstalledInv

\* The plan is created by the capture, rewritten by the stages, and removed by three
\* statements.
LEMMA PlanMoves ==
    ASSUME plan' # plan, [Next]_vars
    PROVE  Capture \/ PlanStages \/ DropStalePlan \/ Disarm \/ RollbackDisarms
<1> USE DEF Step
<1>1. CASE ReceiveArchive \/ RecoverPlan \/ Crash \/ UNCHANGED vars
  BY <1>1 DEF ReceiveArchive, RecoverPlan, Crash, vars, disk
<1>2. CASE Stages /\ ~Capture /\ ~Disarm
  BY <1>2 DEF Stages, Validate, StartPreviousSlot, WriteDockerfile, Build, Backup,
     Migrate, CollectStatic, StartCandidateSlot, ReplaceWorkers, StopBeat, StartBeat,
     Stabilize, StopGunicorn, StartGunicorn, FinalHealth, WriteMarker, Publish,
     WriteLineage, Cleanup, disk
<1>3. CASE WriteUpstream \/ StageReload \/ RollbackReload
  BY <1>3 DEF WriteUpstream, StageReload, RollbackReload, Reload
<1>4. CASE Rollback /\ ~RollbackDisarms
  BY <1>4 DEF Rollback, RollbackStarts, RestoreSmoke, RestoreDockerfile, RestoreUpstream,
     RestoreMarker, RestoreLineage, RestoreStatic, RetagReference, RestoreWorkers,
     RestoreService, RestoreGunicorn, StopGunicorn, StartGunicorn, VerifyRestored,
     FinalSmoke, RollbackRemoves, Record, disk
<1>5. CASE Failures
  BY <1>5 DEF Failures, StageFails, CaptureFails, LineageWriteFails, PlanStageFails, SavePlanFails,
     RouteFails, ReloadFails, DisarmFails, CleanupFails, RestoreFails, RestorationFails,
     FinalSmokeFails, RollbackEndFails, RecordFails, disk
<1> QED
  BY <1>1, <1>2, <1>3, <1>4, <1>5 DEF Next, Receiver, Startup

LEMMA PlanRemoved ==
    ASSUME TypeOK, TypeOK', plan # NoPlan, plan' = NoPlan, [Next]_vars
    PROVE  DropStalePlan \/ Disarm \/ RollbackDisarms
<1>1. \A f, o : f \in Flags /\ o \in Originals => PlanOf(f, o) # NoPlan
  BY PlanType, AbsenceAssumption DEF TypeOK
<1>2. flags \in Flags /\ flags' \in Flags /\ orig \in Originals /\ orig' \in Originals
  BY DEF TypeOK
<1>3. ~Capture /\ ~PlanStages
  BY <1>1, <1>2 DEF Capture, PlanStages, SavePlan
<1> QED
  BY <1>3, PlanMoves

\* The record is the last statement of a rollback.
LEMMA RecordEnds ==
    ASSUME pc = "record", pc' \in RollbackLabels, [Next]_vars
    PROVE  UNCHANGED vars
<1> USE DEF Step
<1>1. pc \in RollbackLabels
  BY DEF RollbackLabels
<1>2. ~Crash /\ ~WriteUpstream /\ ~RollbackReload /\ ~RouteFails
  BY DEF Crash, Exit, WriteUpstream, RouteLabels, StageLabels, RollbackReload, Reload,
     RouteFails, ReloadFails, RollbackLabels
<1>3. ~Rollback
  BY DEF Rollback, RollbackStarts, RestoreSmoke, RestoreDockerfile, RestoreUpstream,
     RestoreMarker, RestoreLineage, RestoreStatic, RetagReference, RestoreWorkers,
     RestoreService, RestoreGunicorn, StopGunicorn, StartGunicorn, VerifyRestored,
     FinalSmoke, RollbackRemoves, RollbackDisarms, Record, Exit, RollbackLabels
<1>4. ~RestoreFails /\ ~FinalSmokeFails /\ ~RollbackEndFails /\ ~RecordFails
  BY DEF RestoreFails, RestorationFails, FinalSmokeFails, RollbackEndFails, RecordFails,
     Exit, RollbackLabels
<1> QED
  BY <1>1, <1>2, <1>3, <1>4, RollbackSteps

LEMMA PlanKeptStep ==
    ASSUME TypeOK, ControlInv, PlanKeptInv, [Next]_vars
    PROVE  PlanKeptInv'
<1> USE DEF Step
<1>1. ASSUME pc' \in RollbackLabels \ {"record"}, Prepared' PROVE plan' # NoPlan
  <2>1. CASE pc \in RollbackLabels
    <3>1. UNCHANGED <<bundle, flags, orig, baselines>> /\ plan' = plan
      BY <1>1, <2>1, RollbackKeeps DEF Exit, RollbackLabels, RollbackDisarms
    <3>2. pc # "record"
      BY <1>1, <2>1, RecordEnds DEF vars
    <3> QED
      BY <2>1, <3>1, <3>2, <1>1 DEF PlanKeptInv, Prepared
  <2>2. CASE pc \notin RollbackLabels
    <3>1. CASE RecoverPlan
      BY <3>1 DEF RecoverPlan, disk
    <3>2. CASE ~RecoverPlan
      <4>1. pc \in StageLabels /\ UNCHANGED <<plan, bundle, orig, baselines>>
        BY <1>1, <2>2, <3>2, RollbackEntered, CaptureFailed DEF RollbackEntry
      <4>2. baselines
        BY <1>1, <2>2, <4>1 DEF Prepared, ControlInv, ModeInv
      <4> QED
        BY <4>1, <4>2 DEF ControlInv, ModeInv, StageLabels
    <3> QED
      BY <3>1, <3>2
  <2> QED
    BY <2>1, <2>2
<1>2. ASSUME pc' = "disarm" PROVE plan' # NoPlan
  <2>1. pc \in {"writeLineage", "disarm"}
    BY <1>2, CommitReached, CleanupEnds DEF Publish, Exit
  <2>2. plan # NoPlan
    BY <2>1 DEF PlanKeptInv, ControlInv, ModeInv
  <2>3. plan' = plan
    BY <1>2, <2>1, PlanMoves DEF Capture, PlanStages, SavePlan, DropStalePlan, Disarm,
       RollbackDisarms
  <2> QED
    BY <2>2, <2>3
<1> QED
  BY <1>1, <1>2 DEF PlanKeptInv

\* Without a plan production stands.
LEMMA RestsWithoutPlan ==
    ASSUME TypeOK, ControlInv, PlanKeptInv, plan = NoPlan
    PROVE  pc \in StandingSet
BY DEF PlanKeptInv, StandingSet, ControlInv, ModeInv, TypeOK, Labels, StageLabels

\* A plan that is removed after a success leaves the release of that success.
LEMMA DroppedIsInstalled ==
    ASSUME TypeOK, LatestInv, CommitInv, UndoneInv, InstalledInv, [Next]_vars,
           (DropStalePlan /\ plan.attempt \notin undone) \/ Disarm
    PROVE  \E v \in Versions : Installed(v) /\ Installed(v)'
<1> USE DEF Step
<1>1. CASE DropStalePlan /\ plan.attempt \notin undone
  <2>1. /\ VerifiedAttempt(plan.attempt) /\ Latest(plan.attempt)
        /\ plan.attempt \in Attempts \ undone /\ pc = "idle"
    BY <1>1 DEF DropStalePlan, LatestInv, TypeOK, Plans
  <2>2. Installed(journal[plan.attempt].version)
    BY <2>1 DEF InstalledInv
  <2>3. journal[plan.attempt].version \in Versions
    BY <2>1 DEF TypeOK, Entries
  <2> QED
    BY <2>1, <2>2, <2>3, ProductionStands, StandingInstalled DEF StandingSet
<1>2. CASE Disarm
  <2>1. Installed(bundle.version) /\ bundle.version \in Versions
    BY <1>2, CommittedIsInstalled DEF Disarm, TypeOK, Bundles
  <2> QED
    BY <1>2, <2>1, ProductionStands, StandingInstalled DEF Disarm, StandingSet
<1> QED
  BY <1>1, <1>2

LEMMA WholeStep ==
    ASSUME TypeOK, TypeOK', ControlInv, ProgressInv, LatestInv, CommitInv, UndoneInv,
           InstalledInv, PlanKeptInv, DisarmedMeansWhole, ~torn', [Next]_vars
    PROVE  DisarmedMeansWhole'
<1> SUFFICES ASSUME plan' = NoPlan PROVE \E v \in Versions : Installed(v)'
  BY DEF DisarmedMeansWhole
<1>1. CASE plan = NoPlan
  <2>1. PICK v \in Versions : Installed(v)
    BY <1>1 DEF DisarmedMeansWhole
  <2> QED
    BY <1>1, <2>1, RestsWithoutPlan, ProductionStands, StandingInstalled
<1>2. CASE DropStalePlan \/ Disarm
  <2>1. DropStalePlan => plan.attempt \notin undone
    BY DEF DropStalePlan
  <2> QED
    BY <1>2, <2>1, DroppedIsInstalled
<1>3. CASE RollbackDisarms
  <2>1. Installed(orig.image) /\ orig.image \in Versions
    BY <1>3, RestoredAtEnd DEF RollbackDisarms, Step, TypeOK, Originals
  <2> QED
    BY <1>3, <2>1 DEF RollbackDisarms, docker, nginx, Installed
<1> QED
  BY <1>1, <1>2, <1>3, PlanRemoved

\* A rollback passes when nothing was captured, or when it removes its plan; that of a
\* capture that raised may.
LEMMA PassedMoves ==
    ASSUME ~passed, passed', [Next]_vars
    PROVE  RollbackStarts \/ RollbackDisarms \/ CaptureFails
<1> USE DEF Step
<1>1. CASE ReceiveArchive \/ Startup \/ Crash \/ UNCHANGED vars
  BY <1>1 DEF ReceiveArchive, Startup, RecoverPlan, DropStalePlan, Crash, Exit, vars, memory
<1>2. CASE Stages
  BY <1>2 DEF Stages, Validate, Capture, StartPreviousSlot, WriteDockerfile, Build, Backup,
     Migrate, CollectStatic, StartCandidateSlot, ReplaceWorkers, StopBeat, StartBeat,
     Stabilize, StopGunicorn, StartGunicorn, FinalHealth, WriteMarker, Publish,
     WriteLineage, Disarm, Cleanup, Exit, memory
<1>3. CASE PlanStages \/ WriteUpstream \/ StageReload \/ RollbackReload
  BY <1>3 DEF PlanStages, SavePlan, WriteUpstream, StageReload, RollbackReload, Reload
<1>4. CASE Rollback /\ ~RollbackStarts /\ ~RollbackDisarms
  BY <1>4 DEF Rollback, RestoreSmoke, RestoreDockerfile, RestoreUpstream,
     RestoreMarker, RestoreLineage, RestoreStatic, RetagReference, RestoreWorkers,
     RestoreService, RestoreGunicorn, StopGunicorn, StartGunicorn, VerifyRestored,
     FinalSmoke, RollbackRemoves, Record, Exit, memory
<1>5. CASE Failures /\ ~CaptureFails
  BY <1>5 DEF Failures, StageFails, LineageWriteFails, PlanStageFails, SavePlanFails,
     RouteFails, ReloadFails, DisarmFails, CleanupFails, RestoreFails, RestorationFails,
     FinalSmokeFails, RollbackEndFails, RecordFails, Exit, memory
<1> QED
  BY <1>1, <1>2, <1>3, <1>4, <1>5 DEF Next, Receiver

LEMMA PassedStep ==
    ASSUME TypeOK, ControlInv, ProgressInv, PassedInv, [Next]_vars
    PROVE  PassedInv'
<1>1. CASE pc = "record"
  <2>1. CASE Exit
    BY <2>1 DEF Exit, PassedInv
  <2>2. CASE pc' \in RollbackLabels
    BY <1>1, <2>2, RecordEnds DEF vars, disk, docker, nginx, memory, PassedInv, Prepared, Installed
  <2> QED
    BY <1>1, <2>1, <2>2, RollbackKeeps DEF RollbackLabels
<1>2. CASE pc # "record" /\ passed'
  <2>1. CASE RollbackStarts
    BY <1>2, <2>1 DEF RollbackStarts, PassedInv, Prepared
  <2>2. CASE RollbackDisarms
    <3>1. Installed(orig.image) /\ lineage = orig.lineage
      BY <2>2, RestoredAtEnd DEF RollbackDisarms, Step
    <3> QED
      BY <2>2, <3>1 DEF RollbackDisarms, Step, docker, nginx, PassedInv, Installed
  <2>3. CASE CaptureFails
    <3>1. pc' = "record" /\ ~Prepared'
      BY <2>3, CaptureFailed DEF CaptureFails, Step
    <3> QED
      BY <3>1 DEF PassedInv
  <2> QED
    BY <1>2, <2>1, <2>2, <2>3, PassedMoves DEF PassedInv
<1>3. CASE ~passed'
  BY <1>3 DEF PassedInv
<1> QED
  BY <1>1, <1>2, <1>3

\* The commit point: everything has been replaced.
LEMMA CommitInstalls ==
    ASSUME TypeOK, StageInv', LoadedInv', Publish
    PROVE  Installed(bundle.version)'
<1>1. pc' = "writeLineage" /\ pc' \in CapturedSet /\ pc' \in FinalSet
  BY DEF Publish, Step, FinalSet
<1> QED
  BY <1>1 DEF StageInv, FilesAt, ServicesAt, TrafficAt, EndingSet, LoadedInv, Installed, Services

\* An entry becomes a verified success at the commit point only.
LEMMA VerifiedBefore ==
    ASSUME TypeOK, AttemptInv, CommitInv, [Next]_vars, NEW a \in Attempts,
           VerifiedAttempt(a)', ~ReceiveArchive, ~(Publish /\ a = bundle.attempt)
    PROVE  VerifiedAttempt(a) /\ journal'[a].version = journal[a].version
<1>1. JournalMoves
  BY IdentityStep
<1>2. bundle.attempt \in Attempts
  BY DEF TypeOK, Bundles
<1>3. CASE journal' = journal
  BY <1>3 DEF VerifiedAttempt
<1>4. ASSUME pc \in StageLabels, NEW s \in JournalStates, Advance(s)
      PROVE  VerifiedAttempt(a) /\ journal'[a].version = journal[a].version
  <2>1. /\ journal'[a].result = journal[a].result /\ journal'[a].version = journal[a].version
        /\ a # bundle.attempt => journal'[a].state = journal[a].state
    BY <1>4, AdvanceEffect
  <2>2. a = bundle.attempt => pc = "writeLineage"
    BY <1>4, <2>1 DEF CommitInv, VerifiedAttempt
  <2> QED
    BY <2>1, <2>2 DEF CommitInv, VerifiedAttempt
<1>5. CASE Publish
  BY <1>2, <1>5 DEF Publish, VerifiedAttempt, TypeOK
<1>6. CASE Record
  <2>1. a # bundle.attempt \/ bundle.mode = "recovery"
    <3>1. ~(Outcome.result = "success" /\ Outcome.state = "verified")
      BY DEF Outcome, Entry
    <3> QED
      BY <1>2, <1>6, <3>1 DEF Record, VerifiedAttempt, TypeOK
  <2> QED
    BY <1>2, <1>6, <2>1 DEF Record, VerifiedAttempt, TypeOK
<1> QED
  BY <1>1, <1>3, <1>4, <1>5, <1>6 DEF JournalMoves

LEMMA InstalledStep ==
    ASSUME TypeOK, AttemptInv, ControlInv, KnownInv, StageInv', LoadedInv', LatestInv,
           CommitInv, CommitInv', UndoneInv, InstalledInv, [Next]_vars
    PROVE  InstalledInv'
<1> SUFFICES ASSUME NEW a \in Attempts, a \notin undone', VerifiedAttempt(a)', Latest(a)'
             PROVE  Installed(journal[a].version)'
  BY DEF InstalledInv
<1>1. CASE ReceiveArchive
  <2>1. PICK b \in Bundles :
          /\ Fresh(b.attempt)
          /\ journal' = [journal EXCEPT ![b.attempt] =
                Entry("none", "running", "none", b.version)]
    BY <1>1 DEF ReceiveArchive
  <2> DEFINE n == b.attempt
  <2>2. n \in Attempts
    BY DEF Bundles
  <2>3. /\ journal'[n].result = "running" /\ journal[n].result = "absent"
        /\ \A c \in Attempts : c # n => journal'[c] = journal[c]
    BY <2>1, <2>2 DEF TypeOK, Entry, Fresh
  <2> HIDE DEF n
  <2>4. a # n /\ ~(n > a) /\ journal[a].result = "success"
    BY <2>2, <2>3 DEF VerifiedAttempt, Latest
  <2> QED
    BY <2>2, <2>3, <2>4 DEF LatestInv, Attempts
<1>2. CASE Publish /\ a = bundle.attempt
  <2>1. Installed(bundle.version)' /\ bundle' = bundle /\ pc' = "writeLineage"
    BY <1>2, CommitInstalls DEF Publish, Step, memory
  <2> QED
    BY <1>2, <2>1 DEF CommitInv
<1>3. CASE ~ReceiveArchive /\ ~(Publish /\ a = bundle.attempt)
  <2>1. VerifiedAttempt(a) /\ journal'[a].version = journal[a].version
    BY <1>3, VerifiedBefore
  <2>2. Latest(a)
    BY <1>3, EntriesArrive DEF Latest
  <2>3. a \notin undone
    <3>1. ~(Record /\ a = bundle.attempt)
      <4>1. ~(Outcome.result = "success" /\ Outcome.state = "verified")
        BY DEF Outcome, Entry
      <4>2. bundle.mode = "recovery" => a # bundle.attempt
        BY <2>1 DEF CommitInv
      <4> QED
        BY <4>1, <4>2 DEF Record, VerifiedAttempt, TypeOK
    <3> QED
      BY <3>1, HistoryStep DEF HistoryMoves, LineageWriteFails, Record
  <2>4. Installed(journal[a].version)
    BY <2>1, <2>2, <2>3 DEF InstalledInv
  <2>5. pc \in StandingSet
    <3>1. pc # "idle" => bundle.attempt = a
      <4>1. journal[a].result # "absent" /\ bundle.attempt \in Attempts
        BY <2>1 DEF VerifiedAttempt, TypeOK, Bundles
      <4> QED
        BY <2>2, <4>1 DEF KnownInv, LatestInv, Latest, Attempts
    <3>2. pc \in RollbackLabels => pc = "idle"
      BY <2>1, <2>3, <3>1 DEF CommitInv, FailedCommit, UndoneInv
    <3>3. pc \in StageLabels => pc \in {"idle", "writeLineage"}
      BY <2>1, <3>1 DEF CommitInv, VerifiedAttempt
    <3> QED
      BY <3>2, <3>3 DEF StandingSet, TypeOK, Labels
  <2> QED
    BY <2>1, <2>4, <2>5, ProductionStands, StandingInstalled
<1> QED
  BY <1>1, <1>2, <1>3

\* What holds unless a plan was dropped in the middle of a rollback.
IntactInv == CoherentInv /\ CleanInv /\ ProgressInv /\ DisarmedMeansWhole /\ PassedInv

\* The inductive invariant.
RecoveryInv ==
    /\ ServedInv /\ AttemptInv /\ StageInv
    /\ LatestInv /\ CommitInv /\ UndoneInv /\ InstalledInv /\ PlanKeptInv
    /\ torn \/ IntactInv

LEMMA RecoveryInit == Init => RecoveryInv
<1> SUFFICES ASSUME Init PROVE RecoveryInv
  OBVIOUS
<1> USE DEF Init
<1>1. ServedInv
  BY ServedInit
<1>2. Installed(0) /\ 0 \in Versions
  BY BoundsAssumption DEF Installed, Services, Versions, Containers
<1>3. AttemptInv
  BY DEF AttemptInv, NoBundle, Bundle, NoEntry, Entry, StageLabels, DeployLabels
<1>4. StageInv /\ CoherentInv /\ CleanInv
  BY DEF StageInv, CoherentInv, Coherent, NoOriginals, CleanInv, RollbackLabels
<1>5. ProgressInv
  BY DEF ProgressInv, FilesBack, ServicesBack, RoutesBack
<1>6. LatestInv
  BY DEF LatestInv, NoEntry, Entry
<1>7. CommitInv /\ UndoneInv
  BY DEF CommitInv, StageLabels, NoBundle, Bundle, UndoneInv, FailedCommit, RollbackLabels
<1>8. DisarmedMeansWhole /\ PlanKeptInv /\ PassedInv
  BY <1>2 DEF DisarmedMeansWhole, PlanKeptInv, PassedInv, RollbackLabels
<1>9. InstalledInv
  BY DEF InstalledInv, VerifiedAttempt, NoEntry, Entry
<1> QED
  BY <1>1, <1>3, <1>4, <1>5, <1>6, <1>7, <1>8, <1>9 DEF RecoveryInv, IntactInv

\* An intact production stays intact unless the plan of an undone attempt is dropped.
LEMMA IntactStep ==
    ASSUME RecoveryInv, ~torn, [Next]_vars, ServedInv', StageInv', ~torn'
    PROVE  IntactInv'
<1> USE DEF RecoveryInv, ServedInv, IntactInv
<1>1. pc = "capture" => \E v \in Versions : Installed(v)
  BY DEF ControlInv, ModeInv, DisarmedMeansWhole
<1>2. CoherentInv'
  BY <1>1, CoherentStep
<1>3. CleanInv'
  BY CleanStep
<1>4. ProgressInv'
  BY <1>2, <1>3, ProgressStep
<1>5. DisarmedMeansWhole' /\ PassedInv'
  BY WholeStep, PassedStep
<1> QED
  BY <1>2, <1>3, <1>4, <1>5

\* The next release that is verified, or its stale plan dropped, ends a torn production.
LEMMA IntactAgain ==
    ASSUME RecoveryInv, torn, [Next]_vars, ~torn'
    PROVE  IntactInv'
<1> USE DEF RecoveryInv, ServedInv, Step
<1>1. /\ DropStalePlan \/ Disarm
      /\ DropStalePlan => plan.attempt \notin undone
  BY HistoryStep DEF HistoryMoves, DropStalePlan
<1>2. /\ plan' = NoPlan /\ pc' \in {"idle", "cleanup"}
      /\ pc' = "idle" => orig' = NoOriginals
      /\ ~passed'
  BY <1>1 DEF DropStalePlan, Disarm, memory, ControlInv, IdleInv, RestoreInv, RollbackLabels
<1>3. DisarmedMeansWhole'
  BY <1>1, DroppedIsInstalled DEF DisarmedMeansWhole
<1>4. CoherentInv' /\ CleanInv' /\ PassedInv'
  BY <1>2 DEF CoherentInv, Coherent, NoOriginals, CleanInv, PassedInv, RollbackLabels
<1>5. ProgressInv'
  BY <1>2 DEF ProgressInv, FilesBack, ServicesBack, RoutesBack
<1> QED
  BY <1>3, <1>4, <1>5 DEF IntactInv

LEMMA RecoveryStep ==
    ASSUME RecoveryInv, [Next]_vars
    PROVE  RecoveryInv'
<1> USE DEF RecoveryInv, ServedInv
<1>1. ServedInv'
  BY ServedStep
<1>2. pc = "capture" => torn \/ loaded = GunicornOnly
  BY DEF IntactInv, ControlInv, ModeInv, DisarmedMeansWhole, Installed
<1>3. AttemptInv' /\ StageInv'
  BY <1>2, AttemptStep, StageInvStep
<1>4. LatestInv' /\ CommitInv'
  BY <1>1, LatestStep, CommitStep
<1>5. UndoneInv' /\ PlanKeptInv'
  BY <1>1, UndoneStep, PlanKeptStep
<1>6. InstalledInv'
  BY <1>1, <1>3, <1>4, InstalledStep
<1>7. torn' \/ IntactInv'
  BY <1>1, <1>3, IntactStep, IntactAgain
<1> QED
  BY <1>1, <1>3, <1>4, <1>5, <1>6, <1>7

LEMMA RecoveryInvariant == Spec => []RecoveryInv
<1>1. RecoveryInv /\ [Next]_vars => RecoveryInv'
  BY RecoveryStep
<1> QED
  BY <1>1, RecoveryInit, PTL DEF Spec

\* "Disarm restart recovery only after restore or verified publication": wherever the
\* receiver fails or is killed, what the plan does not cover is unchanged, and without a
\* plan, or after a rollback that reports success, production is wholly one release;
\* unless the startup dropped the plan of an attempt whose rollback had begun with its
\* success on record, and until a later release is verified.
THEOREM PlanStaysSound == Spec => []PlanIsSound
<1>1. RecoveryInv => PlanIsSound
  <2> SUFFICES ASSUME RecoveryInv, ~torn PROVE PlanIsSound
    BY DEF PlanIsSound
  <2> USE DEF RecoveryInv, ServedInv, IntactInv
  <2>1. PlanCoversMutations
    <3> SUFFICES ASSUME plan # NoPlan, pc \in StageLabels PROVE Covered
      BY DEF PlanCoversMutations
    <3>1. pc \in CapturedSet /\ pc # "idle"
      BY DEF ControlInv, ModeInv, StageLabels
    <3>2. plan.flags = flags /\ plan.orig = orig /\ orig.upstream = GunicornOnly
      BY <3>1 DEF ControlInv, ModeInv, PlanInv, FileInv
    <3>3. Clean(flags, orig)
      BY <3>1, StageClean
    <3> QED
      BY <3>2, <3>3 DEF Covered, Clean
  <2>2. EarlyPlanIsComplete
    BY DEF EarlyPlanIsComplete, CleanInv, Clean, NoFlags, FlagNames, Services
  <2>3. RollbackRestores
    BY DEF RollbackRestores, PassedInv, CoherentInv, Coherent, Installed
  <2> QED
    BY <2>1, <2>2, <2>3 DEF PlanIsSound
<1> QED
  BY <1>1, RecoveryInvariant, PTL

\* A verified journal is never a lie: between invocations the release of the latest
\* attempt, once its entry is a verified success, is what production runs; unless that
\* attempt failed to write current.json after the success and its failure is not on record.
THEOREM SuccessStaysInstalled == Spec => []SuccessIsInstalled
<1>1. RecoveryInv => SuccessIsInstalled
  BY DEF RecoveryInv, InstalledInv, SuccessIsInstalled, VerifiedAttempt, Latest
<1> QED
  BY <1>1, RecoveryInvariant, PTL

-----------------------------------------------------------------------------
(***************************************************************************)
(* The refinement: every step of the receiver opens the transaction,       *)
(* changes production inside it, commits it, revokes the commit, closes    *)
(* it, or is a stuttering step.                                            *)
(***************************************************************************)

\* Production is at most one release.
LEMMA InstalledIsUnique ==
    ASSUME NEW v \in Versions, Installed(v)
    PROVE  InstalledRelease = v
<1>1. \A w \in Versions : Installed(w) => w = v
  BY DEF Installed, Services
<1> QED
  BY <1>1 DEF InstalledRelease

LEMMA ReleaseStands ==
    ASSUME Standing
    PROVE  InstalledRelease' = InstalledRelease /\ marker' = marker
<1>1. \A v : Installed(v)' <=> Installed(v)
  BY StandingInstalled
<1>2. marker' = marker
  BY DEF Standing
<1> QED
  BY <1>1, <1>2 DEF InstalledRelease, Mixed

\* An entry keeps the version of its archive.
LEMMA VersionsStay ==
    ASSUME TypeOK, [Next]_vars, NEW a \in Attempts, ~ReceiveArchive
    PROVE  journal'[a].version = journal[a].version
<1>1. JournalMoves
  BY IdentityStep
<1>2. ASSUME NEW s \in JournalStates, Advance(s) PROVE journal'[a].version = journal[a].version
  BY <1>2, AdvanceEffect
<1>3. CASE Publish
  BY <1>3 DEF Publish, Entry, TypeOK
<1>4. CASE Record
  <2>1. Outcome.version = journal[bundle.attempt].version
    BY DEF Outcome, Entry
  <2> QED
    BY <1>4, <2>1 DEF Record, TypeOK
<1> QED
  BY <1>1, <1>2, <1>3, <1>4 DEF JournalMoves

\* The application-facing marker is published, or restored.
LEMMA MarkerMoves ==
    ASSUME marker' # marker, [Next]_vars
    PROVE  WriteMarker \/ RestoreMarker
<1> USE DEF Step
<1>1. CASE ReceiveArchive \/ Startup \/ Crash \/ UNCHANGED vars
  BY <1>1 DEF ReceiveArchive, Startup, RecoverPlan, DropStalePlan, Crash, vars, disk
<1>2. CASE Stages /\ ~WriteMarker
  BY <1>2 DEF Stages, Validate, Capture, StartPreviousSlot, WriteDockerfile, Build, Backup,
     Migrate, CollectStatic, StartCandidateSlot, ReplaceWorkers, StopBeat, StartBeat,
     Stabilize, StopGunicorn, StartGunicorn, FinalHealth, Publish, WriteLineage, Disarm,
     Cleanup, disk
<1>3. CASE PlanStages \/ WriteUpstream \/ StageReload \/ RollbackReload
  BY <1>3 DEF PlanStages, SavePlan, WriteUpstream, StageReload, RollbackReload, Reload
<1>4. CASE Rollback /\ ~RestoreMarker
  BY <1>4 DEF Rollback, RollbackStarts, RestoreSmoke, RestoreDockerfile, RestoreUpstream,
     RestoreLineage, RestoreStatic, RetagReference, RestoreWorkers, RestoreService,
     RestoreGunicorn, StopGunicorn, StartGunicorn, VerifyRestored, FinalSmoke,
     RollbackRemoves, RollbackDisarms, Record, disk
<1>5. CASE Failures
  BY <1>5 DEF Failures, StageFails, CaptureFails, LineageWriteFails, PlanStageFails, SavePlanFails,
     RouteFails, ReloadFails, DisarmFails, CleanupFails, RestoreFails, RestorationFails,
     FinalSmokeFails, RollbackEndFails, RecordFails, disk
<1> QED
  BY <1>1, <1>2, <1>3, <1>4, <1>5 DEF Next, Receiver

LEMMA TransactionInit == Init => Transaction!Init
<1> SUFFICES ASSUME Init PROVE Transaction!Init
  OBVIOUS
<1>1. Installed(0) /\ 0 \in Versions
  BY BoundsAssumption DEF Init, Installed, Services, Versions, Containers
<1>2. InstalledRelease = 0
  BY <1>1, InstalledIsUnique
<1> QED
  BY <1>1, <1>2 DEF Init, Phase, Transaction!Init

\* The phase is that of the attempt whose plan is kept: until its commit, or once its
\* failure is on record, it is no verified success.
LEMMA PhaseOfAttempt ==
    ASSUME TypeOK, ControlInv, CommitInv, UndoneInv, plan # NoPlan
    PROVE  /\ plan.attempt \in Attempts
           /\ pc # "idle" => plan.attempt = bundle.attempt /\ plan.orig = orig
           /\ Phase \in {"open", "committed", "revoked"}
           /\ Phase = "revoked" <=> plan.attempt \in undone
           /\ Phase = "committed" <=>
                plan.attempt \notin undone /\ VerifiedAttempt(plan.attempt)
           /\ Phase = "committed" => pc \in {"idle", "writeLineage", "disarm", "cleanup"}
<1>1. /\ plan.attempt \in Attempts
      /\ pc # "idle" => plan.attempt = bundle.attempt /\ plan.orig = orig
  BY DEF TypeOK, Plans, ControlInv, PlanInv
<1>2. /\ Phase \in {"open", "committed", "revoked"}
      /\ Phase = "revoked" <=> plan.attempt \in undone
      /\ Phase = "committed" <=> plan.attempt \notin undone /\ VerifiedAttempt(plan.attempt)
  BY DEF Phase
<1>3. ASSUME plan.attempt \notin undone, VerifiedAttempt(plan.attempt), pc # "idle"
      PROVE  pc \in {"writeLineage", "disarm", "cleanup"}
  <2>1. pc \notin RollbackLabels
    BY <1>1, <1>3 DEF CommitInv, UndoneInv, FailedCommit
  <2>2. pc \in StageLabels => pc = "writeLineage"
    BY <1>1, <1>3 DEF CommitInv, VerifiedAttempt
  <2> QED
    BY <1>3, <2>1, <2>2 DEF TypeOK, Labels
<1> QED
  BY <1>1, <1>2, <1>3

\* The capture opens it.
LEMMA TransactionOpens ==
    ASSUME TypeOK, TypeOK', ControlInv, CommitInv', UndoneInv', plan = NoPlan, plan' # NoPlan,
           [Next]_vars
    PROVE  Transaction!Open
<1>1. Capture
  <2>1. ~PlanStages
    BY DEF PlanStages, SavePlan, Step, ControlInv, ModeInv
  <2> QED
    BY <2>1, PlanMoves DEF DropStalePlan, Disarm, RollbackDisarms
<1>2. plan'.orig.marker = marker /\ plan'.attempt = bundle'.attempt /\ torn' = torn
  BY <1>1 DEF Capture, PlanOf
<1>3. journal'[plan'.attempt].version \in Versions
  BY DEF TypeOK, Plans, Entries
<1>4. InstalledRelease' = InstalledRelease /\ marker' = marker
  BY <1>1, ProductionStands, ReleaseStands DEF Capture, Step, StandingSet
<1>5. Phase = "closed" /\ Phase' = "open"
  <2>1. pc' = "planPrevious" /\ pc' \in StageLabels
    BY <1>1 DEF Capture, Step, StageLabels
  <2>2. plan'.attempt \notin undone' /\ ~VerifiedAttempt(plan.attempt)'
    BY <1>2, <2>1 DEF UndoneInv, CommitInv, VerifiedAttempt
  <2> QED
    BY <2>2 DEF Phase
<1> QED
  BY <1>2, <1>3, <1>4, <1>5 DEF Transaction!Open

\* Inside it the plan keeps the release before and the target, and the pointer moves to
\* one of them.
LEMMA TransactionKeeps ==
    ASSUME TypeOK, TypeOK', AttemptInv, ControlInv, plan # NoPlan, plan' # NoPlan, [Next]_vars
    PROVE  /\ plan'.attempt = plan.attempt /\ plan'.orig = plan.orig /\ torn' = torn
           /\ journal'[plan.attempt].version = journal[plan.attempt].version
           /\ marker' \in {marker, journal[plan.attempt].version, plan.orig.marker}
           /\ ~ReceiveArchive
<1>1. plan'.attempt = plan.attempt /\ plan'.orig = plan.orig
  <2>1. CASE plan' = plan
    BY <2>1
  <2>2. CASE PlanStages
    <3>1. plan'.attempt = bundle.attempt /\ plan'.orig = orig /\ pc # "idle"
      BY <2>2 DEF PlanStages, SavePlan, Step, PlanOf
    <3> QED
      BY <3>1 DEF ControlInv, PlanInv
  <2> QED
    BY <2>1, <2>2, PlanMoves
       DEF Capture, Step, ControlInv, ModeInv, DropStalePlan, Disarm, RollbackDisarms
<1>2. ~ReceiveArchive /\ plan.attempt \in Attempts
  BY DEF ReceiveArchive, TypeOK, Plans
<1>3. journal'[plan.attempt].version = journal[plan.attempt].version
  BY <1>2, VersionsStay
<1>4. marker' \in {marker, journal[plan.attempt].version, plan.orig.marker}
  <2>1. CASE WriteMarker
    <3>1. marker' = bundle.version /\ pc = "writeMarker"
      BY <2>1 DEF WriteMarker, Step
    <3> QED
      BY <3>1 DEF AttemptInv, StageLabels, ControlInv, PlanInv
  <2>2. CASE RestoreMarker
    BY <2>2 DEF RestoreMarker, Step, ControlInv, PlanInv
  <2> QED
    BY <2>1, <2>2, MarkerMoves
<1>5. torn' = torn
  BY HistoryStep DEF HistoryMoves, DropStalePlan, Disarm
<1> QED
  BY <1>1, <1>2, <1>3, <1>4, <1>5

\* The success record commits it.
LEMMA TransactionCommits ==
    ASSUME TypeOK, TypeOK', AttemptInv, ControlInv, ControlInv', LoadedInv', StageInv',
           CommitInv, CommitInv', UndoneInv, UndoneInv', plan # NoPlan, plan' # NoPlan,
           [Next]_vars, Publish
    PROVE  Transaction!Commit
<1> USE DEF Step
<1>1. /\ pc = "publish" /\ pc' = "writeLineage" /\ pc \in StageLabels /\ pc' \in StageLabels
      /\ bundle' = bundle /\ UNCHANGED <<docker, loaded, dockerfile, marker, upstream>>
  BY DEF Publish, memory, nginx, StageLabels
<1>2. bundle.version \in Versions /\ bundle.attempt \in Attempts
  BY DEF TypeOK, Bundles
<1>3. Installed(bundle.version)' /\ Installed(bundle.version)
  BY <1>1, CommitInstalls DEF Installed, docker
<1>4. /\ InstalledRelease = bundle.version /\ InstalledRelease' = bundle.version
      /\ marker = bundle.version /\ marker' = marker
  <2>1. InstalledRelease = bundle.version
    BY <1>2, <1>3, InstalledIsUnique
  <2>2. InstalledRelease' = InstalledRelease
    BY <1>1 DEF InstalledRelease, Installed, Mixed, docker
  <2> QED
    BY <1>1, <1>3, <2>1, <2>2 DEF Installed
<1>5. journal[plan.attempt].version = bundle.version /\ plan.attempt = bundle.attempt
  BY <1>1, PhaseOfAttempt DEF AttemptInv
<1>6. Phase = "open" /\ Phase' = "committed"
  <2>1. plan.attempt \notin undone /\ ~VerifiedAttempt(plan.attempt)
    BY <1>1, <1>5 DEF UndoneInv, CommitInv, VerifiedAttempt
  <2>2. plan'.attempt = plan.attempt
    BY TransactionKeeps
  <2>3. plan'.attempt \notin undone' /\ VerifiedAttempt(plan.attempt)'
    BY <1>1, <1>5, <2>2 DEF UndoneInv, CommitInv, VerifiedAttempt
  <2> QED
    BY <2>1, <2>3 DEF Phase
<1> QED
  BY <1>4, <1>5, <1>6, TransactionKeeps DEF Transaction!Commit

\* A statement that leaves the phase alone changes production only while the transaction
\* is not committed.
LEMMA TransactionChanges ==
    ASSUME TypeOK, TypeOK', AttemptInv, ControlInv, CommitInv, UndoneInv, plan # NoPlan,
           plan' # NoPlan, [Next]_vars, Phase' = Phase
    PROVE  Transaction!Change \/ UNCHANGED Transaction!vars
<1>1. InstalledRelease' \in Versions \cup {Mixed}
  BY DEF InstalledRelease
<1>2. CASE Phase \in {"open", "revoked"}
  BY <1>1, <1>2, TransactionKeeps DEF Transaction!Change
<1>3. CASE Phase = "committed"
  <2>1. pc \in StandingSet
    BY <1>3, PhaseOfAttempt DEF StandingSet
  <2>2. InstalledRelease' = InstalledRelease /\ marker' = marker
    BY <2>1, ProductionStands, ReleaseStands
  <2> QED
    BY <2>2, TransactionKeeps DEF Transaction!vars
<1> QED
  BY <1>2, <1>3, PhaseOfAttempt

\* current.json cannot be written: the commit is revoked.
LEMMA TransactionRevoked ==
    ASSUME TypeOK, TypeOK', AttemptInv, ControlInv, CommitInv, UndoneInv, plan # NoPlan,
           plan' # NoPlan, [Next]_vars, LineageWriteFails
    PROVE  Transaction!Revoke
<1>1. pc = "writeLineage" /\ undone' = undone \cup {bundle.attempt}
  BY DEF LineageWriteFails, Step
<1>2. /\ plan.attempt = bundle.attempt /\ VerifiedAttempt(plan.attempt)
      /\ plan.attempt \notin undone
  BY <1>1, PhaseOfAttempt DEF CommitInv, UndoneInv, StageLabels
<1>3. Phase = "committed" /\ Phase' = "revoked"
  BY <1>1, <1>2, TransactionKeeps DEF Phase
<1>4. InstalledRelease' = InstalledRelease /\ marker' = marker
  BY <1>1, ProductionStands, ReleaseStands DEF StandingSet
<1> QED
  BY <1>3, <1>4, TransactionKeeps DEF Transaction!Revoke

\* The rollback of a revoked commit ends unfinished, with the failure on record.
LEMMA TransactionRecords ==
    ASSUME TypeOK, TypeOK', AttemptInv, ControlInv, CommitInv, UndoneInv, plan # NoPlan,
           plan' # NoPlan, [Next]_vars, Record, Phase' # Phase
    PROVE  Transaction!RecordFailure
<1>1. pc = "record" /\ undone' = undone \ {bundle.attempt} /\ pc # "idle"
  BY DEF Record
<1>2. plan.attempt = bundle.attempt /\ plan.attempt \in Attempts
  BY <1>1, PhaseOfAttempt
<1>3. ~VerifiedAttempt(plan.attempt)'
  <2>1. ~(Outcome.result = "success" /\ Outcome.state = "verified")
    BY DEF Outcome, Entry
  <2>2. bundle.mode = "recovery" => ~VerifiedAttempt(plan.attempt)
    BY <1>2 DEF CommitInv
  <2>3. plan'.attempt = plan.attempt
    BY TransactionKeeps
  <2> QED
    BY <1>2, <2>1, <2>2, <2>3 DEF Record, VerifiedAttempt, TypeOK
<1>4. Phase' = "open"
  BY <1>1, <1>2, <1>3, TransactionKeeps DEF Phase
<1>5. Phase = "revoked"
  BY <1>1, <1>4, PhaseOfAttempt
<1>6. InstalledRelease' = InstalledRelease /\ marker' = marker
  BY <1>1, ProductionStands, ReleaseStands DEF StandingSet
<1> QED
  BY <1>4, <1>5, <1>6, TransactionKeeps DEF Transaction!RecordFailure

\* Nothing else changes the phase while the plan is kept.
LEMMA PhaseStays ==
    ASSUME TypeOK, TypeOK', AttemptInv, ControlInv, CommitInv, UndoneInv, plan # NoPlan,
           plan' # NoPlan, [Next]_vars, ~Publish, ~LineageWriteFails, ~Record
    PROVE  Phase' = Phase
<1>1. /\ plan'.attempt = plan.attempt /\ ~ReceiveArchive /\ plan.attempt \in Attempts
      /\ undone' = undone
  BY TransactionKeeps, PhaseOfAttempt, HistoryStep DEF HistoryMoves
<1>2. VerifiedAttempt(plan.attempt) => VerifiedAttempt(plan.attempt)'
  <2>1. ASSUME NEW a \in Attempts, VerifiedAttempt(a) PROVE VerifiedAttempt(a)'
    BY <2>1, VerifiedAfter
  <2> QED
    BY <1>1, <2>1 DEF VerifiedAttempt
<1>3. VerifiedAttempt(plan.attempt)' => VerifiedAttempt(plan.attempt)
  <2>1. ASSUME NEW a \in Attempts, VerifiedAttempt(a)' PROVE VerifiedAttempt(a)
    BY <1>1, <2>1, VerifiedBefore
  <2> QED
    BY <1>1, <2>1 DEF VerifiedAttempt
<1> QED
  BY <1>1, <1>2, <1>3 DEF Phase

\* Removing the plan closes it: production is the target of a committed transaction, or
\* the release before it; a revoked one that passes for committed leaves what it leaves.
LEMMA TransactionCloses ==
    ASSUME TypeOK, TypeOK', ControlInv, LatestInv, CommitInv, UndoneInv, InstalledInv,
           torn \/ (CoherentInv /\ ProgressInv), plan # NoPlan, plan' = NoPlan, [Next]_vars
    PROVE  Transaction!RollBack \/ Transaction!Finish \/ Transaction!Abandon
<1> USE DEF Step
<1>1. DropStalePlan \/ Disarm \/ RollbackDisarms
  BY PlanRemoved
<1>2. /\ \A c \in Services : image'[c] = image[c]
      /\ UNCHANGED <<reference, dockerfile, static, marker, upstream, loaded>>
  BY <1>1 DEF DropStalePlan, Disarm, RollbackDisarms, docker, nginx
<1>3. \A v : Installed(v)' <=> Installed(v)
  BY <1>2 DEF Installed
<1>4. InstalledRelease' = InstalledRelease
  BY <1>3 DEF InstalledRelease, Mixed
<1>5. Transaction!Closed
  BY <1>2, <1>4 DEF Transaction!Closed, Phase
<1>6. ASSUME NEW v \in Versions, Installed(v) PROVE InstalledRelease = v /\ marker = v
  BY <1>6, InstalledIsUnique DEF Installed
<1>7. CASE RollbackDisarms
  <2>1. pc = "rbDisarm" /\ torn' = torn
    BY <1>7 DEF RollbackDisarms
  <2>2. Phase \in {"open", "revoked"} /\ plan.orig = orig
    BY <2>1, PhaseOfAttempt
  <2>3. ASSUME ~torn
        PROVE  InstalledRelease = plan.orig.marker /\ marker = plan.orig.marker
    <3>1. Installed(orig.image) /\ orig.image \in Versions
      BY <2>1, <2>3, RestoredAtEnd DEF TypeOK, Originals
    <3>2. orig.marker = orig.image
      BY <2>1, <2>3 DEF CoherentInv, Coherent
    <3> QED
      BY <1>6, <2>2, <3>1, <3>2
  <2> QED
    BY <1>5, <2>1, <2>2, <2>3 DEF Transaction!RollBack
<1>8. CASE Disarm
  <2>1. pc = "disarm" /\ torn' = FALSE
    BY <1>8 DEF Disarm
  <2>2. /\ plan.attempt = bundle.attempt /\ plan.attempt \notin undone
        /\ VerifiedAttempt(plan.attempt)
        /\ journal[plan.attempt].version = bundle.version
    BY <2>1, PhaseOfAttempt DEF CommitInv, UndoneInv
  <2>3. Installed(bundle.version) /\ bundle.version \in Versions
    BY <2>1, CommittedIsInstalled DEF TypeOK, Bundles
  <2>4. Phase = "committed"
    BY <2>2 DEF Phase
  <2> QED
    BY <1>5, <1>6, <2>1, <2>2, <2>3, <2>4 DEF Transaction!Finish
<1>9. CASE DropStalePlan
  <2>1. VerifiedAttempt(plan.attempt) /\ torn' = (plan.attempt \in undone)
    BY <1>9 DEF DropStalePlan
  <2>2. CASE plan.attempt \in undone
    BY <1>5, <2>1, <2>2 DEF Transaction!Abandon, Phase
  <2>3. CASE plan.attempt \notin undone
    <3>1. Phase = "committed"
      BY <2>1, <2>3 DEF Phase
    <3>2. torn' = FALSE
      <4>1. (plan.attempt \in undone) = FALSE
        BY <2>3
      <4> QED
        BY <2>1, <4>1
    <3>3. /\ Installed(journal[plan.attempt].version)
          /\ journal[plan.attempt].version \in Versions
      BY <2>1, <2>3 DEF LatestInv, InstalledInv, TypeOK, Plans, Entries
    <3> QED
      BY <1>5, <1>6, <3>1, <3>2, <3>3 DEF Transaction!Finish
  <2> QED
    BY <2>2, <2>3
<1> QED
  BY <1>1, <1>7, <1>8, <1>9

\* Outside it nothing moves.
LEMMA TransactionRests ==
    ASSUME TypeOK, ControlInv, PlanKeptInv, plan = NoPlan, plan' = NoPlan, [Next]_vars
    PROVE  UNCHANGED Transaction!vars
<1>1. InstalledRelease' = InstalledRelease /\ marker' = marker
  BY RestsWithoutPlan, ProductionStands, ReleaseStands
<1>2. torn' = torn
  BY HistoryStep DEF HistoryMoves, DropStalePlan, Disarm, Step, PlanKeptInv
<1>3. Phase' = "closed" /\ Phase = "closed"
  BY DEF Phase
<1> QED
  BY <1>1, <1>2, <1>3 DEF Transaction!vars

\* The receiver, failing, killed and recovered at any statement, is a sequence of
\* transactions.  Each ends with production being one release, the one its pointer names:
\* its target once its success is on record, else the release before it.  Only a success
\* that was revoked, because current.json could not be written, may be abandoned before
\* its failure is on record, and then production is torn until a later one ends.
THEOREM ReceiverImplementsTransaction == Spec => ImplementsTransaction
<1>1. RecoveryInv /\ RecoveryInv' /\ [Next]_vars
        => [Transaction!Next]_(Transaction!vars)
  <2> SUFFICES ASSUME RecoveryInv, RecoveryInv', [Next]_vars
               PROVE  [Transaction!Next]_(Transaction!vars)
    OBVIOUS
  <2> USE DEF RecoveryInv, ServedInv
  <2>1. CASE plan = NoPlan
    BY <2>1, TransactionOpens, TransactionRests DEF Transaction!Next
  <2>2. CASE plan # NoPlan /\ plan' = NoPlan
    BY <2>2, TransactionCloses DEF IntactInv, Transaction!Next
  <2>3. CASE plan # NoPlan /\ plan' # NoPlan
    BY <2>3, TransactionCommits, TransactionRevoked, TransactionRecords, PhaseStays,
       TransactionChanges DEF Transaction!Next
  <2> QED
    BY <2>1, <2>2, <2>3
<1> QED
  BY <1>1, TransactionInit, RecoveryInvariant, PTL DEF Spec, ImplementsTransaction,
     Transaction!Spec
=============================================================================
