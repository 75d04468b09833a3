------------------------ MODULE DeploymentProperties ------------------------
(***************************************************************************)
(* What the guarded deployment of module Deployment must guarantee.        *)
(***************************************************************************)
EXTENDS Deployment

\* Every variable keeps the shape the journal, the plan, Docker and Nginx give it.
TypeOK ==
    /\ plan \in Plans \cup {NoPlan}
    /\ journal \in [Attempts -> Entries]
    /\ lineage \in Versions /\ marker \in Versions
    /\ upstream \in Routes /\ dockerfile \in Versions
    /\ reference \in Versions /\ static \in Versions /\ schema \in Versions
    /\ image \in [Containers -> Versions \cup {Down}]
    /\ loaded \in Routes /\ serving \in SUBSET Targets
    /\ pc \in Labels
    /\ bundle \in Bundles /\ flags \in Flags /\ orig \in Originals
    /\ prior \in Routes \cup {NoRoute}
    /\ failed \in SUBSET {"smoke", "configuration", "workers", "gunicorn", "route",
                          "verification"}
    /\ baselines \in BOOLEAN /\ passed \in BOOLEAN /\ error \in BOOLEAN
    /\ faults \in 0 .. MaxFaults /\ crashes \in 0 .. MaxCrashes
    /\ undone \in SUBSET Attempts /\ torn \in BOOLEAN

\* One release is installed everywhere and nothing of an attempt is left in the route.
Installed(v) ==
    /\ \A c \in Services : image[c] = v
    /\ reference = v /\ dockerfile = v /\ static = v /\ marker = v
    /\ upstream = GunicornOnly /\ loaded = GunicornOnly

\* "Disarm restart recovery only after restore or verified publication"
\* (complete_recovery_plan): without a plan production is exactly one release.
DisarmedMeansWhole == plan = NoPlan => \E v \in Versions : Installed(v)

\* The loaded route always has a server that answers: no raw 502 while Gunicorn is
\* recreated, slots are removed, or an attempt is abandoned anywhere.
RouteServed == serving # {}

\* No slot is removed while the Nginx master still routes to it.
NoDanglingRoute == \A t \in Servers(loaded) : t = Gunicorn \/ image[t] # Down

\* Migrations come first: no running container needs a schema the database lacks.
SchemaSupportsRunning == \A c \in Containers : image[c] = Down \/ image[c] <= schema

\* Whatever fails and wherever the receiver is killed, what users reach works: the
\* loaded route answers, names only slots that run, and no running code lacks its schema.
UsersAreServed == RouteServed /\ NoDanglingRoute /\ SchemaSupportsRunning

\* The recovery plan is written ahead of every mutation of the stages: whatever differs
\* from the captured originals is covered by a flag that is already on disk.
Covered ==
        /\ image[Workers] # plan.orig.image \/ image[Beat] # plan.orig.image
              => plan.flags["workers"]
        /\ image[Gunicorn] # plan.orig.image => plan.flags["gunicorn"]
        /\ static # plan.orig.static => plan.flags["static"]
        /\ marker # plan.orig.marker \/ lineage # plan.orig.lineage
              => plan.flags["current"]
        /\ loaded # plan.orig.upstream => plan.flags["traffic"]

PlanCoversMutations == plan # NoPlan /\ pc \in StageLabels => Covered

\* "current.json changes only after every stage passes": the lineage pointer names the
\* baseline or a release whose attempt reached the verified state.
LineageVerified ==
    lineage = 0 \/ \E a \in Attempts :
        journal[a].state = "verified" /\ journal[a].version = lineage

\* A rollback reports success only once everything captured is back.
RollbackRestores ==
    pc = "record" /\ passed /\ Prepared =>
        /\ Installed(orig.image)
        /\ lineage = orig.lineage /\ marker = orig.marker

\* A plan whose flags stop before the migration is one a recovery restores without the
\* restart baselines it lacks.  It is never too short: also while a rollback acts on a
\* flag that could not be saved, production is still what the plan captured.
EarlyPlanIsComplete ==
    plan # NoPlan /\ ~plan.flags["migration"] =>
        /\ \A c \in Services : image[c] = plan.orig.image
        /\ static = plan.orig.static
        /\ marker = plan.orig.marker /\ lineage = plan.orig.lineage
        /\ loaded = GunicornOnly /\ upstream = GunicornOnly

\* The plan tells the truth about production: what it does not cover is unchanged, and
\* once it is gone, or its rollback reports success, production is one whole release.
\* One sequence breaks it, and only until a later release is verified: current.json could
\* not be written after the success record, the rollback of that attempt was killed or
\* failed before it could record the failure, and the next startup trusted the standing
\* success record and dropped the plan of the half-restored production.
PlanIsSound ==
    torn \/ (/\ DisarmedMeansWhole /\ PlanCoversMutations
             /\ EarlyPlanIsComplete /\ RollbackRestores)

\* A verified journal is never a lie between invocations: unless a later attempt was
\* accepted, the verified release is what production runs, with its plan or without.
\* The exception is an attempt that failed to write current.json after its success
\* record and ended without recording that it was rolled back.
SuccessIsInstalled ==
    \A a \in Attempts \ undone :
        journal[a].result = "success" /\ journal[a].state = "verified"
            /\ pc = "idle" /\ (\A b \in Attempts : b > a => journal[b].result = "absent")
            => Installed(journal[a].version)

\* A running invocation ends: it never waits for anything but its own statements.
InvocationEnds == pc # "idle" ~> pc = "idle"

\* A plan retained before the database was migrated is consumed by later invocations.
EarlyPlanConsumed ==
    (pc = "idle" /\ plan # NoPlan /\ ~plan.flags["migration"]) ~> (plan = NoPlan)

\* The receiver settles: its invocations end, and so do the plans of early kills.
ReceiverSettles == InvocationEnds /\ EarlyPlanConsumed

-----------------------------------------------------------------------------
(***************************************************************************)
(* The receiver implements the release transaction: the recovery plan is   *)
(* the transaction, what it captured is the release before it, the success *)
(* record commits it.                                                      *)
(***************************************************************************)
\* Outside Versions.
Mixed == MaxVersion + 1

InstalledRelease ==
    IF \E v \in Versions : Installed(v) THEN CHOOSE v \in Versions : Installed(v) ELSE Mixed

Phase ==
    IF plan = NoPlan THEN "closed"
    ELSE IF plan.attempt \in undone THEN "revoked"
    ELSE IF VerifiedAttempt(plan.attempt) THEN "committed"
    ELSE "open"

Transaction == INSTANCE ReleaseTransaction WITH
    Releases   <- Versions,
    Mixed      <- Mixed,
    phase      <- Phase,
    production <- InstalledRelease,
    pointer    <- marker,
    before     <- IF plan = NoPlan THEN marker ELSE plan.orig.marker,
    target     <- IF plan = NoPlan THEN marker ELSE journal[plan.attempt].version,
    torn       <- torn

\* The whole receiver, failing, killed and recovered at any statement, is a sequence of
\* transactions.  Each ends with production being the release before it or the one its
\* success record names, but for a committed one that was revoked and then abandoned.
ImplementsTransaction == Transaction!Spec

=============================================================================
