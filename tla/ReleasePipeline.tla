-------------------------- MODULE ReleasePipeline --------------------------
(***************************************************************************)
(* The preparation of platform releases: pull requests merged to main, the *)
(* build workflow from the exact source to the atomic publication of the   *)
(* release and synchronization branches, and the synchronization pull      *)
(* request (buh_release.py, ledger.py, open_sync_pr.py and the workflow    *)
(* build-platform-release.yml that runs them).                             *)
(*                                                                         *)
(* Publishing builds are one concurrency group: one runs at a time.  main  *)
(* is not leased by the push, and people merge whenever they like.  Reads  *)
(* and writes of the remote are steps of their own; the answer to a write  *)
(* can be lost.                                                            *)
(***************************************************************************)
EXTENDS ReleaseLedger

CONSTANTS MaxReleases,   \* bound of the releases published
          MaxBuilds,     \* bound of the builds started
          MaxUpdates     \* bound of "Update branch" on synchronization PRs

ASSUME PipelineBounds == {MaxReleases, MaxBuilds, MaxUpdates} \subseteq Nat

VARIABLES
  history,    \* every commit
  main,       \* refs/heads/main
  release,    \* refs/heads/release/platform-v*
  sync,       \* refs/heads/sync/platform-v*
  request,    \* the synchronization pull request of a version
  merged,     \* the pull requests merged
  build,      \* the publishing build
  reported,   \* the versions whose build ended with its report
  builds, updates

refs == <<release, sync>>
pipeline == <<history, main, refs, request, merged, build, reported, builds, updates>>

Start == [content |-> [a \in Apps |-> {}], platform |-> {},
          version |-> [a \in Apps |-> <<1, 0, 0>>], fragments |-> {}, ledger |-> {}]
Idle == [phase |-> "idle", source |-> 1, pinned |-> << >>]

Tree(c) == history[c].tree
Tip == Tree(main)
Fresh == Len(history) + 1
Commit(parents, tree) == history' = Append(history, [parents |-> parents, tree |-> tree])
With(function, key, value) ==
  [k \in DOMAIN function \cup {key} |-> IF k = key THEN value ELSE function[k]]

PipelineInit ==
  /\ history = <<[parents |-> << >>, tree |-> Start]>>
  /\ main = 1
  /\ release = << >> /\ sync = << >> /\ request = << >>
  /\ merged = {}
  /\ build = Idle /\ reported = {}
  /\ builds = 0 /\ updates = 0

-----------------------------------------------------------------------------
(* main: a feature is merged, whatever was checked of it before.           *)
MergePull(p) ==
  /\ p \notin merged /\ merged' = merged \cup {p}
  /\ Commit(<<main>>,
       [Tip EXCEPT
         !.content = [a \in Apps |-> IF a \in Touches[p] THEN @[a] \cup {p} ELSE @[a]],
         !.platform = IF Platform \in Touches[p] THEN @ \cup {p} ELSE @,
         !.fragments = @ \cup {[pull |-> p, subject |-> d.subject, kind |-> d.kind] :
                               d \in Declares[p]}])
  /\ main' = Fresh
  /\ UNCHANGED <<refs, request, build, reported, builds, updates>>

(* The merge of a release into a tree: the release commit changes nothing  *)
(* a feature changes.                                                      *)
Synchronised(v) ==
  ReleaseTree(Tip, ManifestOf(Tree(release[v]).ledger, v))

Open(v) == v \in DOMAIN request /\ request[v] = "open"

UpdateBranch(v) ==
  /\ updates < MaxUpdates /\ updates' = updates + 1
  /\ Open(v) /\ ~Ancestor(history, main, sync[v])
  /\ Commit(<<sync[v], main>>, Synchronised(v))
  /\ sync' = [sync EXCEPT ![v] = Fresh]
  /\ UNCHANGED <<main, release, request, merged, build, reported, builds>>

MergeSync(v) ==
  /\ Open(v) /\ request' = [request EXCEPT ![v] = "merged"]
  /\ Commit(<<main, sync[v]>>, Synchronised(v))
  /\ main' = Fresh
  /\ UNCHANGED <<refs, merged, build, reported, builds, updates>>

-----------------------------------------------------------------------------
(* The publishing build.                                                   *)
At(phase) == build.phase = phase
Goto(phase) == build' = [build EXCEPT !.phase = phase]
Abort == build' = Idle

(* What is published is a function of the source alone.                    *)
Target == PlatformVersion(Tree(build.source))
ReleaseCommit ==
  [parents |-> <<build.source>>,
   tree |-> ReleaseTree(Tree(build.source), Manifest(Tree(build.source), build.source))]
IsReleaseCommit(c) == history[c] = ReleaseCommit

StartBuild ==
  /\ At("idle") /\ builds < MaxBuilds /\ builds' = builds + 1
  /\ Cardinality(DOMAIN release) < MaxReleases
  /\ build' = [phase |-> "candidate", source |-> main, pinned |-> << >>]
  /\ UNCHANGED <<history, main, refs, request, merged, reported, updates>>

CandidateAccepted ==
  /\ LedgerVerifies(history, release, build.source)
  /\ Plannable(Tree(build.source)) /\ ReleaseRequired(Tree(build.source))
  /\ NoWheelCollision(Tree(build.source))
  /\ TargetAccepted(release, Target)

Prepare ==
  /\ At("candidate")
  /\ IF CandidateAccepted
     THEN build' = [build EXCEPT !.phase = "prepared", !.pinned = release]
     ELSE Abort
  /\ UNCHANGED <<history, main, refs, request, merged, reported, builds, updates>>

PublicationAccepted ==
  /\ LedgerVerifies(history, release, build.source) /\ release = build.pinned
  /\ TargetAccepted(release, Target)
  /\ main = build.source
  /\ Target \notin DOMAIN sync

VerifyPublication ==
  /\ At("prepared")
  /\ IF PublicationAccepted THEN Goto("verified") ELSE Abort
  /\ UNCHANGED <<history, main, refs, request, merged, reported, builds, updates>>

(* One atomic push, leased on the absence of both branches.  It may have   *)
(* been applied or not, and the build does not learn which from an answer  *)
(* that was lost: the next read decides.                                   *)
Push ==
  /\ At("verified") /\ Goto("pushed")
  /\ \/ /\ Target \notin DOMAIN release \cup DOMAIN sync
        /\ Commit(ReleaseCommit.parents, ReleaseCommit.tree)
        /\ release' = With(release, Target, Fresh)
        /\ sync' = With(sync, Target, Fresh)
     \/ UNCHANGED <<history, refs>>
  /\ UNCHANGED <<main, request, merged, reported, builds, updates>>

ExactTransition ==
  /\ DOMAIN release = DOMAIN build.pinned \cup {Target}
  /\ \A v \in DOMAIN build.pinned : release[v] = build.pinned[v]
  /\ IsReleaseCommit(release[Target])
  /\ Target \in DOMAIN sync /\ sync[Target] = release[Target]

Confirm ==
  /\ At("pushed")
  /\ IF ExactTransition THEN Goto("confirmed") ELSE Abort
  /\ UNCHANGED <<history, main, refs, request, merged, reported, builds, updates>>

-----------------------------------------------------------------------------
(* open_sync_pr: at most one open request exists for a branch.             *)
RemoteStateExact ==
  /\ Target \in DOMAIN release /\ IsReleaseCommit(release[Target])
  /\ sync[Target] = release[Target]
  /\ Ancestor(history, build.source, main)
ExactRequest == Open(Target) /\ sync[Target] = release[Target]

ListRequest ==
  /\ At("confirmed")
  /\ IF ~RemoteStateExact THEN Abort
     ELSE Goto(IF ExactRequest THEN "created" ELSE "listed")
  /\ UNCHANGED <<history, main, refs, request, merged, reported, builds, updates>>

(* The creation is never repeated: an answer that does not settle it leads *)
(* to a second listing.                                                    *)
CreateRequest ==
  /\ At("listed")
  /\ \/ /\ Target \notin DOMAIN request
        /\ request' = With(request, Target, "open")
        /\ \/ Goto("created")
           \/ Goto("ambiguous")
     \/ Goto("ambiguous") /\ UNCHANGED request
  /\ UNCHANGED <<history, main, refs, merged, reported, builds, updates>>

RecoverRequest ==
  /\ At("ambiguous")
  /\ IF ExactRequest THEN Goto("created") ELSE Abort
  /\ UNCHANGED <<history, main, refs, request, merged, reported, builds, updates>>

ReportRequest ==
  /\ At("created") /\ Abort
  /\ reported' = IF RemoteStateExact /\ ExactRequest THEN reported \cup {Target} ELSE reported
  /\ UNCHANGED <<history, main, refs, request, merged, builds, updates>>

(* The build may end at any job, and an operator opens the request of what *)
(* it had published.                                                       *)
BuildFails ==
  /\ ~At("idle") /\ Abort
  /\ UNCHANGED <<history, main, refs, request, merged, reported, builds, updates>>

OpenByHand(v) ==
  /\ v \in DOMAIN sync \ DOMAIN request
  /\ request' = With(request, v, "open")
  /\ UNCHANGED <<history, main, refs, merged, build, reported, builds, updates>>

Build ==
  \/ StartBuild \/ Prepare \/ VerifyPublication \/ Push \/ Confirm
  \/ ListRequest \/ CreateRequest \/ RecoverRequest \/ ReportRequest \/ BuildFails

People ==
  \/ \E p \in PullRequests : MergePull(p)
  \/ \E v \in DOMAIN sync : UpdateBranch(v) \/ MergeSync(v) \/ OpenByHand(v)

PipelineNext == Build \/ People
PipelineSpec == PipelineInit /\ [][PipelineNext]_pipeline
=============================================================================
