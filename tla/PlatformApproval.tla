-------------------------- MODULE PlatformApproval --------------------------
(***************************************************************************)
(* From a published release to production (ops/release/                    *)
(* platform_approval.py, reviewed_manual_deployment.py, open_sync_pr.py    *)
(* and the workflows that call them): the automatic run preflights the     *)
(* release and posts one readiness comment; the owner's merge commit       *)
(* carries the matching approval marker; the deployment run reads all of   *)
(* the evidence again at every boundary before it sends the release.       *)
(*                                                                         *)
(* The evidence is remote and changes between two reads: main moves,       *)
(* branches are updated, comments and artifacts are deleted, checks run    *)
(* again.  A version is its number; a commit is its parents, and for a     *)
(* merge the approval marker of its message.                               *)
(***************************************************************************)
EXTENDS Integers, Sequences, FiniteSets

CONSTANTS
  MaxVersions,   \* bound of the releases published
  MaxPreflights, \* bound of the manual preflights
  MaxEvents      \* bound of what people and GitHub do besides: features merged,
                 \* branches updated, checks and runs repeated, evidence deleted,
                 \* manual deployments dispatched

ASSUME BoundsAssumption == {MaxVersions, MaxPreflights, MaxEvents} \subseteq Nat

VARIABLES
  commits, main,
  release, sync,   \* of a version: its release commit, its synchronization branch
  request,         \* "none", "open", or the merge commit of the closed request
  checks,          \* the statuses of the Validate PR runs of the release head
  run,             \* the automatic release run of a version
  bound,           \* the Validate PR run its readiness names
  artifact,        \* its retained preflight evidence
  comment,         \* the readiness comment: the Validate PR run it names, or none
  gate,            \* the deployment run of the merge: boundary reads passed
  attempt,         \* its run attempt
  preflight,       \* manual preflights: [version, commit, status]
  dispatch,        \* manual deployments: [preflight, commit]
  stage, tries,    \* of a manual deployment: how far it is, and its run attempt
  production,      \* the run that holds the production concurrency group
  sent,            \* the deployments sent, in their order
  events           \* how many of the bounded events there were

git == <<commits, main, release, sync, request>>
evidence == <<checks, run, bound, artifact, comment>>
started == <<preflight, dispatch>>
manual == <<started, stage, tries>>
deployment == <<gate, attempt, production, sent>>
vars == <<git, evidence, manual, deployment, events>>

None == 0
NoMarker == << >>
Free == << >>
Published == 1..Len(release)
Source(v) == commits[release[v]].parents[1]
Merge(v) == request[v].merge
Open(v) == request[v].state = "open"

(* The payload of a readiness comment, and the marker its approval copies. *)
Payload(v, check) == <<v, release[v], check>>

Reads == 8            \* two passes in each of the four boundary checks
Started == 0
Absent == -1
Refused == -2
Deployed == -3

Init ==
  /\ commits = <<[kind |-> "feature", parents |-> << >>, marker |-> NoMarker]>> /\ main = 1
  /\ release = << >> /\ sync = << >> /\ request = << >>
  /\ checks = << >> /\ run = << >> /\ bound = << >> /\ artifact = << >> /\ comment = << >>
  /\ gate = << >> /\ attempt = << >> /\ production = Free /\ sent = << >>
  /\ preflight = << >> /\ dispatch = << >> /\ stage = << >> /\ tries = << >>
  /\ events = 0

Fresh == Len(commits) + 1
Event == events < MaxEvents /\ events' = events + 1
Commit(kind, parents, marker) ==
  commits' = Append(commits, [kind |-> kind, parents |-> parents, marker |-> marker])
Ancestors ==
  LET from[c \in 1..Len(commits)] ==
        {c} \cup UNION {from[commits[c].parents[i]] : i \in 1..Len(commits[c].parents)}
  IN from
(* The commits main has been at.                                           *)
MainLine ==
  LET line[c \in 1..Len(commits)] ==
        {c} \cup IF commits[c].parents = << >> THEN {} ELSE line[commits[c].parents[1]]
  IN line[main]

(* The source carries every published release and a change since the last. *)
Releasable(source) ==
  /\ \A v \in Published : release[v] \in Ancestors[source]
  /\ \E c \in Ancestors[source] :
       /\ commits[c].kind = "feature"
       /\ \A v \in Published : c \notin Ancestors[release[v]]

-----------------------------------------------------------------------------
(* main and the releases published from it.                                *)
MergeFeature ==
  /\ Event /\ Commit("feature", <<main>>, NoMarker) /\ main' = Fresh
  /\ UNCHANGED <<release, sync, request, evidence, manual, deployment>>

(* The publishing build: from the tested source, which was main when it    *)
(* was last read, once every published release is on it.  Its request is   *)
(* opened by the run, or by hand when the run failed after publishing.     *)
Publish ==
  /\ Len(release) < MaxVersions
  /\ \E source \in MainLine : Releasable(source) /\ Commit("release", <<source>>, NoMarker)
  /\ release' = Append(release, Fresh) /\ sync' = Append(sync, Fresh)
  /\ request' = Append(request, [state |-> "open", merge |-> None])
  /\ checks' = Append(checks, <<"pending">>)
  /\ \E outcome \in {"preflight", "failure"} : run' = Append(run, outcome)
  /\ bound' = Append(bound, None)
  /\ artifact' = Append(artifact, "none") /\ comment' = Append(comment, NoMarker)
  /\ gate' = Append(gate, Absent) /\ attempt' = Append(attempt, 1)
  /\ UNCHANGED <<main, manual, production, sent, events>>

UpdateBranch(v) ==
  /\ Event /\ Open(v) /\ main \notin Ancestors[sync[v]]
  /\ Commit("update", <<sync[v], main>>, NoMarker) /\ sync' = [sync EXCEPT ![v] = Fresh]
  /\ UNCHANGED <<main, release, request, evidence, manual, deployment>>

(* The owner merges, with the marker of the comment or without; the event  *)
(* starts the deployment run.                                              *)
MergeRequest(v) ==
  /\ Open(v)
  /\ \E marker \in {NoMarker, comment[v]} : Commit("merge", <<main, sync[v]>>, marker)
  /\ main' = Fresh
  /\ request' = [request EXCEPT ![v] = [state |-> "closed", merge |-> Fresh]]
  /\ gate' = [gate EXCEPT ![v] = Started]
  /\ UNCHANGED <<release, sync, evidence, manual, attempt, production, sent, events>>

-----------------------------------------------------------------------------
(* Validate PR on the release head; any run of it may be repeated.         *)
Newest(v) == Len(checks[v])
CheckEnds(v) ==
  /\ checks[v][Newest(v)] = "pending"
  /\ \E status \in {"success", "failure"} : checks' = [checks EXCEPT ![v][Newest(v)] = status]
  /\ UNCHANGED <<git, run, bound, artifact, comment, manual, deployment, events>>

CheckAgain(v) ==
  /\ checks[v][Newest(v)] # "pending" /\ Event
  /\ checks' = [checks EXCEPT ![v] = Append(@, "pending")]
  /\ UNCHANGED <<git, run, bound, artifact, comment, manual, deployment>>

Lose(v) ==
  /\ Event
  /\ \/ /\ comment[v] # NoMarker /\ comment' = [comment EXCEPT ![v] = NoMarker]
        /\ UNCHANGED artifact
     \/ /\ artifact[v] = "retained" /\ artifact' = [artifact EXCEPT ![v] = "gone"]
        /\ UNCHANGED comment
  /\ UNCHANGED <<git, checks, run, bound, manual, deployment>>

-----------------------------------------------------------------------------
(* The automatic run after its publication: preflight, and ready.          *)
RunAt(v, step) == run[v] = step
RunGoto(v, step) == run' = [run EXCEPT ![v] = step]

Preflight(v) ==
  /\ RunAt(v, "preflight") /\ production = Free
  /\ RunGoto(v, "read") /\ artifact' = [artifact EXCEPT ![v] = "retained"]
  /\ UNCHANGED <<git, checks, bound, comment, manual, deployment, events>>

ReleaseUnmoved(v) == main = Source(v) /\ sync[v] = release[v]

ReadEvidence(v) ==
  /\ RunAt(v, "read") /\ checks[v][Newest(v)] # "pending"
  /\ IF /\ Open(v) /\ ReleaseUnmoved(v) /\ artifact[v] = "retained"
        /\ checks[v][Newest(v)] = "success"
     THEN RunGoto(v, "reread") /\ bound' = [bound EXCEPT ![v] = Newest(v)]
     ELSE RunGoto(v, "failure") /\ UNCHANGED bound
  /\ UNCHANGED <<git, checks, artifact, comment, manual, deployment, events>>

ReadAgain(v) ==
  /\ RunAt(v, "reread")
  /\ RunGoto(v, IF ReleaseUnmoved(v) /\ artifact[v] = "retained" /\ comment[v] = NoMarker
                THEN "post" ELSE "failure")
  /\ UNCHANGED <<git, checks, bound, artifact, comment, manual, deployment, events>>

PostReady(v) ==
  /\ RunAt(v, "post")
  /\ \/ /\ comment' = [comment EXCEPT ![v] = Payload(v, bound[v])]
        /\ \E next \in {"finish", "failure"} : RunGoto(v, next)
     \/ RunGoto(v, "failure") /\ UNCHANGED comment
  /\ UNCHANGED <<git, checks, bound, artifact, manual, deployment, events>>

RunEnds(v) ==
  /\ run[v] \notin {"success", "failure"}
  /\ RunGoto(v, IF RunAt(v, "finish") THEN "success" ELSE "failure")
  /\ UNCHANGED <<git, checks, bound, artifact, comment, manual, deployment, events>>

-----------------------------------------------------------------------------
(* authorize, at each of the four boundaries.  The first pass reads all of *)
(* the evidence, the second what may have changed meanwhile.               *)
MergedAsTested(v) == commits[Merge(v)].parents = <<Source(v), release[v]>>
LiveApproval(v) == comment[v] # NoMarker /\ commits[Merge(v)].marker = comment[v]
RunsVerified(v) ==
  /\ run[v] = "success"
  /\ comment[v][3] = Newest(v) /\ checks[v][Newest(v)] = "success"

\* Mutant: an attempt after the first is accepted.
AnyAttempt(v) == attempt[v] > 0
FirstAttempt(v) == attempt[v] = 1

\* Mutant: the merge commit is looked up by its marker, not by its parents.
FirstPassOfAnyMerge(v) ==
  /\ FirstAttempt(v) /\ main = Merge(v)
  /\ LiveApproval(v) /\ RunsVerified(v) /\ artifact[v] = "retained"
FirstPass(v) ==
  /\ FirstAttempt(v)
  /\ MergedAsTested(v) /\ main = Merge(v)
  /\ LiveApproval(v) /\ RunsVerified(v) /\ artifact[v] = "retained"
(* A pass is one step here; in the code it is many requests, and main may  *)
(* move once the pass has looked at it.                                    *)
\* Mutant: the second pass does not read main again.
LastPassOfOldMain(v) == FirstAttempt(v) /\ LiveApproval(v) /\ artifact[v] = "retained"
LastPass(v) == FirstAttempt(v) /\ main = Merge(v) /\ LiveApproval(v) /\ artifact[v] = "retained"

Queued == 4           \* reads before the production group is needed
Holds(holder) == production = holder
GateTurn(v) == \A w \in Published \ {v} : gate[w] \notin 1..Reads

GateRefuses(v) ==
  /\ gate' = [gate EXCEPT ![v] = Refused]
  /\ production' = IF Holds(<<"approved", v>>) THEN Free ELSE production

GateRead(v) ==
  /\ gate[v] \in 0..(Reads - 1) /\ GateTurn(v)
  /\ gate[v] >= Queued => Holds(<<"approved", v>>)
  /\ IF (IF gate[v] % 2 = 0 THEN FirstPass(v) ELSE LastPass(v))
     THEN gate' = [gate EXCEPT ![v] = @ + 1] /\ UNCHANGED production
     ELSE GateRefuses(v)
  /\ UNCHANGED <<git, evidence, manual, attempt, sent, events>>

GateEnters(v) ==
  /\ gate[v] = Queued /\ production = Free
  /\ production' = <<"approved", v>>
  /\ UNCHANGED <<git, evidence, manual, gate, attempt, sent, events>>

GateSends(v) ==
  /\ gate[v] = Reads
  /\ gate' = [gate EXCEPT ![v] = Deployed] /\ production' = Free
  /\ sent' = Append(sent, <<"approved", v>>)
  /\ UNCHANGED <<git, evidence, manual, attempt, events>>

(* Cancelled in the queue, or failed for its own reasons.                  *)
GateFails(v) ==
  /\ gate[v] \in 0..Reads /\ GateRefuses(v)
  /\ UNCHANGED <<git, evidence, manual, attempt, sent, events>>

(* An operator runs the ended deployment again.                            *)
GateAgain(v) ==
  /\ Event
  /\ gate[v] \in {Refused, Deployed}
  /\ gate' = [gate EXCEPT ![v] = Started] /\ attempt' = [attempt EXCEPT ![v] = @ + 1]
  /\ UNCHANGED <<git, evidence, manual, production, sent>>

-----------------------------------------------------------------------------
(* reviewed_manual_deployment: the owner dispatches a preflight of any     *)
(* published release from main, then its deployment.                       *)
ManualPreflight(v) ==
  /\ Len(preflight) < MaxPreflights
  /\ preflight' = Append(preflight, [version |-> v, commit |-> main, status |-> "running"])
  /\ UNCHANGED <<git, evidence, dispatch, stage, tries, deployment, events>>

ManualPreflightEnds(p) ==
  /\ preflight[p].status = "running" /\ production = Free
  /\ \E status \in {"success", "failure"} : preflight' = [preflight EXCEPT ![p].status = status]
  /\ UNCHANGED <<git, evidence, dispatch, stage, tries, deployment, events>>

Dispatch(p) ==
  /\ Event /\ preflight[p].status # "running"
  /\ dispatch' = Append(dispatch, [preflight |-> p, commit |-> main])
  /\ stage' = Append(stage, "queued") /\ tries' = Append(tries, 1)
  /\ UNCHANGED <<git, evidence, preflight, deployment>>

Unconsumed(d) == \A e \in 1..Len(dispatch) : dispatch[e].preflight = dispatch[d].preflight => e = d
ManualEvidence(d) ==
  LET p == preflight[dispatch[d].preflight]
  IN /\ tries[d] = 1
     /\ main = dispatch[d].commit /\ p.commit = dispatch[d].commit
     /\ p.status = "success" /\ Unconsumed(d)

DispatchEnters(d) ==
  /\ stage[d] = "queued" /\ production = Free
  /\ production' = <<"manual", d>> /\ stage' = [stage EXCEPT ![d] = "read"]
  /\ UNCHANGED <<git, evidence, started, tries, gate, attempt, sent, events>>

DispatchReads(d) ==
  /\ stage[d] \in {"read", "reread"}
  /\ IF ManualEvidence(d)
     THEN /\ stage' = [stage EXCEPT ![d] = IF @ = "read" THEN "reread" ELSE "send"]
          /\ UNCHANGED production
     ELSE stage' = [stage EXCEPT ![d] = "refused"] /\ production' = Free
  /\ UNCHANGED <<git, evidence, started, tries, gate, attempt, sent, events>>

DispatchSends(d) ==
  /\ stage[d] = "send"
  /\ stage' = [stage EXCEPT ![d] = "sent"] /\ production' = Free
  /\ sent' = Append(sent, <<"manual", d>>)
  /\ UNCHANGED <<git, evidence, started, tries, gate, attempt, events>>

DispatchFails(d) ==
  /\ stage[d] \notin {"sent", "refused"}
  /\ stage' = [stage EXCEPT ![d] = "refused"]
  /\ production' = IF Holds(<<"manual", d>>) THEN Free ELSE production
  /\ UNCHANGED <<git, evidence, started, tries, gate, attempt, sent, events>>

DispatchAgain(d) ==
  /\ Event
  /\ stage[d] \in {"sent", "refused"}
  /\ stage' = [stage EXCEPT ![d] = "queued"] /\ tries' = [tries EXCEPT ![d] = @ + 1]
  /\ UNCHANGED <<git, evidence, started, deployment>>

-----------------------------------------------------------------------------
Automatic(v) == Preflight(v) \/ ReadEvidence(v) \/ ReadAgain(v) \/ PostReady(v) \/ RunEnds(v)
Gate(v) == GateRead(v) \/ GateEnters(v) \/ GateSends(v)
Manual(d) == DispatchEnters(d) \/ DispatchReads(d) \/ DispatchSends(d)

Next ==
  \/ MergeFeature \/ Publish
  \/ \E v \in Published :
       \/ UpdateBranch(v) \/ MergeRequest(v) \/ CheckEnds(v) \/ CheckAgain(v) \/ Lose(v)
       \/ Automatic(v) \/ Gate(v) \/ GateFails(v) \/ GateAgain(v)
       \/ ManualPreflight(v)
  \/ \E p \in 1..Len(preflight) : ManualPreflightEnds(p) \/ Dispatch(p)
  \/ \E d \in 1..Len(dispatch) : Manual(d) \/ DispatchFails(d) \/ DispatchAgain(d)

Spec == Init /\ [][Next]_vars
=============================================================================
