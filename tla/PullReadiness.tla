--------------------------- MODULE PullReadiness ---------------------------
(***************************************************************************)
(* Readiness of one feature pull request (ops/readiness.py and the         *)
(* workflow "Validate Work readiness", invalidate-readiness.yml).  Every   *)
(* event that may change the evidence starts a policy run, which removes   *)
(* ready-for-work and invalidates the pointer comment; the run of an       *)
(* implementer's request then collects the evidence three times, points to *)
(* the new record and adds ready-for-work last.  GitHub runs one policy    *)
(* run at a time and keeps one waiting: a new event replaces the waiting   *)
(* one.  After the merge, verify_published compares the record with the    *)
(* evidence as it is then.                                                 *)
(*                                                                         *)
(* The evidence of a head is the newest run of each workflow, the version  *)
(* of its reviews and comments, and whether the serious threads are        *)
(* resolved.  A policy run that meets something unexpected fails, and its  *)
(* last step fails closed.                                                 *)
(***************************************************************************)
EXTENDS Integers, FiniteSets

CONSTANTS
  Workflows,     \* Validate PR and, where a preview is needed, Preview UI
  Source,        \* Validate PR
  MaxEvents,     \* bound of what people do to the pull request
  MaxTroubles    \* bound of the requests GitHub fails and the runs that lose their place

ASSUME SourceAssumption == Source \in Workflows
ASSUME BoundsAssumption == {MaxEvents, MaxTroubles} \subseteq Nat

VARIABLES
  request,       \* "open" or "merged"
  head, base,    \* the head, a number; "main" or "other"
  labels,        \* of "codex", "ready", "needs"
  newest, status,   \* of a workflow: its newest run on this head and its status
  review, serious,  \* the version of the reviews, and whether one is serious
  resolved,      \* the serious threads are resolved
  state, pointed, recorded,   \* the pointer comment: its state, head and record
  step,          \* of the policy run that holds the group, or "idle"
  event,         \* what started it
  target,        \* the head it works on
  consumed,      \* it took down a request for that head
  seen, record,  \* the runs it read, and the record it collected
  waiting,       \* the event that waits for the group
  last,          \* how the newest policy run ended
  merged,        \* the evidence when the pull request was merged
  release,       \* the step of the verification of the merged feature
  requests, records,   \* readiness requested, and records published
  displaced,     \* a label of no meaning took the place of an event that waited
  events, troubles   \* counters of the two bounds

pull == <<request, head, base, labels>>
evidence == <<newest, status, review, serious, resolved>>
pointer == <<state, pointed, recorded>>
run == <<event, target, consumed, seen, record>>
group == <<step, run, waiting, last>>
counts == <<requests, records, displaced, events, troubles>>
vars == <<pull, evidence, pointer, group, merged, release, counts>>

Evidence(runs) == [runs |-> runs, review |-> review, resolved |-> resolved]
Snapshot == Evidence(newest)
NoRuns == [w \in Workflows |-> 0]
None == [runs |-> NoRuns, review |-> 0, resolved |-> FALSE]

(* What starts a policy run.  Only a request is bound to the head and the  *)
(* base it was made for.                                                   *)
Of(kind) == [kind |-> kind, head |-> 0, main |-> FALSE]
Request == [kind |-> "request", head |-> head, main |-> base = "main"]
Nothing == Of("nothing")

Init ==
  /\ request = "open" /\ head = 1 /\ base = "main" /\ labels = {"codex", "needs"}
  /\ newest = [w \in Workflows |-> 1] /\ status = [w \in Workflows |-> "success"]
  /\ review = 1 /\ serious = FALSE /\ resolved = TRUE
  /\ state = "none" /\ pointed = 0 /\ recorded = None
  /\ step = "idle" /\ event = Nothing /\ target = 0 /\ consumed = FALSE
  /\ seen = NoRuns /\ record = None
  /\ waiting = Nothing /\ last = "success"
  /\ merged = None /\ release = "none"
  /\ requests = 0 /\ records = 0 /\ displaced = FALSE
  /\ events = 0 /\ troubles = 0

-----------------------------------------------------------------------------
(* The concurrency group of the pull request.                              *)
Starts(e) ==
  /\ step' = IF e = Nothing THEN "idle" ELSE IF e.kind = "request" THEN "consume" ELSE "target"
  /\ event' = e /\ target' = 0 /\ consumed' = FALSE /\ seen' = NoRuns /\ record' = None
Notify(e) ==
  IF step = "idle"
  THEN Starts(e) /\ UNCHANGED <<waiting, last>>
  ELSE waiting' = e /\ UNCHANGED <<step, run, last>>

Ends(conclusion) == Starts(waiting) /\ waiting' = Nothing /\ last' = conclusion

Goto(next) == step' = next /\ UNCHANGED <<run, waiting, last>>

Event == request = "open" /\ events < MaxEvents /\ events' = events + 1
Counted == UNCHANGED <<requests, records, displaced, troubles>>

-----------------------------------------------------------------------------
(* What people and the other workflows do.  A head has runs of its own.    *)
Push ==
  /\ Event /\ head' = head + 1
  /\ newest' = [w \in Workflows |-> newest[w] + 1] /\ status' = [w \in Workflows |-> "pending"]
  /\ Notify(Of("change")) /\ Counted
  /\ UNCHANGED <<request, base, labels, review, serious, resolved, pointer, merged, release>>

Rerun(w) ==
  /\ events < MaxEvents /\ events' = events + 1
  /\ status[w] # "pending"
  /\ newest' = [newest EXCEPT ![w] = @ + 1] /\ status' = [status EXCEPT ![w] = "pending"]
  /\ Notify(Of("change")) /\ Counted
  /\ UNCHANGED <<pull, review, serious, resolved, pointer, merged, release>>

Finish(w) ==
  /\ status[w] = "pending"
  /\ \E conclusion \in {"success", "failure"} : status' = [status EXCEPT ![w] = conclusion]
  /\ Notify(Of("change")) /\ Counted
  /\ UNCHANGED <<pull, newest, review, serious, resolved, pointer, merged, release, events>>

(* A review, a review comment or a comment of the conversation.            *)
Comment ==
  /\ events < MaxEvents /\ events' = events + 1
  /\ review' = review + 1 /\ serious' \in BOOLEAN
  /\ Notify(Of("change")) /\ Counted
  /\ UNCHANGED <<pull, newest, status, resolved, pointer, merged, release>>

(* A thread is resolved, or not any more: no event of the workflow.        *)
Resolve ==
  /\ events < MaxEvents /\ events' = events + 1
  /\ resolved' = ~resolved /\ Counted
  /\ UNCHANGED <<pull, newest, status, review, serious, pointer, group, merged, release>>

Retarget ==
  /\ Event /\ base' = IF base = "main" THEN "other" ELSE "main"
  /\ Notify(Of("change")) /\ Counted
  /\ UNCHANGED <<request, head, labels, evidence, pointer, merged, release>>

RequestReadiness ==
  /\ Event /\ "ready" \notin labels
  /\ labels' = labels \cup {"ready"} /\ requests' = requests + 1
  /\ Notify(Request)
  /\ UNCHANGED <<request, head, base, evidence, pointer, merged, release, records, displaced,
                 troubles>>

RefuseReadiness ==
  /\ Event /\ "ready" \in labels
  /\ labels' = (labels \ {"ready"}) \cup {"needs"}
  /\ Notify(Of("change")) /\ Counted
  /\ UNCHANGED <<request, head, base, evidence, pointer, merged, release>>

LabelCodex ==
  /\ Event
  /\ IF "codex" \in labels
     THEN labels' = labels \ {"codex"} /\ Notify(Of("uncodex"))
     ELSE labels' = labels \cup {"codex"} /\ Notify(Of("change"))
  /\ Counted
  /\ UNCHANGED <<request, head, base, evidence, pointer, merged, release>>

(* A label of no meaning: its run has no job, but joins the group and      *)
(* takes the place of the event that waits, if there is one.               *)
LabelUnrelated ==
  /\ request = "open" /\ troubles < MaxTroubles /\ troubles' = troubles + 1
  /\ waiting # Nothing /\ waiting' = Nothing /\ displaced' = TRUE
  /\ UNCHANGED <<pull, evidence, pointer, step, run, last, merged, release, requests, records,
                 events>>

Green == \A w \in Workflows : status[w] = "success"
Merge ==
  /\ request = "open" /\ base = "main" /\ Green
  /\ request' = "merged" /\ merged' = Snapshot /\ release' = "pull"
  /\ UNCHANGED <<head, base, labels, evidence, pointer, group, counts>>

-----------------------------------------------------------------------------
(* A policy run.  Each step reads the pull request again.                  *)
SameHead == request = "open" /\ head = target
Fails == Goto("closed")
NotReady == Goto("not ready")

(* The request is taken down before anything is read; its run may publish  *)
(* only where the head it was made for is still the head.                  *)
Consume ==
  /\ step = "consume"
  /\ IF request # "open"
     THEN Ends("failure") /\ UNCHANGED labels
     ELSE IF ~event.main \/ base # "main" \/ "codex" \notin labels
     THEN Goto("target") /\ labels' = labels \ {"ready"}
     ELSE /\ labels' = (labels \ {"ready"}) \cup {"needs"}
          /\ step' = "target" /\ consumed' = (head = event.head)
          /\ UNCHANGED <<event, target, seen, record, waiting, last>>
  /\ UNCHANGED <<request, head, base, evidence, pointer, merged, release, counts>>

Target ==
  /\ step = "target"
  /\ IF request = "open" /\ ("codex" \in labels \/ event.kind = "uncodex")
     THEN /\ step' = "labels" /\ target' = head
          /\ consumed' = (consumed /\ base = "main" /\ head = event.head)
          /\ displaced' = FALSE
          /\ UNCHANGED <<event, seen, record, waiting, last>>
     ELSE Ends("success") /\ UNCHANGED displaced
  /\ UNCHANGED <<pull, evidence, pointer, merged, release, requests, records, events, troubles>>

\* Mutant: the label of an earlier request stays.
InvalidateNeedsOnly ==
  /\ step = "labels"
  /\ IF SameHead /\ ("codex" \in labels <=> event.kind # "uncodex")
     THEN /\ labels' = IF event.kind = "uncodex" THEN labels \ {"ready"}
                       ELSE labels \cup {"needs"}
          /\ Goto("pointer")
     ELSE Fails /\ UNCHANGED labels
  /\ UNCHANGED <<request, head, base, evidence, pointer, merged, release, counts>>
InvalidateLabels ==
  /\ step = "labels"
  /\ IF SameHead /\ ("codex" \in labels <=> event.kind # "uncodex")
     THEN /\ labels' = IF event.kind = "uncodex" THEN labels \ {"ready"}
                       ELSE (labels \ {"ready"}) \cup {"needs"}
          /\ Goto("pointer")
     ELSE Fails /\ UNCHANGED labels
  /\ UNCHANGED <<request, head, base, evidence, pointer, merged, release, counts>>

Invalidate ==
  /\ state' = IF state = "none" THEN "none" ELSE "invalidated"
  /\ UNCHANGED <<pointed, recorded>>

\* Mutant: only the run of a request invalidates the pointer.
InvalidatePointerOfRequests ==
  /\ step = "pointer"
  /\ IF ~SameHead THEN Fails /\ UNCHANGED pointer
     ELSE /\ IF consumed THEN Invalidate ELSE UNCHANGED pointer
          /\ IF consumed THEN Goto("checks") ELSE Ends("success")
  /\ UNCHANGED <<pull, evidence, merged, release, counts>>
InvalidatePointer ==
  /\ step = "pointer"
  /\ IF ~SameHead THEN Fails /\ UNCHANGED pointer
     ELSE /\ Invalidate
          /\ IF consumed THEN Goto("checks") ELSE Ends("success")
  /\ UNCHANGED <<pull, evidence, merged, release, counts>>

(* collect: the workflows are read first, then the reviews, then the pull  *)
(* request again.  The second and third time the record must be the same.  *)
Eligible == SameHead /\ base = "main" /\ "codex" \in labels
Publishable == Eligible /\ "ready" \notin labels /\ "needs" \in labels

CollectChecks(at, next) ==
  /\ step = at
  /\ IF Eligible /\ Green
     THEN /\ step' = next /\ seen' = newest
          /\ UNCHANGED <<event, target, consumed, record, waiting, last>>
     ELSE IF at = "checks" THEN NotReady ELSE Fails
  /\ UNCHANGED <<pull, evidence, pointer, merged, release, counts>>

CollectReviews(at, next) ==
  /\ step = at
  /\ IF /\ Publishable /\ ~serious /\ resolved
        /\ at = "reviews" \/ Evidence(seen) = record
     THEN /\ step' = next /\ record' = Evidence(seen)
          /\ UNCHANGED <<event, target, consumed, seen, waiting, last>>
     ELSE IF at = "reviews" THEN NotReady ELSE Fails
  /\ UNCHANGED <<pull, evidence, pointer, merged, release, counts>>

Collect ==
  \/ CollectChecks("checks", "reviews") \/ CollectReviews("reviews", "checks again")
  \/ CollectChecks("checks again", "reviews again") \/ CollectReviews("reviews again", "publish")
  \/ CollectChecks("checks at last", "reviews at last")
  \/ CollectReviews("reviews at last", "clear")

PublishPointer ==
  /\ step = "publish"
  /\ IF Publishable
     THEN /\ state' = "qualified" /\ pointed' = target /\ recorded' = record
          /\ records' = records + 1 /\ Goto("checks at last")
     ELSE Fails /\ UNCHANGED <<pointer, records>>
  /\ UNCHANGED <<pull, evidence, merged, release, requests, displaced, events, troubles>>

ClearNeeds ==
  /\ step = "clear"
  /\ IF Publishable THEN labels' = labels \ {"needs"} /\ Goto("signal")
     ELSE Fails /\ UNCHANGED labels
  /\ UNCHANGED <<request, head, base, evidence, pointer, merged, release, counts>>

Signal ==
  /\ step = "signal"
  /\ IF Eligible /\ "ready" \notin labels /\ "needs" \notin labels
     THEN labels' = labels \cup {"ready"} /\ Goto("confirm")
     ELSE Fails /\ UNCHANGED labels
  /\ UNCHANGED <<request, head, base, evidence, pointer, merged, release, counts>>

Confirm ==
  /\ step = "confirm"
  /\ IF Eligible /\ "ready" \in labels /\ "needs" \notin labels THEN Ends("success") ELSE Fails
  /\ UNCHANGED <<pull, evidence, pointer, merged, release, counts>>

(* The last step of a run that failed after it knew its target, or whose   *)
(* first collection found the pull request not ready.                      *)
FailClosed ==
  /\ step = "closed" \/ step = "not ready"
  /\ IF SameHead /\ "codex" \in labels
     THEN labels' = (labels \ {"ready"}) \cup {"needs"} /\ Invalidate
     ELSE UNCHANGED <<labels, pointer>>
  /\ Ends(IF step = "closed" THEN "failure" ELSE "success")
  /\ UNCHANGED <<request, head, base, evidence, merged, release, counts>>

(* GitHub refuses a request of the run, or the runner is lost.             *)
RunFails ==
  /\ step # "idle" /\ troubles < MaxTroubles /\ troubles' = troubles + 1
  /\ \/ Ends("failure")
     \/ step \notin {"consume", "target", "closed"} /\ Fails
  /\ UNCHANGED <<pull, evidence, pointer, merged, release, requests, records, displaced, events>>

-----------------------------------------------------------------------------
(* verify_published, after the merge.  What it reads may change meanwhile. *)
Qualified == {"codex", "ready"} \subseteq labels /\ "needs" \notin labels
Verify(at, next, passes) ==
  /\ release = at
  /\ release' = IF passes THEN next ELSE "refused"
  /\ UNCHANGED <<pull, evidence, pointer, group, merged, counts>>

VerifyPull == Verify("pull", "pointer", Qualified)
QualifiedRecord == state = "qualified" /\ pointed = head
VerifyPointer == Verify("pointer", "runs", QualifiedRecord)
Recorded(w) == status[w] = "success" /\ newest[w] = recorded.runs[w]
\* Mutant: the newest run need only have succeeded.
VerifyAnyRun == Verify("runs", "reviews", status[Source] = "success")
VerifyRuns == Verify("runs", "reviews", Recorded(Source))
VerifyReviews ==
  Verify("reviews", "preview", /\ ~serious /\ resolved /\ review = recorded.review)
VerifyPreview == Verify("preview", "final", \A w \in Workflows \ {Source} : Recorded(w))
VerifyFinal == Verify("final", "released", Qualified)

(* Release automation may verify again what it refused.                    *)
VerifyAgain ==
  /\ release = "refused" /\ events < MaxEvents /\ events' = events + 1
  /\ release' = "pull"
  /\ Counted /\ UNCHANGED <<pull, evidence, pointer, group, merged>>

-----------------------------------------------------------------------------
Policy ==
  \/ Consume \/ Target \/ InvalidateLabels \/ InvalidatePointer \/ Collect
  \/ PublishPointer \/ ClearNeeds \/ Signal \/ Confirm \/ FailClosed
People ==
  \/ Push \/ Comment \/ Resolve \/ Retarget \/ RequestReadiness \/ RefuseReadiness
  \/ LabelCodex \/ LabelUnrelated \/ Merge
  \/ \E w \in Workflows : Rerun(w) \/ Finish(w)
Release ==
  \/ VerifyPull \/ VerifyPointer \/ VerifyRuns \/ VerifyReviews \/ VerifyPreview
  \/ VerifyFinal \/ VerifyAgain

Next == Policy \/ People \/ RunFails \/ Release

Spec == Init /\ [][Next]_vars

(* A policy run goes on to its end or to its time limit.                   *)
FairSpec == Spec /\ WF_vars(Policy)
=============================================================================
