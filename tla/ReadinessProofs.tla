-------------------------- MODULE ReadinessProofs --------------------------
(***************************************************************************)
(* Proofs about the readiness of a pull request, for any number of         *)
(* workflows, events, failed requests and displaced runs.                  *)
(*                                                                         *)
(* The argument for the pointer: what is past the invalidating steps of a  *)
(* policy run has invalidated every older record, and an event that        *)
(* changes the evidence afterwards waits for the group, or a label took    *)
(* its place; so the record that is published is of the evidence as it is, *)
(* or something is owed.  The argument for the release: numbers of runs    *)
(* and versions of reviews only grow, so what is equal in the record and   *)
(* after the merge was the same at the merge.                              *)
(***************************************************************************)
EXTENDS ReadinessProperties, TLAPS

Kinds == {"nothing", "change", "request", "uncodex"}
EventSet == [kind : Kinds, head : Nat, main : BOOLEAN]
Numbers == [Workflows -> Nat]
Records == [runs : Numbers, review : Nat, resolved : BOOLEAN]
Invalidating == {"consume", "target", "labels", "pointer"}
Collecting == {"checks", "reviews", "checks again", "reviews again", "publish"}
Ending == {"checks at last", "reviews at last", "clear", "signal", "confirm"}
Failing == {"closed", "not ready"}
Steps == {"idle"} \cup Invalidating \cup Collecting \cup Ending \cup Failing

TypeOK ==
  /\ request \in {"open", "merged"} /\ head \in Nat /\ base \in {"main", "other"}
  /\ newest \in Numbers /\ review \in Nat /\ resolved \in BOOLEAN
  /\ pointed \in Nat /\ recorded \in Records /\ merged \in Records
  /\ step \in Steps /\ target \in Nat /\ consumed \in BOOLEAN
  /\ seen \in Numbers /\ record \in Records
  /\ event \in EventSet /\ waiting \in EventSet
  /\ waiting.kind = "nothing" => waiting = Nothing
  /\ requests \in Nat /\ records \in Nat /\ displaced \in BOOLEAN

(* The pointer is never to a later head than the run that works has.       *)
HeadInv ==
  /\ pointed <= head
  /\ step \notin {"idle", "consume", "target"} => pointed <= target /\ target <= head

(* An event to come: what it was to invalidate need not be current.        *)
ToCome == waiting # Nothing \/ displaced

(* What a run has read is as it is, or an event is to come.                *)
ReadInv ==
  /\ step \in {"reviews", "reviews again"} => seen = newest \/ ToCome
  /\ step \in {"checks again", "reviews again", "publish"} =>
       Announced(record) = Announced(Snapshot) \/ ToCome

CurrentInv ==
  /\ step = "idle" => waiting = Nothing
  /\ request = "open" /\ "codex" \in labels /\ Stale =>
       \/ ToCome \/ step \in Invalidating \cup Failing
       \/ step = "idle" /\ last = "failure"

(* Every request is waiting, at work, published or gone.                   *)
Waits == IF waiting.kind = "request" THEN 1 ELSE 0
Works == IF event.kind = "request" /\ step \in Invalidating \cup Collecting THEN 1 ELSE 0
RequestInv ==
  /\ step = "consume" \/ consumed \/ step \in Collecting => event.kind = "request"
  /\ records + Waits + Works <= requests

(* Nothing recorded or read is newer than what is.                         *)
Upto(a, b) == \A w \in Workflows : a[w] <= b[w]
OrderInv ==
  /\ Upto(seen, newest) /\ Upto(record.runs, newest) /\ record.review <= review
  /\ Upto(recorded.runs, newest) /\ recorded.review <= review
  /\ release # "none" => request = "merged"
  /\ request = "merged" =>
       /\ Upto(recorded.runs, merged.runs) /\ Upto(merged.runs, newest)
       /\ recorded.review <= merged.review /\ merged.review <= review

(* What the verification has found equal so far.                           *)
VerifiedInv ==
  /\ release \in {"reviews", "preview", "final", "released"} =>
       recorded.runs[Source] = merged.runs[Source]
  /\ release \in {"preview", "final", "released"} => recorded.review = merged.review
  /\ release \in {"final", "released"} =>
       \A w \in Workflows : recorded.runs[w] = merged.runs[w]

IInv == TypeOK /\ HeadInv /\ ReadInv /\ CurrentInv /\ RequestInv /\ OrderInv /\ VerifiedInv
-----------------------------------------------------------------------------
(* The events there are.                                                   *)
LEMMA Events ==
  ASSUME TypeOK
  PROVE  /\ Nothing \in EventSet /\ Request \in EventSet /\ Nothing.kind = "nothing"
         /\ Request.kind = "request"
         /\ \A k \in Kinds : Of(k) \in EventSet /\ Of(k).kind = k
BY DEF TypeOK, Nothing, Request, Of, EventSet, Kinds

(* A policy run that starts, or that is put off, has yet to invalidate.    *)
LEMMA Started ==
  ASSUME TypeOK, NEW e \in EventSet, e.kind = "nothing" => e = Nothing, Starts(e)
  PROVE  /\ step' \in {"idle", "consume", "target"} /\ event' \in EventSet /\ event' = e
         /\ target' = 0 /\ consumed' = FALSE /\ seen' \in Numbers /\ record' \in Records
         /\ Upto(seen', newest') \/ newest' \notin Numbers
         /\ Upto(record'.runs, newest') \/ newest' \notin Numbers
         /\ record'.review = 0
         /\ step' = "consume" => e.kind = "request"
         /\ step' = "target" => e.kind \in {"change", "uncodex"}
         /\ step' = "idle" <=> e = Nothing
<1>1. seen' = NoRuns /\ record' = None /\ NoRuns \in Numbers /\ None \in Records
  BY DEF Starts, NoRuns, None, Numbers, Records
<1>2. None.review = 0 /\ None.runs = NoRuns /\ \A w \in Workflows : NoRuns[w] = 0
  BY DEF None, NoRuns
<1>3. Upto(NoRuns, newest') \/ newest' \notin Numbers
  BY <1>2 DEF Upto, Numbers
<1> QED BY <1>1, <1>2, <1>3, Events DEF Starts, EventSet, Kinds

LEMMA Ended ==
  ASSUME TypeOK, NEW c, Ends(c)
  PROVE  Starts(waiting) /\ waiting' = Nothing /\ last' = c
BY DEF Ends

LEMMA Notified ==
  ASSUME TypeOK, NEW e \in EventSet, e.kind \in Kinds \ {"nothing"}, Notify(e)
  PROVE  \/ /\ step = "idle" /\ Starts(e) /\ step' \in {"consume", "target"}
            /\ waiting' = waiting
         \/ /\ step # "idle" /\ step' = step /\ waiting' = e /\ waiting' # Nothing
            /\ UNCHANGED <<event, target, consumed, seen, record>>
BY Events DEF Notify, run, Starts

-----------------------------------------------------------------------------
LEMMA InitIInv == Init => IInv
<1> SUFFICES ASSUME Init PROVE IInv
  OBVIOUS
<1>1. TypeOK
  BY DEF Init, TypeOK, Numbers, NoRuns, None, Records, EventSet, Kinds, Nothing, Of, Steps
<1>2. HeadInv /\ ReadInv /\ CurrentInv /\ RequestInv /\ VerifiedInv
  BY DEF Init, HeadInv, ReadInv, CurrentInv, Stale, QualifiedRecord, RequestInv, Waits, Works,
         Collecting, Invalidating, Nothing, Of, VerifiedInv
<1>3. OrderInv
  BY DEF Init, OrderInv, Upto, NoRuns, None
<1> QED BY <1>1, <1>2, <1>3 DEF IInv

-----------------------------------------------------------------------------
(* What grows stays ordered.                                               *)
LEMMA UptoTransitive ==
  ASSUME NEW a \in Numbers, NEW b \in Numbers, NEW c \in Numbers, Upto(a, b), Upto(b, c)
  PROVE  Upto(a, c)
BY DEF Upto, Numbers

(* The evidence may grow after the merge.                                  *)
LEMMA Grown ==
  ASSUME TypeOK, OrderInv, newest' \in Numbers, review' \in Nat,
         Upto(newest, newest'), review <= review',
         UNCHANGED <<recorded, merged, request, release>>
  PROVE  /\ Upto(seen, newest') /\ Upto(record.runs, newest') /\ record.review <= review'
         /\ Upto(recorded'.runs, newest') /\ recorded'.review <= review'
         /\ release' # "none" => request' = "merged"
         /\ request' = "merged" =>
              /\ Upto(recorded'.runs, merged'.runs) /\ Upto(merged'.runs, newest')
              /\ recorded'.review <= merged'.review /\ merged'.review <= review'
<1>1. /\ record.runs \in Numbers /\ recorded.runs \in Numbers /\ merged.runs \in Numbers
      /\ record.review \in Nat /\ recorded.review \in Nat /\ merged.review \in Nat
      /\ seen \in Numbers /\ newest \in Numbers /\ review \in Nat
  BY DEF TypeOK, Records
<1>2. /\ Upto(seen, newest) /\ Upto(record.runs, newest) /\ record.review <= review
      /\ Upto(recorded.runs, newest) /\ recorded.review <= review
  BY DEF OrderInv
<1>3. /\ Upto(seen, newest') /\ Upto(record.runs, newest') /\ Upto(recorded.runs, newest')
      /\ record.review <= review' /\ recorded.review <= review'
  <2>1. Upto(seen, newest')
    BY <1>1, <1>2, UptoTransitive
  <2>2. Upto(record.runs, newest')
    BY <1>1, <1>2, UptoTransitive
  <2>3. Upto(recorded.runs, newest')
    BY <1>1, <1>2, UptoTransitive
  <2> QED BY <2>1, <2>2, <2>3, <1>1, <1>2
<1>4. request = "merged" => Upto(merged.runs, newest') /\ merged.review <= review'
  <2> SUFFICES ASSUME request = "merged" PROVE Upto(merged.runs, newest') /\ merged.review <= review'
    OBVIOUS
  <2>1. Upto(merged.runs, newest) /\ merged.review <= review
    BY DEF OrderInv
  <2>2. Upto(merged.runs, newest')
    BY <2>1, <1>1, UptoTransitive
  <2> QED BY <2>1, <2>2, <1>1
<1> QED BY <1>3, <1>4 DEF OrderInv

(* An event of people or of another workflow.                              *)
LEMMA Announces ==
  ASSUME IInv, NEW e \in EventSet, e.kind \in Kinds \ {"nothing"}, Notify(e),
         base' \in {"main", "other"}, head' \in Nat, head <= head',
         newest' \in Numbers, Upto(newest, newest'), review' \in Nat, review <= review',
         UNCHANGED <<request, resolved, pointer, merged, release, records, displaced>>,
         requests' = IF e.kind = "request" THEN requests + 1 ELSE requests
  PROVE  IInv'
<1> USE DEF IInv
<1>1. Upto(newest, newest')
  OBVIOUS
<1>2. TypeOK'
  <2>1. CASE step = "idle"
    <3>1. Starts(e) /\ waiting' = waiting /\ step' \in {"consume", "target"}
      BY <2>1, Notified
    <3>2. e.kind = "nothing" => e = Nothing
      OBVIOUS
    <3>3. /\ event' \in EventSet /\ target' = 0 /\ consumed' = FALSE
          /\ seen' \in Numbers /\ record' \in Records
      BY <3>1, <3>2, Started
    <3>4. Nothing' = Nothing
      BY DEF Nothing, Of
    <3>5. step' \in Steps
      BY <3>1 DEF Steps, Invalidating
    <3>6. target' \in Nat /\ consumed' \in BOOLEAN
      BY <3>3
    <3> QED BY <3>1, <3>3, <3>4, <3>5, <3>6 DEF TypeOK, pointer
  <2>2. CASE step # "idle"
    <3>1. step' = step /\ waiting' = e /\ UNCHANGED <<event, target, consumed, seen, record>>
      BY <2>2, Notified
    <3> QED BY <3>1 DEF TypeOK, pointer
  <2> QED BY <2>1, <2>2
<1>3. HeadInv'
  <2>1. step' \in {"consume", "target"} \/ (step' = step /\ target' = target)
    BY Notified
  <2> QED BY <2>1 DEF HeadInv, pointer, TypeOK
<1>4. ReadInv'
  <2>1. step' \in {"consume", "target"} \/ waiting' # Nothing
    BY Notified
  <2>2. Nothing' = Nothing
    BY DEF Nothing, Of
  <2> QED BY <2>1, <2>2 DEF ReadInv, ToCome
<1>5. CurrentInv'
  <2>1. step' \in {"consume", "target"} \/ (step' # "idle" /\ waiting' # Nothing)
    BY Notified
  <2>2. Nothing' = Nothing
    BY DEF Nothing, Of
  <2> QED BY <2>1, <2>2 DEF CurrentInv, ToCome, Invalidating
<1>6. RequestInv'
  <2>1. CASE step = "idle"
    <3>1. Starts(e) /\ waiting' = waiting /\ step' \in {"consume", "target"}
      BY <2>1, Notified
    <3>2. event' = e /\ consumed' = FALSE /\ (step' = "consume" => e.kind = "request")
      BY <3>1, Started
    <3>3. Works = 0
      BY <2>1 DEF Works, Invalidating, Collecting
    <3>4. Works' = (IF e.kind = "request" THEN 1 ELSE 0) /\ Waits' = Waits
      BY <3>1, <3>2 DEF Works, Waits, Invalidating
    <3>5. records + Waits + Works <= requests
      BY DEF RequestInv
    <3>6. records' + Waits' + Works' <= requests'
      BY <3>3, <3>4, <3>5 DEF TypeOK, Waits
    <3> QED BY <3>1, <3>2, <3>6 DEF RequestInv, Collecting
  <2>2. CASE step # "idle"
    <3>1. step' = step /\ waiting' = e /\ UNCHANGED <<event, target, consumed, seen, record>>
      BY <2>2, Notified
    <3>2. Works' = Works /\ Waits' = IF e.kind = "request" THEN 1 ELSE 0
      BY <3>1 DEF Works, Waits
    <3>3. records + Waits + Works <= requests /\ Waits \in Nat /\ Works \in Nat
      BY DEF RequestInv, Waits, Works
    <3>4. records' + Waits' + Works' <= requests'
      BY <3>2, <3>3 DEF TypeOK
    <3> QED BY <3>1, <3>4 DEF RequestInv
  <2> QED BY <2>1, <2>2
<1>7. OrderInv'
  <2>1. UNCHANGED <<recorded, merged, request, release>>
    BY DEF pointer
  <2>2. (seen' = seen /\ record' = record)
        \/ (Upto(seen', newest') /\ Upto(record'.runs, newest') /\ record'.review = 0)
    <3>1. CASE step = "idle"
      BY <3>1, Notified, Started
    <3>2. CASE step # "idle"
      BY <3>2, Notified
    <3> QED BY <3>1, <3>2
  <2>3. review' \in Nat
    OBVIOUS
  <2> QED BY <2>1, <2>2, <2>3, Grown DEF OrderInv
<1>8. VerifiedInv'
  BY DEF VerifiedInv, pointer
<1> QED BY <1>2, <1>3, <1>4, <1>5, <1>6, <1>7, <1>8

(* Every announced event is one of these.                                  *)
LEMMA PeopleStep ==
  ASSUME IInv,
         \/ Push \/ Comment \/ Retarget \/ RequestReadiness \/ RefuseReadiness \/ LabelCodex
         \/ \E w \in Workflows : Rerun(w) \/ Finish(w)
  PROVE  IInv'
<1> USE DEF IInv
<1>1. TypeOK /\ newest \in Numbers /\ review \in Nat /\ head \in Nat /\ review <= review
      /\ head <= head /\ requests \in Nat /\ base \in {"main", "other"}
  BY DEF TypeOK
<1>2. Upto(newest, newest)
  BY <1>1 DEF Upto, Numbers
<1>3. /\ Of("change") \in EventSet /\ Of("change").kind = "change"
      /\ Of("uncodex") \in EventSet /\ Of("uncodex").kind = "uncodex"
      /\ Request \in EventSet /\ Request.kind = "request"
  BY <1>1, Events DEF Kinds
<1>4. {"change", "uncodex", "request"} \subseteq Kinds \ {"nothing"}
  BY DEF Kinds
<1>5. CASE Push
  <2>1. newest' \in Numbers /\ Upto(newest, newest')
    BY <1>1, <1>5 DEF Push, Numbers, Upto
  <2>2. head' \in Nat /\ head <= head' /\ review' = review /\ base' = base
    BY <1>1, <1>5 DEF Push
  <2>3. /\ Notify(Of("change")) /\ requests' = requests
        /\ UNCHANGED <<request, resolved, pointer, merged, release, records, displaced>>
    BY <1>5 DEF Push, Counted
  <2> QED BY <2>1, <2>2, <2>3, <1>1, <1>3, <1>4, Announces
<1>6. CASE Comment
  <2>1. newest' = newest /\ head' = head /\ base' = base /\ review' \in Nat /\ review <= review'
    BY <1>1, <1>6 DEF Comment, pull
  <2>2. /\ Notify(Of("change")) /\ requests' = requests
        /\ UNCHANGED <<request, resolved, pointer, merged, release, records, displaced>>
    BY <1>6 DEF Comment, Counted, pull
  <2> QED BY <2>1, <2>2, <1>1, <1>2, <1>3, <1>4, Announces
<1>7. CASE Retarget
  <2>1. newest' = newest /\ head' = head /\ base' \in {"main", "other"} /\ review' = review
    BY <1>1, <1>7 DEF Retarget, evidence
  <2>2. /\ Notify(Of("change")) /\ requests' = requests
        /\ UNCHANGED <<request, resolved, pointer, merged, release, records, displaced>>
    BY <1>7 DEF Retarget, Counted, evidence
  <2> QED BY <2>1, <2>2, <1>1, <1>2, <1>3, <1>4, Announces
<1>8. CASE RequestReadiness
  <2>1. newest' = newest /\ head' = head /\ base' = base /\ review' = review
    BY <1>8 DEF RequestReadiness, evidence
  <2>2. /\ Notify(Request) /\ requests' = requests + 1
        /\ UNCHANGED <<request, resolved, pointer, merged, release, records, displaced>>
    BY <1>8 DEF RequestReadiness, evidence
  <2> QED BY <2>1, <2>2, <1>1, <1>2, <1>3, <1>4, Announces
<1>9. CASE RefuseReadiness
  <2>1. newest' = newest /\ head' = head /\ base' = base /\ review' = review
    BY <1>9 DEF RefuseReadiness, evidence
  <2>2. /\ Notify(Of("change")) /\ requests' = requests
        /\ UNCHANGED <<request, resolved, pointer, merged, release, records, displaced>>
    BY <1>9 DEF RefuseReadiness, Counted, evidence
  <2> QED BY <2>1, <2>2, <1>1, <1>2, <1>3, <1>4, Announces
<1>10. CASE LabelCodex
  <2>1. newest' = newest /\ head' = head /\ base' = base /\ review' = review
    BY <1>10 DEF LabelCodex, evidence
  <2>2. /\ Notify(Of("change")) \/ Notify(Of("uncodex"))
        /\ requests' = requests
        /\ UNCHANGED <<request, resolved, pointer, merged, release, records, displaced>>
    BY <1>10 DEF LabelCodex, Counted, evidence
  <2>3. CASE Notify(Of("change"))
    BY <2>1, <2>2, <2>3, <1>1, <1>2, <1>3, <1>4, Announces
  <2>4. CASE Notify(Of("uncodex"))
    BY <2>1, <2>2, <2>4, <1>1, <1>2, <1>3, <1>4, Announces
  <2> QED BY <2>2, <2>3, <2>4
<1>11. ASSUME NEW w \in Workflows, Rerun(w) PROVE IInv'
  <2>1. newest' \in Numbers /\ Upto(newest, newest')
    BY <1>1, <1>11 DEF Rerun, Numbers, Upto
  <2>2. head' = head /\ review' = review /\ base' = base
    BY <1>11 DEF Rerun, pull
  <2>3. /\ Notify(Of("change")) /\ requests' = requests
        /\ UNCHANGED <<request, resolved, pointer, merged, release, records, displaced>>
    BY <1>11 DEF Rerun, Counted, pull
  <2> QED BY <2>1, <2>2, <2>3, <1>1, <1>3, <1>4, Announces
<1>12. ASSUME NEW w \in Workflows, Finish(w) PROVE IInv'
  <2>1. newest' = newest /\ head' = head /\ base' = base /\ review' = review
    BY <1>12 DEF Finish, pull
  <2>2. /\ Notify(Of("change")) /\ requests' = requests
        /\ UNCHANGED <<request, resolved, pointer, merged, release, records, displaced>>
    BY <1>12 DEF Finish, Counted, pull
  <2> QED BY <2>1, <2>2, <1>1, <1>2, <1>3, <1>4, Announces
<1> QED BY <1>5, <1>6, <1>7, <1>8, <1>9, <1>10, <1>11, <1>12

(* Threads, a displaced run and the merge start nothing.                   *)
LEMMA QuietStep ==
  ASSUME IInv, Resolve \/ LabelUnrelated \/ Merge
  PROVE  IInv'
<1> USE DEF IInv
<1>1. Nothing \in EventSet /\ Nothing.kind = "nothing" /\ Nothing' = Nothing
  BY Events DEF Nothing, Of
<1>2. CASE Resolve
  <2>1. TypeOK' /\ HeadInv' /\ RequestInv' /\ VerifiedInv'
    BY <1>2 DEF Resolve, Counted, pull, pointer, group, run, TypeOK, HeadInv, RequestInv, Waits,
                Works, VerifiedInv
  <2>2. ReadInv' /\ CurrentInv'
    BY <1>2, <1>1 DEF Resolve, Counted, pull, pointer, group, run, ReadInv, ToCome, CurrentInv,
                Stale, QualifiedRecord, Announced, Snapshot, Evidence
  <2>3. OrderInv'
    BY <1>2 DEF Resolve, Counted, pull, pointer, group, run, OrderInv, Upto
  <2> QED BY <2>1, <2>2, <2>3
<1>3. CASE LabelUnrelated
  <2>1. /\ UNCHANGED <<pull, evidence, pointer, step, run, last, merged, release, requests, records>>
        /\ waiting # Nothing /\ waiting' = Nothing /\ displaced' = TRUE
    BY <1>3 DEF LabelUnrelated
  <2>2. TypeOK' /\ HeadInv' /\ VerifiedInv'
    BY <2>1, <1>1 DEF pull, evidence, pointer, run, TypeOK, HeadInv, VerifiedInv
  <2>3. ReadInv' /\ CurrentInv'
    BY <2>1, <1>1 DEF ReadInv, ToCome, CurrentInv
  <2>4. RequestInv'
    <3>1. Waits' = 0 /\ Works' = Works /\ Waits \in Nat /\ Works \in Nat
      BY <2>1, <1>1 DEF Waits, Works, run
    <3>2. records + Waits + Works <= requests
      BY DEF RequestInv
    <3> QED BY <3>1, <3>2, <2>1 DEF RequestInv, TypeOK, run
  <2>5. OrderInv'
    BY <2>1 DEF pull, evidence, pointer, run, OrderInv, Upto
  <2> QED BY <2>2, <2>3, <2>4, <2>5
<1>4. CASE Merge
  <2>1. /\ UNCHANGED <<head, base, labels, evidence, pointer, group, counts>>
        /\ request = "open" /\ request' = "merged" /\ release' = "pull"
    BY <1>4 DEF Merge
  <2>2. merged' = Snapshot /\ Snapshot \in Records /\ Snapshot.runs = newest
        /\ Snapshot.review = review
    BY <1>4 DEF Merge, TypeOK, Snapshot, Evidence, Records
  <2>3. TypeOK' /\ HeadInv' /\ RequestInv' /\ VerifiedInv'
    BY <2>1, <2>2 DEF evidence, pointer, group, run, counts, TypeOK, HeadInv, RequestInv, Waits,
                Works, VerifiedInv
  <2>4. ReadInv' /\ CurrentInv'
    BY <2>1, <1>1 DEF evidence, pointer, group, run, counts, ReadInv, ToCome, CurrentInv,
                Announced, Snapshot, Evidence
  <2>5. OrderInv'
    <3>1. Upto(newest, newest) /\ review <= review
      BY DEF TypeOK, Numbers, Upto
    <3> QED BY <3>1, <2>1, <2>2 DEF evidence, pointer, group, run, counts, OrderInv, Upto
  <2> QED BY <2>3, <2>4, <2>5
<1> QED BY <1>2, <1>3, <1>4

(* The verification after the merge finds one part equal after the other:  *)
(* equal at both ends, the record and the merge agree.                     *)
LEMMA ReleaseStep ==
  ASSUME IInv, Release
  PROVE  IInv'
<1> USE DEF IInv
<1>1. /\ UNCHANGED <<pull, evidence, pointer, group, merged, requests, records, displaced>>
      /\ release # "none" /\ release' # "none"
  BY DEF Release, VerifyPull, VerifyPointer, VerifyRuns, VerifyReviews, VerifyPreview, VerifyFinal,
         VerifyAgain, Verify, Counted, counts
<1>2. TypeOK' /\ HeadInv' /\ RequestInv'
  BY <1>1 DEF pull, evidence, pointer, group, run, TypeOK, HeadInv, RequestInv, Waits, Works
<1>3. ReadInv' /\ CurrentInv'
  BY <1>1 DEF pull, evidence, pointer, group, run, ReadInv, ToCome, CurrentInv, Stale,
              QualifiedRecord, Announced, Snapshot, Evidence
<1>4. OrderInv'
  BY <1>1 DEF pull, evidence, pointer, group, run, OrderInv, Upto
<1>5. /\ \A w \in Workflows : newest[w] = recorded.runs[w] => recorded.runs[w] = merged.runs[w]
      /\ review = recorded.review => recorded.review = merged.review
  <2>1. /\ \A w \in Workflows : recorded.runs[w] \in Nat /\ merged.runs[w] \in Nat
        /\ recorded.review \in Nat /\ merged.review \in Nat /\ newest \in Numbers
    BY DEF TypeOK, Records, Numbers
  <2>2. request = "merged"
    BY <1>1 DEF OrderInv
  <2> QED BY <2>1, <2>2 DEF OrderInv, Upto
<1>6. VerifiedInv'
  <2>1. CASE VerifyRuns
    BY <2>1, <1>1, <1>5, SourceAssumption DEF VerifyRuns, Verify, Recorded, VerifiedInv, pointer
  <2>2. CASE VerifyReviews
    BY <2>2, <1>1, <1>5 DEF VerifyReviews, Verify, VerifiedInv, pointer
  <2>3. CASE VerifyPreview
    BY <2>3, <1>1, <1>5 DEF VerifyPreview, Verify, Recorded, VerifiedInv, pointer
  <2>4. CASE VerifyPull \/ VerifyPointer \/ VerifyFinal \/ VerifyAgain
    BY <2>4, <1>1 DEF VerifyPull, VerifyPointer, VerifyFinal, VerifyAgain, Verify, VerifiedInv,
                      pointer
  <2> QED BY <2>1, <2>2, <2>3, <2>4 DEF Release
<1> QED BY <1>2, <1>3, <1>4, <1>6

-----------------------------------------------------------------------------
(* Fewer requests are pending than before.                                 *)
LEMMA Smaller ==
  ASSUME NEW n \in Nat, NEW m \in Nat, NEW v \in Nat, NEW w \in Nat, NEW v1 \in Nat, NEW w1 \in Nat,
         n + v + w <= m, v1 + w1 <= v + w
  PROVE  n + v1 + w1 <= m
OBVIOUS

LEMMA NoMore ==
  ASSUME NEW v \in Nat, NEW w \in Nat, NEW v1 \in Nat, NEW w1 \in Nat,
         v1 = v, w1 = 0 \/ w1 = w
  PROVE  v1 + w1 <= v + w
OBVIOUS

LEMMA Fewer ==
  ASSUME records \in Nat, requests \in Nat, Waits \in Nat, Works \in Nat, Waits' \in Nat,
         Works' \in Nat, UNCHANGED <<records, requests>>, records + Waits + Works <= requests,
         Waits' + Works' <= Waits + Works
  PROVE  records' + Waits' + Works' <= requests'
<1>1. records + Waits' + Works' <= requests
  BY Smaller
<1> QED BY <1>1

(* The end of a policy run, which may start the one that waits.            *)
LEMMA EndStep ==
  ASSUME IInv, NEW c, Ends(c),
         UNCHANGED <<request, head, base, evidence, pointed, recorded, merged, release, requests,
                     records, displaced>>,
         request = "open" /\ "codex" \in labels' /\ Stale' => ToCome \/ c = "failure"
  PROVE  IInv'
<1> USE DEF IInv
<1>1. /\ Starts(waiting) /\ waiting' = Nothing /\ last' = c
      /\ Nothing \in EventSet /\ Nothing.kind = "nothing" /\ Nothing' = Nothing
  BY Ended, Events DEF Nothing, Of
<1>2. waiting \in EventSet /\ (waiting.kind = "nothing" => waiting = Nothing)
  BY DEF TypeOK
<1>3. /\ step' \in {"idle", "consume", "target"} /\ event' \in EventSet /\ event' = waiting
      /\ target' = 0 /\ consumed' = FALSE /\ seen' \in Numbers /\ record' \in Records
      /\ record'.review = 0
      /\ step' = "consume" => waiting.kind = "request"
      /\ step' = "target" => waiting.kind \in {"change", "uncodex"}
      /\ step' = "idle" <=> waiting = Nothing
  BY <1>1, <1>2, Started
<1>4. TypeOK'
  <2>1. step' \in Steps
    BY <1>3 DEF Steps, Invalidating
  <2>2. target' \in Nat /\ consumed' \in BOOLEAN
    BY <1>3
  <2> QED BY <2>1, <2>2, <1>1, <1>3 DEF TypeOK, evidence
<1>5. HeadInv' /\ ReadInv'
  BY <1>3 DEF HeadInv, ReadInv
<1>6. CurrentInv'
  BY <1>1, <1>3 DEF CurrentInv, ToCome, Invalidating
<1>7. RequestInv'
  <2>1. Waits' = 0 /\ Works \in Nat /\ Waits \in Nat /\ Works' \in Nat
    BY <1>1 DEF Waits, Works
  <2>2. Waits' + Works' <= Waits + Works
    BY <1>1, <1>3 DEF Waits, Works, Nothing, Of
  <2>3. records' + Waits' + Works' <= requests'
    <3>1. records + Waits + Works <= requests /\ records \in Nat /\ requests \in Nat
      BY DEF RequestInv, TypeOK
    <3> QED BY <2>1, <2>2, <3>1, Fewer
  <2> QED BY <2>3, <1>3 DEF RequestInv, Collecting
<1>8. OrderInv'
  <2>1. newest' = newest /\ newest \in Numbers /\ review' = review /\ review \in Nat
    BY DEF evidence, TypeOK
  <2>2. Upto(seen', newest') /\ Upto(record'.runs, newest') /\ record'.review <= review'
    <3>1. Upto(seen', newest') /\ Upto(record'.runs, newest')
      BY <2>1, <1>1, <1>2, Started
    <3> QED BY <3>1, <2>1, <1>3
  <2> QED BY <2>1, <2>2 DEF OrderInv, Upto
<1>9. VerifiedInv'
  BY DEF VerifiedInv
<1> QED BY <1>4, <1>5, <1>6, <1>7, <1>8, <1>9

(* A step inside a policy run that reads nothing: what it may disturb is   *)
(* the record of what is current, and that only towards invalidity.        *)
LEMMA GoStep ==
  ASSUME IInv, step' \in Steps \ {"idle", "consume", "target", "reviews", "reviews again",
                                  "checks again", "publish"},
         step \notin {"idle", "consume", "target"},
         step' \in Collecting => consumed /\ step \in Invalidating,
         step' \in Invalidating => step \in Invalidating,
         step' \notin Invalidating \cup Failing =>
           \/ ~Stale' \/ ToCome
           \/ step \notin Invalidating \cup Failing /\ UNCHANGED <<state, "codex" \in labels>>,
         UNCHANGED <<run, waiting, request, head, base, evidence, pointed, recorded, merged, release,
                     requests, records, displaced>>
  PROVE  IInv'
<1> USE DEF IInv
<1>1. TypeOK'
  BY DEF TypeOK, run, evidence, Nothing, Of
<1>2. HeadInv' /\ ReadInv' /\ VerifiedInv'
  BY DEF HeadInv, ReadInv, VerifiedInv, run
<1>3. CurrentInv'
  <2>1. Stale' /\ UNCHANGED state => Stale
    BY DEF Stale, QualifiedRecord, Announced, Snapshot, Evidence, evidence
  <2>2. step \notin {"idle"} /\ step' # "idle" /\ Nothing' = Nothing /\ ToCome' = ToCome
    BY DEF ToCome, Nothing, Of
  <2> QED BY <2>1, <2>2 DEF CurrentInv
<1>4. RequestInv'
  <2>1. Waits' = Waits /\ Works \in Nat /\ Waits \in Nat /\ Works' \in Nat
    BY DEF Waits, Works
  <2>2. Waits' + Works' <= Waits + Works
    <3>1. step' \in Invalidating \cup Collecting =>
            \/ event.kind # "request"
            \/ step \in Invalidating \cup Collecting
      BY DEF RequestInv
    <3>2. Works' = 0 \/ Works' = Works
      BY <3>1 DEF Works, run
    <3> QED BY <2>1, <3>2, NoMore
  <2>3. records' + Waits' + Works' <= requests'
    <3>1. records + Waits + Works <= requests /\ records \in Nat /\ requests \in Nat
      BY DEF RequestInv, TypeOK
    <3> QED BY <2>1, <2>2, <3>1, Fewer
  <2> QED BY <2>3 DEF RequestInv, run
<1>5. OrderInv'
  BY DEF OrderInv, Upto, run, evidence
<1> QED BY <1>1, <1>2, <1>3, <1>4, <1>5

-----------------------------------------------------------------------------
(* The steps before a policy run knows its target.                         *)
LEMMA EarlyStep ==
  ASSUME IInv, step \in {"consume", "target"}, step' \in {"target", "labels"},
         step' = "labels" => target' = head,
         target' \in Nat, consumed' \in BOOLEAN, displaced' \in BOOLEAN,
         consumed' => event.kind = "request",
         UNCHANGED <<event, seen, record, waiting, request, head, base, evidence, pointer, merged,
                     release, requests, records>>
  PROVE  IInv'
<1> USE DEF IInv
<1>1. TypeOK'
  <2>1. step' \in Steps
    BY DEF Steps, Invalidating
  <2> QED BY <2>1 DEF TypeOK, evidence, pointer, Nothing, Of
<1>2. HeadInv'
  BY DEF TypeOK, HeadInv, pointer
<1>3. ReadInv' /\ VerifiedInv'
  BY DEF ReadInv, VerifiedInv, pointer
<1>4. CurrentInv'
  BY DEF CurrentInv, Invalidating
<1>5. RequestInv'
  <2>1. Waits' = Waits /\ Works' = Works
    BY DEF Waits, Works, Invalidating
  <2> QED BY <2>1 DEF RequestInv, Collecting
<1>6. OrderInv'
  BY DEF OrderInv, Upto, evidence, pointer
<1> QED BY <1>1, <1>2, <1>3, <1>4, <1>5, <1>6

(* The steps that read the evidence.                                       *)
LEMMA ReadStep ==
  ASSUME IInv, seen' \in Numbers, record' \in Records,
         Upto(seen', newest), Upto(record'.runs, newest), record'.review <= review,
         \/ step \in {"checks", "reviews", "checks again", "reviews again"}
            /\ step' \in {"reviews", "checks again", "reviews again", "publish"}
         \/ step \in {"checks at last", "reviews at last"}
            /\ step' \in {"reviews at last", "clear"},
         step' \in {"reviews", "reviews again"} => seen' = newest \/ ToCome,
         step' \in {"checks again", "reviews again", "publish"} =>
           Announced(record') = Announced(Snapshot) \/ ToCome,
         UNCHANGED <<event, target, consumed, waiting, pull, evidence, pointer, merged, release,
                     requests, records, displaced>>
  PROVE  IInv'
<1> USE DEF IInv
<1>1. /\ step \notin {"idle", "consume", "target"} /\ step \notin Invalidating \cup Failing
      /\ step' \notin {"idle", "consume", "target"}
      /\ step' \in Steps
      /\ step \in Collecting <=> step' \in Collecting
      /\ step' \notin Invalidating /\ step # "consume" /\ step' # "consume"
  BY DEF Steps, Invalidating, Failing, Collecting, Ending
<1>2. TypeOK'
  BY <1>1 DEF TypeOK, evidence, pointer, pull, Nothing, Of
<1>3. HeadInv' /\ VerifiedInv'
  BY <1>1 DEF HeadInv, VerifiedInv, pull, pointer
<1>4. ReadInv'
  <2>1. ToCome' = ToCome /\ Snapshot' = Snapshot /\ newest' = newest
    BY DEF ToCome, Nothing, Of, Snapshot, Evidence, evidence
  <2>2. Announced(record)' = Announced(record')
    BY DEF Announced
  <2>3. Announced(Snapshot)' = Announced(Snapshot)
    BY <2>1 DEF Announced
  <2> QED BY <2>1, <2>2, <2>3 DEF ReadInv
<1>5. CurrentInv'
  <2>1. Stale' = Stale /\ ToCome' = ToCome
    BY DEF Stale, QualifiedRecord, Announced, Snapshot, Evidence, evidence, pull, pointer, ToCome,
           Nothing, Of
  <2> QED BY <2>1, <1>1 DEF CurrentInv, pull
<1>6. RequestInv'
  <2>1. Waits' = Waits /\ Works' = Works
    BY <1>1 DEF Waits, Works
  <2> QED BY <2>1, <1>1 DEF RequestInv
<1>7. OrderInv'
  BY DEF OrderInv, Upto, evidence, pointer, pull
<1> QED BY <1>2, <1>3, <1>4, <1>5, <1>6, <1>7

LEMMA OneLess ==
  ASSUME NEW n \in Nat, NEW m \in Nat, NEW v \in Nat, n + v + 1 <= m
  PROVE  (n + 1) + v + 0 <= m
OBVIOUS

(* The record is published for the request at work, and is current as far  *)
(* as nothing is to come.                                                  *)
LEMMA PublishStep ==
  ASSUME IInv, PublishPointer, Publishable
  PROVE  IInv'
<1> USE DEF IInv
<1>1. /\ step = "publish" /\ step' = "checks at last"
      /\ state' = "qualified" /\ pointed' = target /\ recorded' = record
      /\ records' = records + 1 /\ request = "open" /\ head = target
      /\ UNCHANGED <<run, waiting, last, pull, evidence, merged, release, requests, displaced>>
  BY DEF PublishPointer, Publishable, Eligible, SameHead, Goto
<1>2. TypeOK'
  <2>1. step' \in Steps /\ Nothing' = Nothing
    BY <1>1 DEF Steps, Ending, Nothing, Of
  <2>2. records' \in Nat /\ pointed' \in Nat /\ recorded' \in Records
    <3>1. records \in Nat /\ target \in Nat /\ record \in Records
      BY DEF TypeOK
    <3>2. records + 1 \in Nat
      BY <3>1
    <3> QED BY <3>1, <3>2, <1>1
  <2> QED BY <1>1, <2>1, <2>2 DEF TypeOK, evidence, pull, run
<1>3. HeadInv' /\ ReadInv'
  BY <1>1 DEF TypeOK, HeadInv, ReadInv, pull, run
<1>4. CurrentInv'
  <2>1. Announced(record) = Announced(Snapshot) \/ ToCome
    BY <1>1 DEF ReadInv
  <2>2. ToCome' = ToCome
    BY <1>1 DEF ToCome, Nothing, Of
  <2>3. Stale' => Announced(record) # Announced(Snapshot)
    BY <1>1 DEF Stale, Announced, Snapshot, Evidence, evidence
  <2> QED BY <2>1, <2>2, <2>3, <1>1 DEF CurrentInv
<1>5. RequestInv'
  <2>1. event.kind = "request"
    BY <1>1 DEF RequestInv, Collecting
  <2>2. Works = 1 /\ Works' = 0 /\ Waits' = Waits /\ Waits \in Nat
    BY <2>1, <1>1 DEF Works, Waits, Collecting, Invalidating, run
  <2>3. records + Waits + Works <= requests /\ records \in Nat /\ requests \in Nat
    BY DEF RequestInv, TypeOK
  <2>4. records' + Waits' + Works' <= requests'
    BY <2>2, <2>3, <1>1, OneLess
  <2> QED BY <2>1, <2>4, <1>1 DEF RequestInv, run
<1>6. OrderInv' /\ VerifiedInv'
  BY <1>1 DEF OrderInv, VerifiedInv, Upto, evidence, run, pull
<1> QED BY <1>2, <1>3, <1>4, <1>5, <1>6

(* One step of a policy run.                                               *)
LEMMA PolicyStep ==
  ASSUME IInv, Policy
  PROVE  IInv'
<1> USE DEF IInv
<1>1. CASE Consume
  <2>1. CASE request # "open"
    <3>1. /\ Ends("failure")
          /\ UNCHANGED <<request, head, base, evidence, pointed, recorded, merged, release, requests,
                         records, displaced>>
      BY <1>1, <2>1 DEF Consume, pointer, counts
    <3>2. request = "open" /\ "codex" \in labels' /\ Stale' => ToCome \/ "failure" = "failure"
      OBVIOUS
    <3> QED BY <3>1, <3>2, EndStep
  <2>2. CASE request = "open"
    <3>1. /\ step = "consume" /\ step' = "target" /\ target' = target
          /\ consumed' \in {consumed, TRUE, FALSE} /\ displaced' = displaced
          /\ UNCHANGED <<event, seen, record, waiting, request, head, base, evidence, pointer, merged,
                         release, requests, records>>
      BY <1>1, <2>2 DEF Consume, Goto, run, counts
    <3>2. event.kind = "request"
      BY <3>1 DEF RequestInv
    <3>3. /\ target' \in Nat /\ consumed' \in BOOLEAN /\ displaced' \in BOOLEAN
      BY <3>1 DEF TypeOK
    <3> QED BY <3>1, <3>2, <3>3, EarlyStep
  <2> QED BY <2>1, <2>2
<1>2. CASE Target
  <2>1. CASE request = "open" /\ ("codex" \in labels \/ event.kind = "uncodex")
    <3>1. /\ step = "target" /\ step' = "labels" /\ target' = head /\ displaced' = FALSE
          /\ consumed' = (consumed /\ base = "main" /\ head = event.head)
          /\ UNCHANGED <<event, seen, record, waiting, request, head, base, evidence, pointer, merged,
                         release, requests, records>>
      BY <1>2, <2>1 DEF Target, pull
    <3>2. consumed' \in BOOLEAN /\ (consumed' => event.kind = "request") /\ target' \in Nat
      BY <3>1 DEF RequestInv, TypeOK
    <3> QED BY <3>1, <3>2, EarlyStep
  <2>2. CASE ~(request = "open" /\ ("codex" \in labels \/ event.kind = "uncodex"))
    <3>1. /\ Ends("success") /\ labels' = labels
          /\ UNCHANGED <<request, head, base, evidence, pointed, recorded, merged, release, requests,
                         records, displaced>>
      BY <1>2, <2>2 DEF Target, pull, pointer
    <3>2. request = "open" /\ "codex" \in labels' /\ Stale' => ToCome \/ "success" = "failure"
      BY <2>2, <3>1
    <3> QED BY <3>1, <3>2, EndStep
  <2> QED BY <2>1, <2>2
<1>3. CASE InvalidateLabels
  <2>1. /\ step = "labels" /\ step' \in {"pointer", "closed"}
        /\ UNCHANGED <<run, waiting, request, head, base, evidence, pointed, recorded, merged, release,
                       requests, records, displaced>>
    BY <1>3 DEF InvalidateLabels, Goto, Fails, pointer, counts
  <2> QED BY <2>1, GoStep DEF Steps, Invalidating, Collecting, Failing
<1>4. CASE InvalidatePointer
  <2>1. CASE ~SameHead
    <3>1. /\ step = "pointer" /\ step' = "closed"
          /\ UNCHANGED <<run, waiting, request, head, base, evidence, pointed, recorded, merged,
                         release, requests, records, displaced>>
      BY <1>4, <2>1 DEF InvalidatePointer, Goto, Fails, pointer, pull, counts
    <3> QED BY <3>1, GoStep DEF Steps, Invalidating, Collecting, Failing
  <2>2. CASE SameHead
    <3>1. /\ step = "pointer" /\ state' # "qualified"
          /\ IF consumed THEN Goto("checks") ELSE Ends("success")
          /\ UNCHANGED <<request, head, base, labels, evidence, pointed, recorded, merged, release,
                         requests, records, displaced>>
      BY <1>4, <2>2 DEF InvalidatePointer, Invalidate, pull, counts
    <3>2. ~Stale'
      BY <3>1 DEF Stale, QualifiedRecord
    <3>3. CASE consumed
      <4>1. step' = "checks" /\ UNCHANGED <<run, waiting>>
        BY <3>1, <3>3 DEF Goto
      <4> QED BY <3>1, <3>2, <3>3, <4>1, GoStep DEF Steps, Invalidating, Collecting, Failing
    <3>4. CASE ~consumed
      BY <3>1, <3>2, <3>4, EndStep
    <3> QED BY <3>3, <3>4
  <2> QED BY <2>1, <2>2
<1>5. ASSUME NEW at, NEW next, CollectChecks(at, next),
             <<at, next>> \in {<<"checks", "reviews">>, <<"checks again", "reviews again">>,
                               <<"checks at last", "reviews at last">>}
      PROVE  IInv'
  <2>1. /\ step = at
        /\ UNCHANGED <<pull, evidence, pointer, merged, release, requests, records, displaced>>
    BY <1>5 DEF CollectChecks, counts
  <2>2. CASE Eligible /\ Green
    <3>1. /\ step' = next /\ seen' = newest
          /\ UNCHANGED <<event, target, consumed, record, waiting, last>>
      BY <1>5, <2>2 DEF CollectChecks
    <3>2. /\ newest \in Numbers /\ record' \in Records /\ Upto(newest, newest)
          /\ Upto(record'.runs, newest) /\ record'.review <= review
      BY <3>1 DEF TypeOK, OrderInv, Upto, Numbers
    <3>3. step' \in {"checks again", "reviews again", "publish"} =>
            Announced(record') = Announced(Snapshot) \/ ToCome
      BY <1>5, <2>1, <3>1 DEF ReadInv
    <3> QED BY <1>5, <2>1, <3>1, <3>2, <3>3, ReadStep
  <2>3. CASE ~(Eligible /\ Green)
    <3>1. step' \in Failing /\ UNCHANGED <<run, waiting>>
      BY <1>5, <2>3 DEF CollectChecks, NotReady, Fails, Goto, Failing
    <3> QED BY <1>5, <2>1, <3>1, GoStep DEF Steps, Invalidating, Collecting, Failing, pull, pointer
  <2> QED BY <2>2, <2>3
<1>6. ASSUME NEW at, NEW next, CollectReviews(at, next),
             <<at, next>> \in {<<"reviews", "checks again">>, <<"reviews again", "publish">>,
                               <<"reviews at last", "clear">>}
      PROVE  IInv'
  <2>1. /\ step = at
        /\ UNCHANGED <<pull, evidence, pointer, merged, release, requests, records, displaced>>
    BY <1>6 DEF CollectReviews, counts
  <2>2. CASE /\ Publishable /\ ~serious /\ resolved
             /\ at = "reviews" \/ Evidence(seen) = record
    <3>1. /\ step' = next /\ record' = Evidence(seen)
          /\ UNCHANGED <<event, target, consumed, seen, waiting, last>>
      BY <1>6, <2>2 DEF CollectReviews
    <3>2. /\ Evidence(seen) \in Records /\ Evidence(seen).runs = seen
          /\ Evidence(seen).review = review /\ review <= review
          /\ seen \in Numbers /\ Upto(seen, newest)
      BY DEF TypeOK, OrderInv, Evidence, Records
    <3>3. step' \in {"checks again", "publish"} =>
            Announced(Evidence(seen)) = Announced(Snapshot) \/ ToCome
      BY <1>6, <2>1, <3>1, <3>2 DEF ReadInv, Announced, Snapshot, Evidence
    <3> QED BY <1>6, <2>1, <3>1, <3>2, <3>3, ReadStep
  <2>3. CASE ~(/\ Publishable /\ ~serious /\ resolved
               /\ at = "reviews" \/ Evidence(seen) = record)
    <3>1. step' \in Failing /\ UNCHANGED <<run, waiting>>
      BY <1>6, <2>3 DEF CollectReviews, NotReady, Fails, Goto, Failing
    <3> QED BY <1>6, <2>1, <3>1, GoStep DEF Steps, Invalidating, Collecting, Failing, pull, pointer
  <2> QED BY <2>2, <2>3
<1>7. CASE PublishPointer
  <2>1. CASE Publishable
    BY <1>7, <2>1, PublishStep
  <2>2. CASE ~Publishable
    <3>1. /\ step = "publish" /\ step' = "closed"
          /\ UNCHANGED <<run, waiting, request, head, base, evidence, pointed, recorded, merged,
                         release, requests, records, displaced>>
      BY <1>7, <2>2 DEF PublishPointer, Goto, Fails, pointer, pull
    <3> QED BY <3>1, GoStep DEF Steps, Invalidating, Collecting, Failing
  <2> QED BY <2>1, <2>2
<1>8. CASE ClearNeeds \/ Signal
  <2>1. /\ step \in {"clear", "signal"} /\ step' \in {"signal", "confirm", "closed"}
        /\ labels' \in {labels, labels \ {"needs"}, labels \cup {"ready"}} /\ state' = state
        /\ UNCHANGED <<run, waiting, request, head, base, evidence, pointed, recorded, merged,
                       release, requests, records, displaced>>
    BY <1>8 DEF ClearNeeds, Signal, Goto, Fails, pointer, counts
  <2>2. ("codex" \in labels') = ("codex" \in labels)
    BY <2>1
  <2> QED BY <2>1, <2>2, GoStep DEF Steps, Invalidating, Collecting, Failing, Ending
<1>9. CASE Confirm
  <2>1. /\ step = "confirm" /\ (Ends("success") \/ Goto("closed"))
        /\ UNCHANGED <<pull, evidence, pointer, merged, release, requests, records, displaced>>
    BY <1>9 DEF Confirm, Fails, counts
  <2>2. CASE Ends("success")
    <3>1. Stale' = Stale /\ labels' = labels
      BY <2>1 DEF Stale, QualifiedRecord, Announced, Snapshot, Evidence, evidence, pull, pointer
    <3>2. request = "open" /\ "codex" \in labels' /\ Stale' => ToCome \/ "success" = "failure"
      BY <2>1, <3>1 DEF CurrentInv, Invalidating, Failing
    <3> QED BY <2>1, <2>2, <3>2, EndStep DEF pull, pointer
  <2>3. CASE Goto("closed")
    <3>1. step' = "closed" /\ UNCHANGED <<run, waiting>>
      BY <2>3 DEF Goto
    <3> QED BY <2>1, <3>1, GoStep DEF Steps, Invalidating, Collecting, Failing, pull, pointer
  <2> QED BY <2>1, <2>2, <2>3
<1>10. CASE FailClosed
  <2>1. /\ step \in Failing /\ (Ends("failure") \/ Ends("success"))
        /\ UNCHANGED <<request, head, base, evidence, pointed, recorded, merged, release, requests,
                       records, displaced>>
    BY <1>10 DEF FailClosed, Invalidate, pointer, counts, Failing
  <2>2. request = "open" /\ "codex" \in labels' => ~Stale'
    <3>1. CASE SameHead /\ "codex" \in labels
      BY <1>10, <3>1 DEF FailClosed, Invalidate, Stale, QualifiedRecord
    <3>2. CASE ~(SameHead /\ "codex" \in labels)
      <4>1. labels' = labels
        BY <1>10, <3>2 DEF FailClosed
      <4>2. request = "open" /\ "codex" \in labels => head # target
        BY <3>2 DEF SameHead
      <4>3. pointed <= target /\ target <= head
        BY <2>1 DEF HeadInv, Failing
      <4>4. request = "open" /\ "codex" \in labels => pointed # head
        BY <4>2, <4>3 DEF TypeOK
      <4> QED BY <4>1, <4>4, <2>1 DEF Stale, QualifiedRecord
    <3> QED BY <3>1, <3>2
  <2> QED BY <2>1, <2>2, EndStep
<1> QED BY <1>1, <1>2, <1>3, <1>4, <1>5, <1>6, <1>7, <1>8, <1>9, <1>10 DEF Policy, Collect

(* A policy run that fails.                                                *)
LEMMA RunFailsStep ==
  ASSUME IInv, RunFails
  PROVE  IInv'
<1> USE DEF IInv
<1>1. UNCHANGED <<pull, evidence, pointer, merged, release, requests, records, displaced>>
  BY DEF RunFails
<1>2. CASE Ends("failure")
  BY <1>1, <1>2, EndStep DEF pull, pointer
<1>3. CASE step \notin {"idle", "consume", "target"} /\ Goto("closed")
  <2>1. step' = "closed" /\ UNCHANGED <<run, waiting>>
    BY <1>3 DEF Goto
  <2> QED BY <1>1, <1>3, <2>1, GoStep DEF Steps, Invalidating, Collecting, Failing, pull, pointer
<1> QED BY <1>2, <1>3 DEF RunFails, Fails

(* The invariant is inductive.                                             *)
LEMMA NextIInv ==
  ASSUME IInv, [Next]_vars
  PROVE  IInv'
<1>1. CASE Next
  <2>1. CASE People
    BY <2>1, PeopleStep, QuietStep DEF People
  <2> QED BY <1>1, <2>1, PolicyStep, RunFailsStep, ReleaseStep DEF Next
<1>2. CASE UNCHANGED vars
  <2>1. TypeOK' /\ HeadInv' /\ RequestInv' /\ VerifiedInv'
    BY <1>2 DEF IInv, vars, pull, evidence, pointer, group, run, counts, TypeOK, HeadInv, RequestInv,
                Waits, Works, VerifiedInv, Nothing, Of
  <2>2. ReadInv' /\ CurrentInv'
    BY <1>2 DEF IInv, vars, pull, evidence, pointer, group, run, counts, ReadInv, ToCome, CurrentInv,
                Stale, QualifiedRecord, Announced, Snapshot, Evidence, Nothing, Of
  <2>3. OrderInv'
    BY <1>2 DEF IInv, vars, pull, evidence, pointer, group, run, counts, OrderInv, Upto
  <2> QED BY <2>1, <2>2, <2>3 DEF IInv
<1> QED BY <1>1, <1>2

(* It implies what the runs check.                                         *)
LEMMA IInvRecords ==
  ASSUME IInv
  PROVE  RecordsAreCurrent
<1> USE DEF IInv
<1>1. QualifiedIsCurrent
  <2>1. waiting # Nothing => waiting.kind \in {"change", "request", "uncodex"}
    BY DEF TypeOK, EventSet, Kinds
  <2> QED BY <2>1 DEF CurrentInv, QualifiedIsCurrent, Owed, ToCome, Invalidating, Failing
<1>2. OneRecordPerRequest
  <2>1. Waits \in Nat /\ Works \in Nat /\ records \in Nat /\ requests \in Nat
        /\ records + Waits + Works <= requests
    BY DEF Waits, Works, TypeOK, RequestInv
  <2> QED BY <2>1 DEF OneRecordPerRequest
<1> QED BY <1>1, <1>2 DEF RecordsAreCurrent

LEMMA IInvRelease ==
  ASSUME IInv
  PROVE  StaleMergeNeverReleased
<1> SUFFICES ASSUME release = "released" PROVE Announced(merged) = Announced(recorded)
  BY DEF StaleMergeNeverReleased
<1>1. merged.runs \in Numbers /\ recorded.runs \in Numbers
  BY DEF IInv, TypeOK, Records
<1>2. merged.runs = recorded.runs
  BY <1>1 DEF IInv, VerifiedInv, Numbers
<1>3. merged.review = recorded.review
  BY DEF IInv, VerifiedInv
<1> QED BY <1>2, <1>3 DEF Announced

-----------------------------------------------------------------------------
(* A record that the workflows or the reviews have outgrown does not stand *)
(* but for a moment, a failure or a displaced run, and every record was    *)
(* asked for (invalidate-readiness.yml, ops/readiness.py invalidate,       *)
(* publish): for any number of events and failures.                        *)
THEOREM RecordsStayCurrent == Spec => []RecordsAreCurrent
<1>1. Init => IInv
  BY InitIInv
<1>2. IInv /\ [Next]_vars => IInv'
  BY NextIInv
<1>3. IInv => RecordsAreCurrent
  BY IInvRecords
<1> QED BY <1>1, <1>2, <1>3, PTL DEF Spec

(* A feature that was merged on outgrown evidence is never released        *)
(* (ops/readiness.py verify_published), however often it is verified.      *)
THEOREM StaleMergeStaysUnreleased == Spec => []StaleMergeNeverReleased
<1>1. Init => IInv
  BY InitIInv
<1>2. IInv /\ [Next]_vars => IInv'
  BY NextIInv
<1>3. IInv => StaleMergeNeverReleased
  BY IInvRelease
<1> QED BY <1>1, <1>2, <1>3, PTL DEF Spec
=============================================================================
