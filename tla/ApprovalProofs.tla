--------------------------- MODULE ApprovalProofs ---------------------------
(***************************************************************************)
(* Proofs about the approval of a release, for any number of releases,     *)
(* checks, deployments and repetitions.                                    *)
(*                                                                         *)
(* The argument: the gate of a merge passes a read only in the first       *)
(* attempt of its run, which starts before anything was sent for it; what  *)
(* the first pass has read of the merge and of the checks never changes    *)
(* again, since commits are only added and a check that succeeded stays.   *)
(* Of the dispatches of one preflight only the first can pass, and only in *)
(* its first attempt.                                                      *)
(***************************************************************************)
EXTENDS ApprovalProperties, SequenceTheorems, WellFoundedInduction, TLAPS

IsSequence(s) == \E S : s \in Seq(S)
Long(s, n) == IsSequence(s) /\ Len(s) = n

Shape ==
  /\ IsSequence(commits) /\ IsSequence(release) /\ IsSequence(sent)
  /\ Long(request, Len(release)) /\ Long(checks, Len(release)) /\ Long(run, Len(release))
  /\ Long(bound, Len(release)) /\ Long(comment, Len(release)) /\ Long(gate, Len(release))
  /\ Long(attempt, Len(release))
  /\ \A v \in Published : /\ IsSequence(checks[v]) /\ Len(checks[v]) > 0 /\ release[v] \in 1..Len(commits)
                          /\ attempt[v] \in Nat \ {0}
  /\ Long(stage, Len(dispatch)) /\ Long(tries, Len(dispatch)) /\ IsSequence(dispatch)
  /\ \A d \in 1..Len(dispatch) : tries[d] \in Nat \ {0}

(* A request that is open was never deployed.                              *)
RequestInv ==
  \A v \in Published :
    IF Open(v) THEN gate[v] = Absent /\ attempt[v] = 1 ELSE Merge(v) \in 1..Len(commits)

(* What a readiness names had succeeded.                                   *)
Succeeded(v, check) == check \in 1..Newest(v) /\ checks[v][check] = "success"
EvidenceInv ==
  \A v \in Published :
    /\ run[v] \in {"reread", "post"} => Succeeded(v, bound[v])
    /\ comment[v] # NoMarker =>
         \E check \in 1..Newest(v) : Succeeded(v, check) /\ comment[v] = Payload(v, check)

(* A gate that has passed a read, or sent, has its evidence; and it passes *)
(* only before it has sent.                                                *)
Backed(v) ==
  /\ MergedAsTested(v)
  /\ \E check \in 1..Newest(v) :
       Succeeded(v, check) /\ commits[Merge(v)].marker = Payload(v, check)
GateInv ==
  \A v \in Published :
    /\ gate[v] \in 1..Reads => attempt[v] = 1 /\ ~Approved(v) /\ Backed(v) /\ ~Open(v)
    /\ gate[v] \in {Absent, Started} /\ attempt[v] = 1 => ~Approved(v)
    /\ Approved(v) => Backed(v) /\ ~Open(v)

(* Of the dispatches of a preflight, the first.                            *)
First(d) == \A e \in 1..(d - 1) : dispatch[e].preflight # dispatch[d].preflight
Dispatched(d) == \E i \in 1..Len(sent) : sent[i] = <<"manual", d>>
ManualInv ==
  \A d \in 1..Len(dispatch) :
    /\ stage[d] \in {"reread", "send"} => tries[d] = 1 /\ ~Dispatched(d) /\ First(d)
    /\ stage[d] \in {"queued", "read"} /\ tries[d] = 1 => ~Dispatched(d)
    /\ Dispatched(d) => First(d)

(* What is sent is sent for a release or a dispatch, and once.             *)
SentInv ==
  /\ \A i \in 1..Len(sent) :
       \/ \E v \in Published : sent[i] = <<"approved", v>>
       \/ \E d \in 1..Len(dispatch) : sent[i] = <<"manual", d>>
  /\ OneSendPerApproval

IInv == Shape /\ RequestInv /\ EvidenceInv /\ GateInv /\ ManualInv /\ SentInv
-----------------------------------------------------------------------------
(* What appending to a sequence, and replacing an element of it, does.     *)
LEMMA Appended ==
  ASSUME NEW s, NEW e, IsSequence(s)
  PROVE  /\ IsSequence(Append(s, e)) /\ Len(Append(s, e)) = Len(s) + 1 /\ Len(s) \in Nat
         /\ \A i \in 1..Len(s) : Append(s, e)[i] = s[i]
         /\ Append(s, e)[Len(s) + 1] = e
<1>1. PICK S : s \in Seq(S)
  BY DEF IsSequence
<1>2. s \in Seq(S \cup {e})
  BY <1>1
<1>3. Append(s, e) \in Seq(S \cup {e})
  BY <1>2, AppendProperties
<1>4. IsSequence(Append(s, e))
  BY <1>3 DEF IsSequence
<1> QED BY <1>2, <1>4, AppendProperties

LEMMA Updated ==
  ASSUME NEW s, NEW e, IsSequence(s), NEW i \in 1..Len(s)
  PROVE  /\ IsSequence([s EXCEPT ![i] = e]) /\ Len([s EXCEPT ![i] = e]) = Len(s)
         /\ \A j \in 1..Len(s) : [s EXCEPT ![i] = e][j] = IF j = i THEN e ELSE s[j]
<1>1. PICK S : s \in Seq(S)
  BY DEF IsSequence
<1>2. s \in Seq(S \cup {e})
  BY <1>1
<1>3. /\ [s EXCEPT ![i] = e] \in Seq(S \cup {e}) /\ Len([s EXCEPT ![i] = e]) = Len(s)
      /\ \A j \in 1..Len(s) : [s EXCEPT ![i] = e][j] = IF j = i THEN e ELSE s[j]
  BY <1>2, ExceptSeq
<1> QED BY <1>3 DEF IsSequence

LEMMA Lengths ==
  ASSUME NEW s, IsSequence(s)
  PROVE  Len(s) \in Nat
BY DEF IsSequence

LEMMA InitIInv == Init => IInv
<1> SUFFICES ASSUME Init PROVE IInv
  OBVIOUS
<1>1. IsSequence(<< >>) /\ Len(<< >>) = 0
  BY DEF IsSequence
<1>2. IsSequence(commits)
  <2>1. commits \in Seq({commits[1]})
    BY DEF Init
  <2> QED BY <2>1 DEF IsSequence
<1>3. Shape
  BY <1>1, <1>2 DEF Init, Shape, Long, Published
<1> QED BY <1>1, <1>3 DEF Init, IInv, RequestInv, EvidenceInv, GateInv, ManualInv, SentInv,
                          OneSendPerApproval, Published

-----------------------------------------------------------------------------
(* What every step leaves: commits, and the checks that succeeded.         *)
Grows ==
  /\ Len(commits) \in Nat /\ Len(commits') \in Nat /\ Len(commits) <= Len(commits')
  /\ \A c \in 1..Len(commits) : commits'[c] = commits[c]
  /\ Len(release) \in Nat /\ Len(release') \in Nat /\ Len(release) <= Len(release')
  /\ \A v \in Published :
       /\ release'[v] = release[v] /\ (request'[v] = request[v] \/ Open(v))
       /\ Len(checks[v]) \in Nat /\ Len(checks'[v]) \in Nat /\ Len(checks[v]) <= Len(checks'[v])
       /\ \A k \in 1..Len(checks[v]) : checks[v][k] = "success" => checks'[v][k] = "success"

LEMMA SucceededStays ==
  ASSUME Grows, NEW v \in Published, NEW k, Succeeded(v, k)
  PROVE  Succeeded(v, k)' /\ Payload(v, k)' = Payload(v, k)
BY DEF Grows, Succeeded, Newest, Payload

LEMMA BackedStays ==
  ASSUME Shape, RequestInv, Grows, NEW v \in Published, Backed(v), ~Open(v)
  PROVE  Backed(v)' /\ ~Open(v)'
<1>1. request'[v] = request[v] /\ release'[v] = release[v] /\ Merge(v)' = Merge(v)
  BY DEF Grows, Merge
<1>2. /\ Merge(v) \in 1..Len(commits) /\ release[v] \in 1..Len(commits)
      /\ commits'[Merge(v)] = commits[Merge(v)] /\ commits'[release[v]] = commits[release[v]]
  BY DEF RequestInv, Shape, Grows
<1>3. MergedAsTested(v)'
  BY <1>1, <1>2 DEF Backed, MergedAsTested, Source
<1>4. PICK check \in 1..Newest(v) :
        Succeeded(v, check) /\ commits[Merge(v)].marker = Payload(v, check)
  BY DEF Backed
<1>5. Succeeded(v, check)' /\ commits'[Merge(v)'].marker = Payload(v, check)'
  BY <1>1, <1>2, <1>4, SucceededStays
<1>6. check \in 1..Newest(v)'
  BY <1>5 DEF Succeeded
<1> QED BY <1>1, <1>3, <1>5, <1>6 DEF Backed, Open

(* The gate, a deployment's dispatches and what was sent are as they were. *)
LEMMA OtherStep ==
  ASSUME IInv, Shape', EvidenceInv', Grows,
         UNCHANGED <<release, request, gate, attempt, sent, dispatch, stage, tries>>
  PROVE  IInv'
<1> USE DEF IInv
<1>1. Published' = Published /\ \A v : Approved(v)' = Approved(v) /\ Open(v)' = Open(v)
  BY DEF Published, Approved, Open
<1>2. RequestInv'
  BY <1>1 DEF RequestInv, Grows, Open, Merge
<1>3. GateInv'
  BY <1>1, BackedStays DEF GateInv
<1>4. ManualInv' /\ SentInv'
  BY <1>1 DEF ManualInv, Dispatched, First, SentInv, OneSendPerApproval
<1> QED BY <1>2, <1>3, <1>4

LEMMA ShapeLengths ==
  ASSUME Shape
  PROVE  /\ Len(release) \in Nat /\ Len(commits) \in Nat /\ Len(sent) \in Nat
         /\ Len(dispatch) \in Nat
         /\ \A v \in Published : Len(checks[v]) \in Nat
         /\ Published = 1..Len(release)
BY Lengths DEF Shape, Published

LEMMA Stands ==
  ASSUME Shape, UNCHANGED <<commits, release, request, checks>>
  PROVE  Grows
BY ShapeLengths DEF Grows

(* The steps that only add a commit.                                       *)
LEMMA CommitStep ==
  ASSUME IInv, NEW c, commits' = Append(commits, c),
         UNCHANGED <<release, request, evidence, dispatch, stage, tries, gate, attempt, sent>>
  PROVE  IInv'
<1> USE DEF IInv
<1>1. /\ IsSequence(commits') /\ Len(commits') = Len(commits) + 1 /\ Len(commits) \in Nat
      /\ \A i \in 1..Len(commits) : commits'[i] = commits[i]
  BY Appended DEF Shape
<1>2. Grows
  BY <1>1, ShapeLengths DEF Grows, evidence
<1>3. Shape'
  <2>1. /\ UNCHANGED <<release, request, checks, run, bound, comment, gate, attempt, stage,
                       tries, dispatch, sent>>
        /\ Published' = Published
    BY DEF evidence, Published
  <2>2. \A v \in Published : release[v] \in 1..Len(commits')
    BY <1>1 DEF Shape
  <2> QED BY <1>1, <2>1, <2>2 DEF Shape, Long
<1>4. EvidenceInv'
  BY DEF EvidenceInv, Succeeded, Newest, Payload, Published, evidence
<1> QED BY <1>2, <1>3, <1>4, OtherStep

(* The steps that only change the checks of a version.                     *)
LEMMA CheckStep ==
  ASSUME IInv, NEW v \in Published, CheckEnds(v) \/ CheckAgain(v)
  PROVE  IInv'
<1> USE DEF IInv
<1>1. /\ UNCHANGED <<git, run, bound, artifact, comment, manual, deployment>>
      /\ IsSequence(checks) /\ Len(checks) = Len(release) /\ IsSequence(checks[v])
      /\ v \in 1..Len(checks)
  BY DEF CheckEnds, CheckAgain, Shape, Long, Published
<1>2. PICK new : /\ checks' = [checks EXCEPT ![v] = new] /\ IsSequence(new)
                 /\ Len(checks[v]) \in Nat /\ Len(new) \in Nat /\ Len(checks[v]) <= Len(new)
                 /\ \A k \in 1..Len(checks[v]) : checks[v][k] = "success" => new[k] = "success"
  <2>1. CASE CheckEnds(v)
    <3>1. PICK status : checks' = [checks EXCEPT ![v][Newest(v)] = status]
      BY <2>1 DEF CheckEnds
    <3>2. checks' = [checks EXCEPT ![v] = [checks[v] EXCEPT ![Newest(v)] = status]]
      BY <3>1
    <3>3. checks[v][Newest(v)] = "pending" /\ Len(checks[v]) \in Nat
      BY <2>1, ShapeLengths DEF CheckEnds
    <3>4. Newest(v) \in 1..Len(checks[v])
      BY <3>3 DEF Newest, Shape
    <3> DEFINE new == [checks[v] EXCEPT ![Newest(v)] = status]
    <3>5. /\ IsSequence(new) /\ Len(new) = Len(checks[v])
          /\ \A k \in 1..Len(checks[v]) :
               new[k] = IF k = Newest(v) THEN status ELSE checks[v][k]
      BY <3>4, <1>1, Updated
    <3>6. checks' = [checks EXCEPT ![v] = new]
      BY <3>2
    <3> HIDE DEF new
    <3>7. /\ Len(new) \in Nat /\ Len(checks[v]) <= Len(new)
          /\ \A k \in 1..Len(checks[v]) : checks[v][k] = "success" => new[k] = "success"
      BY <3>5, <3>3
    <3> QED BY <3>3, <3>5, <3>6, <3>7
  <2>2. CASE CheckAgain(v)
    <3> DEFINE new == Append(checks[v], "pending")
    <3>1. checks' = [checks EXCEPT ![v] = new]
      BY <2>2 DEF CheckAgain
    <3>2. /\ IsSequence(new) /\ Len(checks[v]) \in Nat /\ Len(new) = Len(checks[v]) + 1
          /\ \A k \in 1..Len(checks[v]) : new[k] = checks[v][k]
      BY <1>1, Appended
    <3> HIDE DEF new
    <3>3. Len(new) \in Nat /\ Len(checks[v]) <= Len(new)
      BY <3>2
    <3> QED BY <3>1, <3>2, <3>3
  <2> QED BY <2>1, <2>2
<1>3. /\ IsSequence(checks') /\ Len(checks') = Len(release)
      /\ \A w \in Published : checks'[w] = IF w = v THEN new ELSE checks[w]
  <2>1. checks' = [checks EXCEPT ![v] = new]
    BY <1>2
  <2>2. Published = 1..Len(checks)
    BY <1>1 DEF Published
  <2>3. /\ IsSequence([checks EXCEPT ![v] = new]) /\ Len([checks EXCEPT ![v] = new]) = Len(checks)
        /\ \A w \in 1..Len(checks) : [checks EXCEPT ![v] = new][w] = IF w = v THEN new ELSE checks[w]
    BY <1>1, Updated
  <2> QED BY <2>1, <2>2, <2>3, <1>1
<1>4. Grows
  BY <1>1, <1>2, <1>3, ShapeLengths DEF Grows, git
<1>5. Shape'
  BY <1>1, <1>2, <1>3 DEF Shape, Long, Published, git, manual, started, deployment
<1>6. EvidenceInv'
  <2>1. Published' = Published /\ UNCHANGED <<run, bound, comment>>
    BY <1>1 DEF Published, git
  <2>2. \A w \in Published : \A k : Succeeded(w, k) => Succeeded(w, k)' /\ Payload(w, k)' = Payload(w, k)
    BY <1>4, SucceededStays
  <2>3. \A w, k : Succeeded(w, k)' => k \in 1..Newest(w)'
    BY DEF Succeeded
  <2> QED BY <2>1, <2>2, <2>3 DEF EvidenceInv
<1>7. UNCHANGED <<release, request, gate, attempt, sent, dispatch, stage, tries>>
  BY <1>1 DEF git, manual, started, deployment
<1> QED BY <1>4, <1>5, <1>6, <1>7, OtherStep

-----------------------------------------------------------------------------
LEMMA Same ==
  ASSUME NEW s, IsSequence(s), NEW i \in 1..Len(s)
  PROVE  s = [s EXCEPT ![i] = s[i]]
<1>1. PICK S : s \in Seq(S)
  BY DEF IsSequence
<1> QED BY <1>1

(* A step of the release run, or what is lost: only the readiness changes. *)
LEMMA ReadinessStep ==
  ASSUME IInv, NEW v \in Published, NEW r, NEW b, NEW c,
         run' = [run EXCEPT ![v] = r], bound' = [bound EXCEPT ![v] = b],
         comment' = [comment EXCEPT ![v] = c], UNCHANGED <<git, checks, manual, deployment>>,
         r \in {"reread", "post"} => Succeeded(v, b),
         \/ c \in {comment[v], NoMarker}
         \/ \E check : Succeeded(v, check) /\ c = Payload(v, check)
  PROVE  IInv'
<1> USE DEF IInv
<1>1. /\ UNCHANGED <<commits, release, request, checks, gate, attempt, sent, dispatch, stage, tries>>
      /\ Published' = Published /\ Published = 1..Len(run) /\ Published = 1..Len(bound)
      /\ Published = 1..Len(comment)
  BY DEF git, manual, started, deployment, Published, Shape, Long
<1>2. /\ Long(run', Len(release)) /\ Long(bound', Len(release)) /\ Long(comment', Len(release))
      /\ \A w \in Published : /\ run'[w] = IF w = v THEN r ELSE run[w]
                              /\ bound'[w] = IF w = v THEN b ELSE bound[w]
                              /\ comment'[w] = IF w = v THEN c ELSE comment[w]
  <2>1. v \in 1..Len(run) /\ v \in 1..Len(bound) /\ v \in 1..Len(comment)
    BY <1>1
  <2>2. /\ IsSequence(run) /\ IsSequence(bound) /\ IsSequence(comment)
        /\ Len(run) = Len(release) /\ Len(bound) = Len(release) /\ Len(comment) = Len(release)
    BY DEF Shape, Long
  <2>3. /\ IsSequence(run') /\ Len(run') = Len(run)
        /\ \A w \in Published : run'[w] = IF w = v THEN r ELSE run[w]
    <3>1. LET new == [run EXCEPT ![v] = r]
          IN /\ IsSequence(new) /\ Len(new) = Len(run)
             /\ \A w \in 1..Len(run) : new[w] = IF w = v THEN r ELSE run[w]
      <4>1. IsSequence(run) /\ v \in 1..Len(run)
        BY <2>1, <2>2
      <4> QED BY ONLY <4>1, Updated
    <3> QED BY <1>1, <3>1
  <2>4. /\ IsSequence(bound') /\ Len(bound') = Len(bound)
        /\ \A w \in Published : bound'[w] = IF w = v THEN b ELSE bound[w]
    <3>1. LET new == [bound EXCEPT ![v] = b]
          IN /\ IsSequence(new) /\ Len(new) = Len(bound)
             /\ \A w \in 1..Len(bound) : new[w] = IF w = v THEN b ELSE bound[w]
      <4>1. IsSequence(bound) /\ v \in 1..Len(bound)
        BY <2>1, <2>2
      <4> QED BY ONLY <4>1, Updated
    <3> QED BY <1>1, <3>1
  <2>5. /\ IsSequence(comment') /\ Len(comment') = Len(comment)
        /\ \A w \in Published : comment'[w] = IF w = v THEN c ELSE comment[w]
    <3>1. LET new == [comment EXCEPT ![v] = c]
          IN /\ IsSequence(new) /\ Len(new) = Len(comment)
             /\ \A w \in 1..Len(comment) : new[w] = IF w = v THEN c ELSE comment[w]
      <4>1. IsSequence(comment) /\ v \in 1..Len(comment)
        BY <2>1, <2>2
      <4> QED BY ONLY <4>1, Updated
    <3> QED BY <1>1, <3>1
  <2> QED BY <2>2, <2>3, <2>4, <2>5 DEF Long
<1>3. Shape'
  BY <1>1, <1>2 DEF Shape
<1>4. EvidenceInv'
  <2>1. \A w, k : Succeeded(w, k)' = Succeeded(w, k) /\ Payload(w, k)' = Payload(w, k)
                  /\ Newest(w)' = Newest(w)
    BY <1>1 DEF Succeeded, Newest, Payload
  <2>2. \A w, k : Succeeded(w, k) => k \in 1..Newest(w)
    BY DEF Succeeded
  <2> QED BY <1>1, <1>2, <2>1, <2>2 DEF EvidenceInv
<1> QED BY <1>1, <1>3, <1>4, Stands, OtherStep

LEMMA AutomaticStep ==
  ASSUME IInv, NEW v \in Published, Automatic(v) \/ Lose(v)
  PROVE  IInv'
<1> USE DEF IInv
<1>1. /\ run = [run EXCEPT ![v] = run[v]] /\ bound = [bound EXCEPT ![v] = bound[v]]
      /\ comment = [comment EXCEPT ![v] = comment[v]]
      /\ run[v] \in {"reread", "post"} => Succeeded(v, bound[v])
  <2>1. /\ IsSequence(run) /\ IsSequence(bound) /\ IsSequence(comment)
        /\ v \in 1..Len(run) /\ v \in 1..Len(bound) /\ v \in 1..Len(comment)
    BY DEF Shape, Long, Published
  <2>2. run[v] \in {"reread", "post"} => Succeeded(v, bound[v])
    BY DEF EvidenceInv
  <2> QED BY <2>1, <2>2, Same
<1>2. CASE Lose(v)
  <2>1. UNCHANGED <<git, checks, run, bound, manual, deployment>>
    BY <1>2 DEF Lose
  <2>2. comment' = comment \/ comment' = [comment EXCEPT ![v] = NoMarker]
    BY <1>2 DEF Lose
  <2>3. run' = [run EXCEPT ![v] = run[v]] /\ bound' = [bound EXCEPT ![v] = bound[v]]
    BY <1>1, <2>1
  <2>4. PICK c \in {comment[v], NoMarker} : comment' = [comment EXCEPT ![v] = c]
    BY <1>1, <2>2
  <2> QED BY <1>1, <2>1, <2>3, <2>4, ReadinessStep
<1>3. CASE Preflight(v)
  <2>1. /\ run' = [run EXCEPT ![v] = "read"]
        /\ UNCHANGED <<git, checks, bound, comment, manual, deployment>>
    BY <1>3 DEF Preflight, RunGoto
  <2> QED BY <1>1, <2>1, ReadinessStep
<1>4. CASE ReadEvidence(v)
  <2>1. UNCHANGED <<git, checks, comment, manual, deployment>>
    BY <1>4 DEF ReadEvidence
  <2>2. CASE run' = [run EXCEPT ![v] = "failure"] /\ bound' = bound
    BY <1>1, <2>1, <2>2, ReadinessStep
  <2>3. CASE /\ run' = [run EXCEPT ![v] = "reread"] /\ bound' = [bound EXCEPT ![v] = Newest(v)]
             /\ checks[v][Newest(v)] = "success"
    <3>1. Succeeded(v, Newest(v))
      BY <2>3, ShapeLengths DEF Succeeded, Newest, Shape
    <3> QED BY <1>1, <2>1, <2>3, <3>1, ReadinessStep
  <2> QED BY <1>4, <2>2, <2>3 DEF ReadEvidence, RunGoto
<1>5. CASE ReadAgain(v)
  <2>1. /\ run[v] = "reread" /\ UNCHANGED <<git, checks, bound, comment, manual, deployment>>
    BY <1>5 DEF ReadAgain, RunAt
  <2>2. run' = [run EXCEPT ![v] = "post"] \/ run' = [run EXCEPT ![v] = "failure"]
    BY <1>5 DEF ReadAgain, RunGoto
  <2> QED BY <1>1, <2>1, <2>2, ReadinessStep
<1>6. CASE PostReady(v)
  <2>1. /\ run[v] = "post" /\ UNCHANGED <<git, checks, bound, manual, deployment>>
    BY <1>6 DEF PostReady, RunAt
  <2>2. run' = [run EXCEPT ![v] = "finish"] \/ run' = [run EXCEPT ![v] = "failure"]
    BY <1>6 DEF PostReady, RunGoto
  <2>3. comment' = comment \/ comment' = [comment EXCEPT ![v] = Payload(v, bound[v])]
    BY <1>6 DEF PostReady
  <2>4. Succeeded(v, bound[v])
    BY <1>1, <2>1
  <2>5. PICK next : run' = [run EXCEPT ![v] = next] /\ next \notin {"reread", "post"}
    BY <2>2
  <2>6. CASE comment' = comment
    <3>1. comment' = [comment EXCEPT ![v] = comment[v]]
      BY <1>1, <2>6
    <3> QED BY <1>1, <2>1, <2>5, <3>1, ReadinessStep
  <2>7. CASE comment' = [comment EXCEPT ![v] = Payload(v, bound[v])]
    BY <1>1, <2>1, <2>4, <2>5, <2>7, ReadinessStep
  <2> QED BY <2>3, <2>6, <2>7
<1>7. CASE RunEnds(v)
  <2>1. UNCHANGED <<git, checks, bound, comment, manual, deployment>>
    BY <1>7 DEF RunEnds
  <2>2. run' = [run EXCEPT ![v] = "success"] \/ run' = [run EXCEPT ![v] = "failure"]
    BY <1>7 DEF RunEnds, RunGoto
  <2> QED BY <1>1, <2>1, <2>2, ReadinessStep
<1> QED BY <1>2, <1>3, <1>4, <1>5, <1>6, <1>7 DEF Automatic

-----------------------------------------------------------------------------
(* A new release was neither merged nor sent.                              *)
LEMMA PublishStep ==
  ASSUME IInv, Publish
  PROVE  IInv'
<1> USE DEF IInv
<1>0. PICK n : n = Len(release) + 1
  OBVIOUS
<1>1. PICK c : commits' = Append(commits, c)
  BY DEF Publish, Commit
<1>2. PICK outcome \in {"preflight", "failure"} : run' = Append(run, outcome)
  BY DEF Publish
<1>3. /\ release' = Append(release, Fresh)
      /\ request' = Append(request, [state |-> "open", merge |-> None])
      /\ checks' = Append(checks, <<"pending">>) /\ bound' = Append(bound, None)
      /\ comment' = Append(comment, NoMarker)
      /\ gate' = Append(gate, Absent) /\ attempt' = Append(attempt, 1)
      /\ UNCHANGED <<dispatch, stage, tries, sent>>
  BY DEF Publish, manual, started
<1>4. /\ IsSequence(commits') /\ Len(commits') = Len(commits) + 1 /\ Len(commits) \in Nat
      /\ \A i \in 1..Len(commits) : commits'[i] = commits[i]
  BY <1>1, Appended DEF Shape
<1>5. /\ IsSequence(release') /\ Len(release') = n /\ Len(release) \in Nat
      /\ release'[n] = Fresh /\ \A v \in Published : release'[v] = release[v]
  BY <1>0, <1>3, Appended DEF Shape, Published
<1>6. /\ Published' = Published \cup {n} /\ n \notin Published /\ Published = 1..Len(release)
  BY <1>0, <1>5 DEF Published
<1>7. /\ Long(request', n) /\ request'[n] = [state |-> "open", merge |-> None]
      /\ Long(checks', n) /\ checks'[n] = <<"pending">>
      /\ \A v \in Published : request'[v] = request[v] /\ checks'[v] = checks[v]
  BY <1>0, <1>3, <1>5, <1>6, Appended DEF Shape, Long
<1>8. /\ Long(run', n) /\ run'[n] = outcome /\ Long(bound', n)
      /\ Long(comment', n) /\ comment'[n] = NoMarker
      /\ \A v \in Published : run'[v] = run[v] /\ bound'[v] = bound[v] /\ comment'[v] = comment[v]
  BY <1>0, <1>2, <1>3, <1>5, <1>6, Appended DEF Shape, Long
<1>9. /\ Long(gate', n) /\ gate'[n] = Absent /\ Long(attempt', n) /\ attempt'[n] = 1
      /\ \A v \in Published : gate'[v] = gate[v] /\ attempt'[v] = attempt[v]
  BY <1>0, <1>3, <1>5, <1>6, Appended DEF Shape, Long
<1>10. IsSequence(<<"pending">>) /\ Len(<<"pending">>) = 1
  <2>1. <<"pending">> \in Seq({"pending"})
    OBVIOUS
  <2> QED BY <2>1 DEF IsSequence
<1>11. Grows
  <2>1. Len(release) <= Len(release') /\ Len(release') \in Nat
    BY <1>0, <1>5
  <2>2. Len(commits) <= Len(commits') /\ Len(commits') \in Nat
    BY <1>4
  <2>3. \A v \in Published :
          /\ release'[v] = release[v] /\ request'[v] = request[v]
          /\ checks'[v] = checks[v] /\ Len(checks[v]) \in Nat
    BY <1>5, <1>7, ShapeLengths
  <2> QED BY <1>4, <1>5, <2>1, <2>2, <2>3 DEF Grows
<1>12. Shape'
  <2>1. \A v \in Published' : /\ IsSequence(checks'[v]) /\ Len(checks'[v]) > 0
                              /\ release'[v] \in 1..Len(commits') /\ attempt'[v] \in Nat \ {0}
    <3>1. \A v \in Published : /\ IsSequence(checks[v]) /\ Len(checks[v]) > 0
                               /\ release[v] \in 1..Len(commits) /\ attempt[v] \in Nat \ {0}
      BY DEF Shape
    <3>2. \A i \in 1..Len(commits) : i \in 1..Len(commits')
      BY <1>4
    <3>3. release'[n] \in 1..Len(commits')
      BY <1>4, <1>5 DEF Fresh
    <3>4. IsSequence(checks'[n]) /\ Len(checks'[n]) > 0 /\ attempt'[n] \in Nat \ {0}
      BY <1>7, <1>9, <1>10
    <3>5. \A v \in Published : release'[v] \in 1..Len(commits')
      BY <1>5, <3>1, <3>2
    <3> QED BY <1>6, <1>7, <1>9, <3>1, <3>3, <3>4, <3>5
  <2> QED BY <2>1, <1>3, <1>4, <1>5, <1>7, <1>8, <1>9 DEF Shape
<1>13. RequestInv'
  <2>1. Open(n)' /\ gate'[n] = Absent /\ attempt'[n] = 1
    BY <1>7, <1>9 DEF Open
  <2>2. \A v \in Published : Open(v)' = Open(v) /\ Merge(v)' = Merge(v)
    BY <1>7 DEF Open, Merge
  <2>3. \A v \in Published : Merge(v) \in 1..Len(commits) => Merge(v)' \in 1..Len(commits')
    BY <2>2, <1>4
  <2> QED BY <2>1, <2>2, <2>3, <1>6, <1>9 DEF RequestInv
<1>14. EvidenceInv'
  <2>1. \A v \in Published : \A k : Succeeded(v, k) => Succeeded(v, k)' /\ Payload(v, k)' = Payload(v, k)
    BY <1>11, SucceededStays
  <2>2. \A v, k : Succeeded(v, k)' => k \in 1..Newest(v)'
    BY DEF Succeeded
  <2>3. outcome \notin {"reread", "post"}
    BY <1>2
  <2> QED BY <1>6, <1>8, <2>1, <2>2, <2>3 DEF EvidenceInv
<1>15. GateInv'
  <2>1. \A v : Approved(v)' = Approved(v)
    BY <1>3 DEF Approved
  <2>2. ~Approved(n)
    BY <1>6 DEF Approved, SentInv
  <2> QED BY <2>1, <2>2, <1>6, <1>9, <1>11, BackedStays DEF GateInv, Reads, Absent
<1>16. ManualInv' /\ SentInv'
  BY <1>3, <1>6 DEF ManualInv, Dispatched, First, SentInv, OneSendPerApproval
<1> QED BY <1>12, <1>13, <1>14, <1>15, <1>16

-----------------------------------------------------------------------------
(* The owner merges a request: nothing was sent for it, and its gate was   *)
(* not there.                                                              *)
LEMMA MergeRequestStep ==
  ASSUME IInv, NEW v \in Published, MergeRequest(v)
  PROVE  IInv'
<1> USE DEF IInv
<1>1. PICK c : commits' = Append(commits, c)
  BY DEF MergeRequest, Commit
<1>2. /\ IsSequence(commits') /\ Len(commits') = Len(commits) + 1 /\ Len(commits) \in Nat
      /\ \A i \in 1..Len(commits) : commits'[i] = commits[i]
  BY <1>1, Appended DEF Shape
<1>3. /\ UNCHANGED <<release, checks, run, bound, comment, dispatch, stage, tries, attempt, sent>>
      /\ Open(v) /\ Published' = Published
      /\ \A w : Approved(w)' = Approved(w)
  BY DEF MergeRequest, evidence, manual, started, Published, Approved
<1> DEFINE closed == [state |-> "closed", merge |-> Fresh]
<1>4. Fresh \in 1..Len(commits') /\ closed.state = "closed" /\ closed.merge = Fresh
  BY <1>2 DEF Fresh
<1>5. /\ v \in 1..Len(request) /\ v \in 1..Len(gate) /\ IsSequence(request) /\ IsSequence(gate)
      /\ Published = 1..Len(request) /\ Published = 1..Len(gate)
  BY DEF Shape, Long, Published
<1>6. request' = [request EXCEPT ![v] = closed] /\ gate' = [gate EXCEPT ![v] = Started]
  BY DEF MergeRequest
<1> HIDE DEF closed
<1>7. /\ IsSequence(request') /\ Len(request') = Len(request)
      /\ \A w \in Published : request'[w] = IF w = v THEN closed ELSE request[w]
  <2>1. /\ IsSequence([request EXCEPT ![v] = closed])
        /\ Len([request EXCEPT ![v] = closed]) = Len(request)
        /\ \A w \in 1..Len(request) :
             [request EXCEPT ![v] = closed][w] = IF w = v THEN closed ELSE request[w]
    BY <1>5, Updated
  <2> QED BY <1>5, <1>6, <2>1
<1>8. /\ IsSequence(gate') /\ Len(gate') = Len(gate)
      /\ \A w \in Published : gate'[w] = IF w = v THEN Started ELSE gate[w]
  <2>1. /\ IsSequence([gate EXCEPT ![v] = Started])
        /\ Len([gate EXCEPT ![v] = Started]) = Len(gate)
        /\ \A w \in 1..Len(gate) :
             [gate EXCEPT ![v] = Started][w] = IF w = v THEN Started ELSE gate[w]
    BY <1>5, Updated
  <2> QED BY <1>5, <1>6, <2>1
<1>9. Grows
  <2>1. Len(commits) <= Len(commits') /\ Len(commits') \in Nat
    BY <1>2
  <2>2. \A w \in Published : request'[w] = request[w] \/ Open(w)
    BY <1>3, <1>7
  <2> QED BY <1>2, <1>3, <2>1, <2>2, ShapeLengths DEF Grows
<1>10. Shape'
  BY <1>2, <1>3, <1>7, <1>8 DEF Shape, Long
<1>11. RequestInv'
  <2>1. ~Open(v)' /\ Merge(v)' = Fresh
    BY <1>4, <1>7 DEF Open, Merge
  <2>2. \A w \in Published \ {v} : Open(w)' = Open(w) /\ Merge(w)' = Merge(w) /\ gate'[w] = gate[w]
    BY <1>7, <1>8 DEF Open, Merge
  <2>3. \A i \in 1..Len(commits) : i \in 1..Len(commits')
    BY <1>2
  <2> QED BY <1>3, <1>4, <2>1, <2>2, <2>3 DEF RequestInv
<1>12. EvidenceInv'
  BY <1>3 DEF EvidenceInv, Succeeded, Newest, Payload
<1>13. GateInv'
  <2>1. gate[v] = Absent /\ attempt[v] = 1 /\ ~Approved(v)
    BY <1>3 DEF RequestInv, GateInv
  <2>2. Started \notin 1..Reads
    BY DEF Started, Reads
  <2> QED BY <1>3, <1>8, <1>9, <2>1, <2>2, BackedStays DEF GateInv
<1>14. ManualInv' /\ SentInv'
  BY <1>3 DEF ManualInv, Dispatched, First, SentInv, OneSendPerApproval
<1> QED BY <1>10, <1>11, <1>12, <1>13, <1>14

(* The gate of a merge goes where the evidence lets it.                    *)
LEMMA GateStep ==
  ASSUME IInv, NEW v \in Published, NEW g, NEW a \in Nat \ {0},
         gate' = [gate EXCEPT ![v] = g], attempt' = [attempt EXCEPT ![v] = a],
         UNCHANGED <<git, evidence, manual, sent>>, ~Open(v), a = attempt[v] \/ a # 1,
         g \in 1..Reads => a = 1 /\ ~Approved(v) /\ Backed(v),
         g \in {Absent, Started} => a # 1
  PROVE  IInv'
<1> USE DEF IInv
<1>1. /\ UNCHANGED <<commits, release, request, checks, run, bound, comment>>
      /\ UNCHANGED <<dispatch, stage, tries, sent>> /\ Published' = Published
      /\ \A w : /\ Approved(w)' = Approved(w) /\ Open(w)' = Open(w) /\ Merge(w)' = Merge(w)
               /\ Backed(w)' = Backed(w)
  BY DEF git, evidence, manual, started, Published, Approved, Open, Merge, Backed,
         MergedAsTested, Source, Newest, Succeeded, Payload
<1>2. /\ Published = 1..Len(gate) /\ Published = 1..Len(attempt)
      /\ v \in 1..Len(gate) /\ v \in 1..Len(attempt) /\ IsSequence(gate) /\ IsSequence(attempt)
  BY DEF Shape, Long, Published
<1>3. /\ IsSequence(gate') /\ Len(gate') = Len(gate)
      /\ \A w \in Published : gate'[w] = IF w = v THEN g ELSE gate[w]
  <2>1. LET new == [gate EXCEPT ![v] = g]
        IN /\ IsSequence(new) /\ Len(new) = Len(gate)
           /\ \A w \in 1..Len(gate) : new[w] = IF w = v THEN g ELSE gate[w]
    BY <1>2, Updated
  <2> QED BY <1>2, <2>1
<1>4. /\ IsSequence(attempt') /\ Len(attempt') = Len(attempt)
      /\ \A w \in Published : attempt'[w] = IF w = v THEN a ELSE attempt[w]
  <2>1. LET new == [attempt EXCEPT ![v] = a]
        IN /\ IsSequence(new) /\ Len(new) = Len(attempt)
           /\ \A w \in 1..Len(attempt) : new[w] = IF w = v THEN a ELSE attempt[w]
    BY <1>2, Updated
  <2> QED BY <1>2, <2>1
<1>5. Shape'
  <2>1. \A w \in Published : attempt'[w] \in Nat \ {0}
    BY <1>4 DEF Shape
  <2>2. Long(gate', Len(release)) /\ Long(attempt', Len(release))
    BY <1>2, <1>3, <1>4 DEF Long, Shape
  <2> QED BY <1>1, <2>1, <2>2 DEF Shape
<1>6. RequestInv'
  BY <1>1, <1>3, <1>4 DEF RequestInv
<1>7. EvidenceInv'
  BY <1>1 DEF EvidenceInv, Succeeded, Newest, Payload
<1>8. GateInv'
  BY <1>1, <1>3, <1>4 DEF GateInv
<1>9. ManualInv' /\ SentInv'
  BY <1>1 DEF ManualInv, Dispatched, First, SentInv, OneSendPerApproval
<1> QED BY <1>5, <1>6, <1>7, <1>8, <1>9

LEMMA GateReadStep ==
  ASSUME IInv, NEW v \in Published, GateRead(v) \/ GateFails(v) \/ GateAgain(v)
  PROVE  IInv'
<1> USE DEF IInv
<1>1. /\ attempt = [attempt EXCEPT ![v] = attempt[v]] /\ attempt[v] \in Nat \ {0}
      /\ UNCHANGED <<git, evidence, manual, sent>>
  <2>1. IsSequence(attempt) /\ v \in 1..Len(attempt)
    BY DEF Shape, Long, Published
  <2>2. attempt[v] \in Nat \ {0}
    BY DEF Shape
  <2>3. UNCHANGED <<git, evidence, manual, sent>>
    BY DEF GateRead, GateFails, GateAgain
  <2> QED BY <2>1, <2>2, <2>3, Same
<1>2. Absent \notin 0..Reads /\ Absent \notin {Refused, Deployed} /\ Started # Absent
      /\ Refused \notin {Absent, Started} /\ Refused \notin 1..Reads /\ Started \notin 1..Reads
  BY DEF Absent, Reads, Refused, Deployed, Started
<1>3. ~Open(v)
  BY <1>2 DEF GateRead, GateFails, GateAgain, RequestInv, Reads
<1>4. CASE gate' = [gate EXCEPT ![v] = Refused] /\ attempt' = attempt
  <2>1. attempt' = [attempt EXCEPT ![v] = attempt[v]]
    BY <1>1, <1>4
  <2> QED BY <1>1, <1>2, <1>3, <1>4, <2>1, GateStep
<1>5. CASE GateAgain(v)
  <2>1. /\ gate' = [gate EXCEPT ![v] = Started]
        /\ attempt' = [attempt EXCEPT ![v] = attempt[v] + 1]
    BY <1>5 DEF GateAgain
  <2>2. attempt[v] + 1 \in Nat \ {0} /\ attempt[v] + 1 # 1
    BY <1>1
  <2> QED BY <1>1, <1>2, <1>3, <2>1, <2>2, GateStep
<1>6. CASE /\ gate[v] \in 0..(Reads - 1) /\ attempt' = attempt
           /\ IF gate[v] % 2 = 0 THEN FirstPass(v) ELSE LastPass(v)
           /\ gate' = [gate EXCEPT ![v] = gate[v] + 1]
  <2>1. attempt[v] = 1 /\ attempt' = [attempt EXCEPT ![v] = attempt[v]]
    BY <1>1, <1>6 DEF FirstPass, LastPass, FirstAttempt
  <2>2. gate[v] + 1 \notin {Absent, Started}
    BY <1>6 DEF Absent, Started, Reads
  <2>3. ~Approved(v) /\ Backed(v)
    <3>1. CASE gate[v] \in 1..Reads
      BY <3>1 DEF GateInv
    <3>2. CASE gate[v] = Started
      <4>1. ~Approved(v)
        BY <2>1, <3>2 DEF GateInv
      <4>2. FirstPass(v)
        BY <1>6, <3>2 DEF Started
      <4>3. MergedAsTested(v) /\ comment[v] # NoMarker /\ commits[Merge(v)].marker = comment[v]
        BY <4>2 DEF FirstPass, LiveApproval
      <4>4. Backed(v)
        BY <4>3 DEF EvidenceInv, Backed
      <4> QED BY <4>1, <4>4
    <3> QED BY <1>6, <3>1, <3>2 DEF Reads, Started
  <2> QED BY <1>1, <1>3, <1>6, <2>1, <2>2, <2>3, GateStep
<1>7. CASE GateRead(v)
  BY <1>4, <1>6, <1>7 DEF GateRead, GateRefuses
<1>8. CASE GateFails(v)
  BY <1>4, <1>8 DEF GateFails, GateRefuses
<1> QED BY <1>5, <1>7, <1>8

LEMMA GateEntersStep ==
  ASSUME IInv, NEW v \in Published, GateEnters(v)
  PROVE  IInv'
<1> USE DEF IInv
<1>1. UNCHANGED <<commits, release, request, checks, run, bound, comment>>
      /\ UNCHANGED <<gate, attempt, sent, dispatch, stage, tries>>
  BY DEF GateEnters, git, evidence, manual, started
<1>2. Shape' /\ EvidenceInv'
  BY <1>1 DEF Shape, Long, Published, EvidenceInv, Succeeded, Newest, Payload
<1> QED BY <1>1, <1>2, Stands, OtherStep

(* What was sent before stays sent, and only the new one is new.           *)
LEMMA Sending ==
  ASSUME IsSequence(sent), NEW e, sent' = Append(sent, e), OneSendPerApproval,
         \A i \in 1..Len(sent) : sent[i] # e
  PROVE  /\ IsSequence(sent') /\ OneSendPerApproval'
         /\ \A x : (\E i \in 1..Len(sent') : sent'[i] = x) <=>
                     x = e \/ \E i \in 1..Len(sent) : sent[i] = x
<1> DEFINE n == Len(sent) + 1
<1>1. /\ IsSequence(sent') /\ Len(sent') = n /\ Len(sent) \in Nat
      /\ \A i \in 1..Len(sent) : sent'[i] = sent[i]
      /\ sent'[n] = e
  BY Appended
<1>2. 1..Len(sent') = (1..Len(sent)) \cup {n} /\ n \notin 1..Len(sent)
  BY <1>1
<1> HIDE DEF n
<1>3. OneSendPerApproval'
  BY <1>1, <1>2 DEF OneSendPerApproval
<1> QED BY <1>1, <1>2, <1>3

LEMMA GateSendsStep ==
  ASSUME IInv, NEW v \in Published, GateSends(v)
  PROVE  IInv'
<1> USE DEF IInv
<1>1. /\ UNCHANGED <<commits, release, request, checks, run, bound, comment>>
      /\ UNCHANGED <<dispatch, stage, tries, attempt>> /\ Published' = Published
      /\ \A w : Open(w)' = Open(w) /\ Merge(w)' = Merge(w) /\ Backed(w)' = Backed(w)
      /\ gate[v] = Reads /\ sent' = Append(sent, <<"approved", v>>)
      /\ gate' = [gate EXCEPT ![v] = Deployed]
  BY DEF GateSends, git, evidence, manual, started, Published, Open, Merge, Backed,
         MergedAsTested, Source, Newest, Succeeded, Payload
<1>2. attempt[v] = 1 /\ ~Approved(v) /\ Backed(v) /\ ~Open(v)
  BY <1>1 DEF GateInv, Reads
<1>3. /\ IsSequence(sent') /\ OneSendPerApproval'
      /\ \A x : (\E i \in 1..Len(sent') : sent'[i] = x) <=>
                  x = <<"approved", v>> \/ \E i \in 1..Len(sent) : sent[i] = x
  BY <1>1, <1>2, Sending DEF Shape, SentInv, Approved
<1>4. \A w : Approved(w)' <=> w = v \/ Approved(w)
  BY <1>3 DEF Approved
<1>5. \A d : Dispatched(d)' <=> Dispatched(d)
  BY <1>3 DEF Dispatched
<1>6. /\ IsSequence(gate') /\ Len(gate') = Len(gate)
      /\ \A w \in Published : gate'[w] = IF w = v THEN Deployed ELSE gate[w]
  <2>1. Published = 1..Len(gate) /\ v \in 1..Len(gate) /\ IsSequence(gate)
    BY DEF Shape, Long, Published
  <2>2. LET new == [gate EXCEPT ![v] = Deployed]
        IN /\ IsSequence(new) /\ Len(new) = Len(gate)
           /\ \A w \in 1..Len(gate) : new[w] = IF w = v THEN Deployed ELSE gate[w]
    BY <2>1, Updated
  <2> QED BY <1>1, <2>1, <2>2
<1>7. Shape'
  BY <1>1, <1>3, <1>6 DEF Shape, Long
<1>8. RequestInv'
  BY <1>1, <1>2, <1>6 DEF RequestInv
<1>9. EvidenceInv'
  BY <1>1 DEF EvidenceInv, Succeeded, Newest, Payload
<1>10. GateInv'
  <2>1. Deployed \notin 1..Reads /\ Deployed \notin {Absent, Started}
    BY DEF Deployed, Reads, Absent, Started
  <2> QED BY <1>1, <1>2, <1>4, <1>6, <2>1 DEF GateInv
<1>11. ManualInv'
  BY <1>1, <1>5 DEF ManualInv, First
<1>12. SentInv'
  <2>1. \A i \in 1..Len(sent') :
          sent'[i] = <<"approved", v>> \/ \E j \in 1..Len(sent) : sent[j] = sent'[i]
    BY <1>3
  <2>2. Published' = Published /\ dispatch' = dispatch /\ OneSendPerApproval'
    BY <1>1, <1>3
  <2>3. \A i \in 1..Len(sent') :
          \/ \E w \in Published : sent'[i] = <<"approved", w>>
          \/ \E d \in 1..Len(dispatch) : sent'[i] = <<"manual", d>>
    BY <2>1 DEF SentInv
  <2> QED BY <2>2, <2>3 DEF SentInv
<1> QED BY <1>7, <1>8, <1>9, <1>10, <1>11, <1>12

-----------------------------------------------------------------------------
(* A manual deployment goes where its evidence lets it.                    *)
LEMMA ManualStep ==
  ASSUME IInv, NEW d \in 1..Len(dispatch), NEW st, NEW t \in Nat \ {0},
         stage' = [stage EXCEPT ![d] = st], tries' = [tries EXCEPT ![d] = t],
         UNCHANGED <<git, evidence, dispatch, gate, attempt, sent>>,
         st \in {"reread", "send"} => t = 1 /\ ~Dispatched(d) /\ First(d),
         st \in {"queued", "read"} /\ t = 1 => ~Dispatched(d)
  PROVE  IInv'
<1> USE DEF IInv
<1>1. /\ UNCHANGED <<commits, release, request, checks, run, bound, comment>>
      /\ Published' = Published
      /\ \A w : /\ Approved(w)' = Approved(w) /\ Open(w)' = Open(w) /\ Merge(w)' = Merge(w)
               /\ Backed(w)' = Backed(w)
      /\ \A e : Dispatched(e)' = Dispatched(e) /\ First(e)' = First(e)
  BY DEF git, evidence, Published, Approved, Open, Merge, Backed, Dispatched, First,
         MergedAsTested, Source, Newest, Succeeded, Payload
<1>2. /\ Len(stage) = Len(dispatch) /\ Len(tries) = Len(dispatch)
      /\ IsSequence(stage) /\ IsSequence(tries) /\ d \in 1..Len(stage) /\ d \in 1..Len(tries)
  BY DEF Shape, Long
<1>3. /\ IsSequence(stage') /\ Len(stage') = Len(stage)
      /\ \A e \in 1..Len(dispatch) : stage'[e] = IF e = d THEN st ELSE stage[e]
  <2>1. LET new == [stage EXCEPT ![d] = st]
        IN /\ IsSequence(new) /\ Len(new) = Len(stage)
           /\ \A w \in 1..Len(stage) : new[w] = IF w = d THEN st ELSE stage[w]
    <3>1. IsSequence(stage) /\ d \in 1..Len(stage)
      BY <1>2
    <3> QED BY ONLY <3>1, Updated
  <2> QED BY <1>2, <2>1
<1>4. /\ IsSequence(tries') /\ Len(tries') = Len(tries)
      /\ \A e \in 1..Len(dispatch) : tries'[e] = IF e = d THEN t ELSE tries[e]
  <2>1. LET new == [tries EXCEPT ![d] = t]
        IN /\ IsSequence(new) /\ Len(new) = Len(tries)
           /\ \A w \in 1..Len(tries) : new[w] = IF w = d THEN t ELSE tries[w]
    <3>1. IsSequence(tries) /\ d \in 1..Len(tries)
      BY <1>2
    <3>2. \A u : LET new == [tries EXCEPT ![d] = u]
                IN /\ IsSequence(new) /\ Len(new) = Len(tries)
                   /\ \A w \in 1..Len(tries) : new[w] = IF w = d THEN u ELSE tries[w]
      BY ONLY <3>1, Updated
    <3> QED BY ONLY <3>2
  <2>2. tries' = [tries EXCEPT ![d] = t] /\ Len(tries) = Len(dispatch)
    BY <1>2
  <2> QED BY ONLY <2>1, <2>2
<1>5. Shape'
  <2>1. \A e \in 1..Len(dispatch) : tries'[e] \in Nat \ {0}
    BY <1>4 DEF Shape
  <2>2. Long(stage', Len(dispatch)) /\ Long(tries', Len(dispatch))
    BY <1>2, <1>3, <1>4 DEF Long
  <2> QED BY <1>1, <2>1, <2>2 DEF Shape
<1>6. RequestInv' /\ GateInv'
  BY <1>1 DEF RequestInv, GateInv
<1>7. EvidenceInv'
  BY <1>1 DEF EvidenceInv, Succeeded, Newest, Payload
<1>8. ManualInv'
  BY <1>1, <1>3, <1>4 DEF ManualInv
<1>9. SentInv'
  BY <1>1 DEF SentInv, OneSendPerApproval
<1> QED BY <1>5, <1>6, <1>7, <1>8, <1>9

LEMMA ManualReadStep ==
  ASSUME IInv, NEW d \in 1..Len(dispatch),
         DispatchEnters(d) \/ DispatchReads(d) \/ DispatchFails(d) \/ DispatchAgain(d)
  PROVE  IInv'
<1> USE DEF IInv
<1>1. tries = [tries EXCEPT ![d] = tries[d]] /\ tries[d] \in Nat \ {0}
  <2>1. IsSequence(tries) /\ d \in 1..Len(tries) /\ tries[d] \in Nat \ {0}
    BY DEF Shape, Long
  <2> QED BY <2>1, Same
<1>2. UNCHANGED <<git, evidence, dispatch, gate, attempt, sent>>
  BY DEF DispatchEnters, DispatchReads, DispatchFails, DispatchAgain, started, deployment
<1>3. CASE stage' = [stage EXCEPT ![d] = "refused"] /\ tries' = tries
  <2>1. tries' = [tries EXCEPT ![d] = tries[d]]
    BY <1>1, <1>3
  <2> QED BY <1>1, <1>2, <1>3, <2>1, ManualStep
<1>4. CASE DispatchEnters(d)
  <2>1. /\ stage[d] = "queued" /\ stage' = [stage EXCEPT ![d] = "read"]
        /\ tries' = [tries EXCEPT ![d] = tries[d]]
    BY <1>1, <1>4 DEF DispatchEnters
  <2>2. tries[d] = 1 => ~Dispatched(d)
    BY <2>1 DEF ManualInv
  <2> QED BY <1>1, <1>2, <2>1, <2>2, ManualStep
<1>5. CASE DispatchAgain(d)
  <2>1. stage' = [stage EXCEPT ![d] = "queued"] /\ tries' = [tries EXCEPT ![d] = tries[d] + 1]
    BY <1>5 DEF DispatchAgain
  <2>2. tries[d] + 1 \in Nat \ {0} /\ tries[d] + 1 # 1
    BY <1>1
  <2> QED BY <1>2, <2>1, <2>2, ManualStep
<1>6. CASE /\ stage[d] \in {"read", "reread"} /\ ManualEvidence(d) /\ tries' = tries
           /\ stage' = [stage EXCEPT ![d] = IF stage[d] = "read" THEN "reread" ELSE "send"]
  <2>1. tries[d] = 1 /\ tries' = [tries EXCEPT ![d] = tries[d]]
    BY <1>1, <1>6 DEF ManualEvidence
  <2>2. ~Dispatched(d)
    BY <1>6, <2>1 DEF ManualInv
  <2>3. First(d)
    <3>1. Unconsumed(d) /\ Len(dispatch) \in Nat
      BY <1>6, ShapeLengths DEF ManualEvidence
    <3>2. \A e \in 1..(d - 1) : e \in 1..Len(dispatch) /\ e # d
      BY <3>1
    <3> QED BY <3>1, <3>2 DEF First, Unconsumed
  <2>4. PICK st \in {"reread", "send"} : stage' = [stage EXCEPT ![d] = st]
    BY <1>6
  <2> QED BY <1>1, <1>2, <2>1, <2>2, <2>3, <2>4, ManualStep
<1>7. CASE DispatchReads(d)
  BY <1>3, <1>6, <1>7 DEF DispatchReads, started
<1>8. CASE DispatchFails(d)
  BY <1>3, <1>8 DEF DispatchFails, started
<1> QED BY <1>4, <1>5, <1>7, <1>8

LEMMA DispatchSendsStep ==
  ASSUME IInv, NEW d \in 1..Len(dispatch), DispatchSends(d)
  PROVE  IInv'
<1> USE DEF IInv
<1>1. /\ UNCHANGED <<commits, release, request, checks, run, bound, comment>>
      /\ UNCHANGED <<dispatch, tries, gate, attempt>> /\ Published' = Published
      /\ \A w : Open(w)' = Open(w) /\ Merge(w)' = Merge(w) /\ Backed(w)' = Backed(w)
      /\ \A e : First(e)' = First(e)
      /\ stage[d] = "send" /\ sent' = Append(sent, <<"manual", d>>)
      /\ stage' = [stage EXCEPT ![d] = "sent"]
  BY DEF DispatchSends, git, evidence, started, Published, Open, Merge, Backed, First,
         MergedAsTested, Source, Newest, Succeeded, Payload
<1>2. tries[d] = 1 /\ ~Dispatched(d) /\ First(d)
  BY <1>1 DEF ManualInv
<1>3. /\ IsSequence(sent') /\ OneSendPerApproval'
      /\ \A x : (\E i \in 1..Len(sent') : sent'[i] = x) <=>
                  x = <<"manual", d>> \/ \E i \in 1..Len(sent) : sent[i] = x
  BY <1>1, <1>2, Sending DEF Shape, SentInv, Dispatched
<1>4. \A w : Approved(w)' <=> Approved(w)
  BY <1>3 DEF Approved
<1>5. \A e : Dispatched(e)' <=> e = d \/ Dispatched(e)
  BY <1>3 DEF Dispatched
<1>6. /\ IsSequence(stage') /\ Len(stage') = Len(stage)
      /\ \A e \in 1..Len(dispatch) : stage'[e] = IF e = d THEN "sent" ELSE stage[e]
  <2>1. Len(stage) = Len(dispatch) /\ IsSequence(stage)
    BY DEF Shape, Long
  <2>2. LET new == [stage EXCEPT ![d] = "sent"]
        IN /\ IsSequence(new) /\ Len(new) = Len(stage)
           /\ \A e \in 1..Len(stage) : new[e] = IF e = d THEN "sent" ELSE stage[e]
    BY <2>1, Updated
  <2> QED BY <1>1, <2>1, <2>2
<1>7. Shape'
  BY <1>1, <1>3, <1>6 DEF Shape, Long
<1>8. RequestInv' /\ GateInv'
  BY <1>1, <1>4 DEF RequestInv, GateInv
<1>9. EvidenceInv'
  BY <1>1 DEF EvidenceInv, Succeeded, Newest, Payload
<1>10. ManualInv'
  BY <1>1, <1>2, <1>5, <1>6 DEF ManualInv
<1>11. SentInv'
  <2>1. \A i \in 1..Len(sent') :
          sent'[i] = <<"manual", d>> \/ \E j \in 1..Len(sent) : sent[j] = sent'[i]
    BY <1>3
  <2>2. Published' = Published /\ dispatch' = dispatch /\ OneSendPerApproval'
    BY <1>1, <1>3
  <2>3. \A i \in 1..Len(sent') :
          \/ \E w \in Published : sent'[i] = <<"approved", w>>
          \/ \E e \in 1..Len(dispatch) : sent'[i] = <<"manual", e>>
    BY <2>1 DEF SentInv
  <2> QED BY <2>2, <2>3 DEF SentInv
<1> QED BY <1>7, <1>8, <1>9, <1>10, <1>11

LEMMA DispatchStep ==
  ASSUME IInv, NEW p, Dispatch(p)
  PROVE  IInv'
<1> USE DEF IInv
<1>1. PICK n : n = Len(dispatch) + 1
  OBVIOUS
<1>2. /\ UNCHANGED <<commits, release, request, checks, run, bound, comment>>
      /\ UNCHANGED <<gate, attempt, sent>> /\ Published' = Published
      /\ \A w : /\ Approved(w)' = Approved(w) /\ Open(w)' = Open(w) /\ Merge(w)' = Merge(w)
               /\ Backed(w)' = Backed(w)
      /\ \A e : Dispatched(e)' = Dispatched(e)
  BY DEF Dispatch, git, evidence, deployment, Published, Approved, Open, Merge, Backed,
         Dispatched, MergedAsTested, Source, Newest, Succeeded, Payload
<1>3. PICK m : dispatch' = Append(dispatch, m)
  BY DEF Dispatch
<1>4. stage' = Append(stage, "queued") /\ tries' = Append(tries, 1)
  BY DEF Dispatch
<1>5. /\ IsSequence(dispatch') /\ Len(dispatch') = n /\ Len(dispatch) \in Nat
      /\ \A e \in 1..Len(dispatch) : dispatch'[e] = dispatch[e]
  BY <1>1, <1>3, Appended DEF Shape
<1>6. 1..Len(dispatch') = (1..Len(dispatch)) \cup {n} /\ n \notin 1..Len(dispatch)
  BY <1>1, <1>5
<1>7. /\ Long(stage', n) /\ stage'[n] = "queued"
      /\ \A e \in 1..Len(dispatch) : stage'[e] = stage[e]
  BY <1>1, <1>4, Appended DEF Shape, Long
<1>8. /\ Long(tries', n) /\ tries'[n] = 1
      /\ \A e \in 1..Len(dispatch) : tries'[e] = tries[e]
  BY <1>1, <1>4, Appended DEF Shape, Long
<1>9. Shape'
  BY <1>2, <1>5, <1>6, <1>7, <1>8 DEF Shape
<1>10. RequestInv' /\ GateInv'
  BY <1>2 DEF RequestInv, GateInv
<1>11. EvidenceInv'
  BY <1>2 DEF EvidenceInv, Succeeded, Newest, Payload
<1>12. ManualInv'
  <2>1. ~Dispatched(n)
    BY <1>6 DEF Dispatched, SentInv
  <2>2. \A e \in 1..Len(dispatch) : First(e) => First(e)'
    <3>1. \A e \in 1..Len(dispatch) : \A k \in 1..(e - 1) : k \in 1..Len(dispatch)
      BY <1>5
    <3> QED BY <1>5, <3>1 DEF First
  <2> QED BY <1>2, <1>6, <1>7, <1>8, <2>1, <2>2 DEF ManualInv
<1>13. SentInv'
  BY <1>2, <1>6 DEF SentInv, OneSendPerApproval
<1> QED BY <1>9, <1>10, <1>11, <1>12, <1>13

-----------------------------------------------------------------------------
LEMMA NextIInv == IInv /\ [Next]_vars => IInv'
<1> SUFFICES ASSUME IInv, [Next]_vars PROVE IInv'
  OBVIOUS
<1>1. CASE MergeFeature
  <2>1. PICK c : commits' = Append(commits, c)
    BY <1>1 DEF MergeFeature, Commit
  <2>2. UNCHANGED <<release, request, evidence, dispatch, stage, tries, gate, attempt, sent>>
    BY <1>1 DEF MergeFeature, manual, started, deployment
  <2> QED BY <2>1, <2>2, CommitStep
<1>2. CASE Publish
  BY <1>2, PublishStep
<1>3. ASSUME NEW v \in Published, UpdateBranch(v)
      PROVE  IInv'
  <2>1. PICK c : commits' = Append(commits, c)
    BY <1>3 DEF UpdateBranch, Commit
  <2>2. UNCHANGED <<release, request, evidence, dispatch, stage, tries, gate, attempt, sent>>
    BY <1>3 DEF UpdateBranch, manual, started, deployment
  <2> QED BY <2>1, <2>2, CommitStep
<1>4. ASSUME NEW v \in Published, Gate(v)
      PROVE  IInv'
  BY <1>4, GateReadStep, GateEntersStep, GateSendsStep DEF Gate
<1>5. ASSUME NEW v \in Published, GateFails(v) \/ GateAgain(v)
      PROVE  IInv'
  BY <1>5, GateReadStep
<1>6. ASSUME NEW d \in 1..Len(dispatch), Manual(d) \/ DispatchFails(d) \/ DispatchAgain(d)
      PROVE  IInv'
  BY <1>6, ManualReadStep, DispatchSendsStep DEF Manual
<1>7. CASE UNCHANGED <<git, evidence, dispatch, stage, tries, deployment>>
  <2>1. UNCHANGED <<commits, release, request, checks, run, bound, comment>>
        /\ UNCHANGED <<gate, attempt, sent, dispatch, stage, tries>>
    BY <1>7 DEF git, evidence, deployment
  <2>2. Shape' /\ EvidenceInv'
    BY <2>1 DEF IInv, Shape, Long, Published, EvidenceInv, Succeeded, Newest, Payload
  <2> QED BY <2>1, <2>2, Stands, OtherStep DEF IInv
<1>8. ASSUME NEW v \in Published, ManualPreflight(v)
      PROVE  IInv'
  BY <1>7, <1>8 DEF ManualPreflight
<1>9. ASSUME NEW p, ManualPreflightEnds(p)
      PROVE  IInv'
  BY <1>7, <1>9 DEF ManualPreflightEnds
<1>10. CASE UNCHANGED vars
  BY <1>7, <1>10 DEF vars, manual, started
<1> QED BY <1>1, <1>2, <1>3, <1>4, <1>5, <1>6, <1>8, <1>9, <1>10, MergeRequestStep, CheckStep,
           AutomaticStep, DispatchStep DEF Next

LEMMA SpecIInv == Spec => []IInv
<1> QED BY InitIInv, NextIInv, PTL DEF Spec

(* What is sent for a merge is the exact release, merged onto its tested   *)
(* source with the marker of a readiness that named a check that           *)
(* succeeded, however many releases, checks and attempts there are         *)
(* (authorize).                                                            *)
THEOREM ApprovedIsDeployed == Spec => []DeployedAsApproved
<1>1. IInv => DeployedAsApproved
  BY DEF IInv, GateInv, Backed, Succeeded, DeployedAsApproved
<1> QED BY <1>1, SpecIInv, PTL

(* No approval, no manual run and no preflight is sent twice, however      *)
(* often a workflow is run again or a deployment dispatched ("rejects a    *)
(* workflow rerun", "or a second deployment dispatch").                    *)
THEOREM ApprovalsAreSpentOnce == Spec => []NothingIsSentTwice
<1>1. IInv => PreflightConsumedOnce
  <2> SUFFICES ASSUME IInv, NEW i \in 1..Len(sent), NEW j \in 1..Len(sent), i # j,
                      sent[i][1] = "manual", sent[j][1] = "manual",
                      dispatch[sent[i][2]].preflight = dispatch[sent[j][2]].preflight
               PROVE  FALSE
    BY DEF PreflightConsumedOnce
  <2>1. PICK d \in 1..Len(dispatch) : sent[i] = <<"manual", d>>
    BY DEF IInv, SentInv
  <2>2. PICK e \in 1..Len(dispatch) : sent[j] = <<"manual", e>>
    BY DEF IInv, SentInv
  <2>3. First(d) /\ First(e) /\ dispatch[d].preflight = dispatch[e].preflight
    BY <2>1, <2>2 DEF IInv, ManualInv, Dispatched
  <2>4. d # e
    BY <2>1, <2>2 DEF IInv, SentInv, OneSendPerApproval
  <2>5. Len(dispatch) \in Nat
    BY ShapeLengths DEF IInv
  <2>6. d \in 1..(e - 1) \/ e \in 1..(d - 1)
    BY <2>4, <2>5
  <2> QED BY <2>3, <2>6 DEF First
<1>2. IInv => NothingIsSentTwice
  BY <1>1 DEF IInv, SentInv, NothingIsSentTwice
<1> QED BY <1>2, SpecIInv, PTL
-----------------------------------------------------------------------------
(* Induction over the naturals as a fact about sets.                       *)
LEMMA NatSetInduction ==
  ASSUME NEW T, 0 \in T, \A n \in Nat : n \in T => n + 1 \in T
  PROVE  Nat \subseteq T
<1> DEFINE Outside == Nat \ T
           Less == OpToRel(<, Nat)
<1>1. SUFFICES ASSUME Outside # {} PROVE FALSE
  BY Zenon
<1>2. IsWellFoundedOn(Less, Nat)
  BY NatLessThanWellFounded, Zenon
<1>3. ASSUME NEW a \in Nat, NEW b \in Nat, a < b
      PROVE  <<a, b>> \in Less
  BY <1>3 DEF OpToRel
<1> HIDE DEF Less
<1>4. Outside \subseteq Nat
  OBVIOUS
<1>5. PICK n \in Outside : \A m \in Outside : ~ (<<m, n>> \in Less)
  <2> HIDE DEF Outside
  <2> QED BY <1>1, <1>2, <1>4, WFMin, Zenon
<1>6. n # 0 /\ n \in Nat
  OBVIOUS
<1>7. n - 1 \in Nat /\ n - 1 < n /\ (n - 1) + 1 = n
  BY <1>6
<1>8. n - 1 \in Outside
  BY <1>7
<1> QED BY <1>3, <1>5, <1>6, <1>7, <1>8

(* A recursion from a commit to earlier ones defines a function.           *)
LEMMA ReachExists ==
  ASSUME NEW n \in Nat, NEW from, \A c \in 1..n : \A p \in from[c] : p \in 1..(c - 1)
  PROVE  \E f : f = [c \in 1..n |-> {c} \cup UNION {f[p] : p \in from[c]}]
<1> DEFINE Reaches(f, m) == f = [c \in 1..m |-> {c} \cup UNION {f[p] : p \in from[c]}]
           T == {m \in Nat : m <= n => \E f : Reaches(f, m)}
<1>1. 0 \in T
  <2>1. Reaches([c \in 1..0 |-> {}], 0)
    OBVIOUS
  <2> QED BY <2>1
<1>2. ASSUME NEW m \in Nat, m \in T
      PROVE  m + 1 \in T
  <2> SUFFICES ASSUME m + 1 <= n PROVE \E f : Reaches(f, m + 1)
    OBVIOUS
  <2>1. PICK f : Reaches(f, m)
    BY <1>2
  <2> DEFINE g == [c \in 1..(m + 1) |->
                     IF c = m + 1 THEN {c} \cup UNION {f[p] : p \in from[c]} ELSE f[c]]
  <2>2. \A c \in 1..(m + 1) : \A p \in from[c] : g[p] = f[p]
    OBVIOUS
  <2>3. ASSUME NEW c \in 1..(m + 1)
        PROVE  g[c] = {c} \cup UNION {g[p] : p \in from[c]}
    <3>1. {g[p] : p \in from[c]} = {f[p] : p \in from[c]}
      <4> HIDE DEF g
      <4> QED BY <2>2
    <3>2. CASE c = m + 1
      BY <3>1, <3>2
    <3>3. CASE c # m + 1
      <4>1. c \in 1..m /\ g[c] = f[c]
        BY <3>3
      <4>2. f[c] = {c} \cup UNION {f[p] : p \in from[c]}
        BY <4>1, <2>1
      <4> QED BY <3>1, <4>1, <4>2
    <3> QED BY <3>2, <3>3
  <2>4. g = [c \in 1..(m + 1) |-> g[c]]
    OBVIOUS
  <2>5. Reaches(g, m + 1)
    <3> HIDE DEF g
    <3> QED BY <2>3, <2>4, Zenon
  <2> QED BY <2>5, Zenon
<1>3. n \in T
  <2> HIDE DEF T
  <2> QED BY <1>1, <1>2, NatSetInduction
<1> QED BY <1>3

(* What a commit reaches is not later than it.                             *)
LEMMA ReachBelow ==
  ASSUME NEW n \in Nat, NEW from, NEW f,
         \A c \in 1..n : \A p \in from[c] : p \in 1..(c - 1),
         \A c \in 1..n : f[c] = {c} \cup UNION {f[p] : p \in from[c]}
  PROVE  \A c \in 1..n : f[c] \subseteq 1..c
<1> DEFINE T == {m \in Nat : \A c \in 1..n : c <= m => f[c] \subseteq 1..c}
<1>1. 0 \in T
  OBVIOUS
<1>2. ASSUME NEW m \in Nat, m \in T
      PROVE  m + 1 \in T
  <2> SUFFICES ASSUME NEW c \in 1..n, c <= m + 1, NEW a \in f[c]
               PROVE  a \in 1..c
    OBVIOUS
  <2>1. CASE a = c
    BY <2>1
  <2>2. CASE a # c
    <3>1. PICK p \in from[c] : a \in f[p]
      BY <2>2
    <3>2. p \in 1..(c - 1) /\ p \in 1..n /\ p <= m
      OBVIOUS
    <3>3. f[p] \subseteq 1..p
      BY <1>2, <3>2
    <3>4. a \in 1..p
      BY <3>1, <3>3, Zenon
    <3> QED BY <3>2, <3>4
  <2> QED BY <2>1, <2>2
<1>3. n \in T
  <2> HIDE DEF T
  <2> QED BY <1>1, <1>2, NatSetInduction
<1> QED BY <1>3

-----------------------------------------------------------------------------
(* The order of the history: parents are earlier, a release is the child   *)
(* of its source, main has been at every source, and what was merged as    *)
(* tested is the source of no release.                                     *)
Behind(c, top) ==
  c = top \/ (commits[top].parents # << >> /\ c <= commits[top].parents[1])
ParentsInv ==
  /\ \A c \in 1..Len(commits) :
       /\ IsSequence(commits[c].parents)
       /\ \A i \in 1..Len(commits[c].parents) : commits[c].parents[i] \in 1..(c - 1)
  /\ main \in 1..Len(commits) /\ Long(sync, Len(release))
SourceInv ==
  \A v \in Published :
    /\ sync[v] \in 1..Len(commits)
    /\ commits[release[v]].parents = <<Source(v)>>
    /\ Behind(Source(v), main)
    /\ \A w \in 1..(v - 1) : release[w] <= Source(v)
MergedInv ==
  \A v \in Published : ~Open(v) =>
    /\ commits[Merge(v)].kind = "merge"
    /\ MergedAsTested(v) => \A w \in Published : Source(w) # Merge(v)
HistoryInv == ParentsInv /\ SourceInv /\ MergedInv

(* Ancestors and MainLine, in a history whose parents are earlier.         *)
LEMMA AncestorsReach ==
  ASSUME Shape, ParentsInv
  PROVE  /\ \A c \in 1..Len(commits) :
              Ancestors[c] = {c} \cup UNION {Ancestors[commits[c].parents[i]] :
                                               i \in 1..Len(commits[c].parents)}
         /\ \A c \in 1..Len(commits) : Ancestors[c] \subseteq 1..c
<1> DEFINE n == Len(commits)
           from == [c \in 1..n |-> {commits[c].parents[i] : i \in 1..Len(commits[c].parents)}]
           Earlier(g) == \A c \in 1..n : \A p \in g[c] : p \in 1..(c - 1)
           Reach(g) == \E f : f = [c \in 1..n |-> {c} \cup UNION {f[p] : p \in g[c]}]
<1>1. n \in Nat
  BY ShapeLengths
<1>2. Earlier(from)
  BY DEF ParentsInv
<1>3. Reach(from)
  <2>1. \A g : Earlier(g) => Reach(g)
    <3> HIDE DEF n, from
    <3> QED BY <1>1, ReachExists
  <2> HIDE DEF Earlier, Reach, from
  <2> QED BY <1>2, <2>1, Zenon
<1>4. PICK f : f = [c \in 1..n |-> {c} \cup UNION {f[p] : p \in from[c]}]
  <2> HIDE DEF n, from
  <2> QED BY <1>3
<1>5. ASSUME NEW g
      PROVE  \A c \in 1..n : {g[p] : p \in from[c]} =
                             {g[commits[c].parents[i]] : i \in 1..Len(commits[c].parents)}
  BY Zenon
<1>6. f = [c \in 1..n |-> {c} \cup UNION {f[commits[c].parents[i]] :
                                            i \in 1..Len(commits[c].parents)}]
  <2>1. \A c \in 1..n : {f[p] : p \in from[c]} =
                         {f[commits[c].parents[i]] : i \in 1..Len(commits[c].parents)}
    BY <1>5, Zenon
  <2> HIDE DEF n, from
  <2> QED BY <1>4, <2>1, Zenon
<1>7. Ancestors = [c \in 1..n |-> {c} \cup UNION {Ancestors[commits[c].parents[i]] :
                                                    i \in 1..Len(commits[c].parents)}]
  BY <1>6, Zenon DEF Ancestors
<1>8. \A c \in 1..n : Ancestors[c] = {c} \cup UNION {Ancestors[commits[c].parents[i]] :
                                                       i \in 1..Len(commits[c].parents)}
  <2> HIDE DEF n, from
  <2> QED BY <1>7
<1>9. \A c \in 1..n : Ancestors[c] = {c} \cup UNION {Ancestors[p] : p \in from[c]}
  <2>1. \A c \in 1..n : {Ancestors[p] : p \in from[c]} =
                         {Ancestors[commits[c].parents[i]] : i \in 1..Len(commits[c].parents)}
    BY <1>5, Zenon
  <2> HIDE DEF n, from
  <2> QED BY <1>8, <2>1
<1>10. \A c \in 1..n : Ancestors[c] \subseteq 1..c
  <2> DEFINE Below(g, h) == \A c \in 1..n : h[c] \subseteq 1..c
             Closed(g, h) == \A c \in 1..n : h[c] = {c} \cup UNION {h[p] : p \in g[c]}
  <2>1. \A g, h : Earlier(g) /\ Closed(g, h) => Below(g, h)
    <3> HIDE DEF n, from
    <3> QED BY <1>1, ReachBelow
  <2>2. Closed(from, Ancestors)
    BY <1>9
  <2>3. Below(from, Ancestors)
    <3> HIDE DEF Earlier, Closed, Below, from
    <3> QED BY <1>2, <2>1, <2>2, Zenon
  <2> HIDE DEF n
  <2> QED BY <2>3
<1> QED BY <1>8, <1>10

LEMMA MainLineBehind ==
  ASSUME Shape, ParentsInv
  PROVE  \A c \in MainLine : c \in 1..Len(commits) /\ Behind(c, main)
<1> DEFINE n == Len(commits)
           First1(c) == IF commits[c].parents = << >> THEN {} ELSE {commits[c].parents[1]}
           from == [c \in 1..n |-> First1(c)]
           Earlier(g) == \A c \in 1..n : \A p \in g[c] : p \in 1..(c - 1)
           Reach(g) == \E f : f = [c \in 1..n |-> {c} \cup UNION {f[p] : p \in g[c]}]
           Closed(g, h) == \A c \in 1..n : h[c] = {c} \cup UNION {h[p] : p \in g[c]}
           Below(h) == \A c \in 1..n : h[c] \subseteq 1..c
           Line(h) == h = [c \in 1..n |-> {c} \cup IF commits[c].parents = << >> THEN {}
                                                    ELSE h[commits[c].parents[1]]]
<1>1. n \in Nat
  BY ShapeLengths
<1>2. Earlier(from)
  <2> SUFFICES ASSUME NEW c \in 1..n, commits[c].parents # << >>
               PROVE  commits[c].parents[1] \in 1..(c - 1)
    OBVIOUS
  <2>1. IsSequence(commits[c].parents)
    BY DEF ParentsInv
  <2>2. 1 \in 1..Len(commits[c].parents)
    BY <2>1 DEF IsSequence
  <2> QED BY <2>2 DEF ParentsInv
<1>3. Reach(from)
  <2>1. \A g : Earlier(g) => Reach(g)
    <3> HIDE DEF n, from
    <3> QED BY <1>1, ReachExists
  <2> HIDE DEF Earlier, Reach, from
  <2> QED BY <1>2, <2>1, Zenon
<1>4. PICK f : f = [c \in 1..n |-> {c} \cup UNION {f[p] : p \in from[c]}]
  <2> HIDE DEF n, from
  <2> QED BY <1>3
<1>5. ASSUME NEW g
      PROVE  \A c \in 1..n : UNION {g[p] : p \in from[c]} =
                             IF commits[c].parents = << >> THEN {} ELSE g[commits[c].parents[1]]
  OBVIOUS
<1>6. Line(f)
  <2>1. \A c \in 1..n : UNION {f[p] : p \in from[c]} =
                         IF commits[c].parents = << >> THEN {} ELSE f[commits[c].parents[1]]
    BY <1>5, Zenon
  <2> HIDE DEF n, from
  <2> QED BY <1>4, <2>1, Zenon
<1>7. PICK line : Line(line) /\ MainLine = line[main]
  <2>1. Line(CHOOSE h : Line(h))
    <3> HIDE DEF Line
    <3> QED BY <1>6, Zenon
  <2>2. MainLine = (CHOOSE h : Line(h))[main]
    BY Zenon DEF MainLine
  <2> HIDE DEF Line
  <2> QED BY <2>1, <2>2
<1>8. \A c \in 1..n : line[c] = {c} \cup IF commits[c].parents = << >> THEN {}
                                         ELSE line[commits[c].parents[1]]
  <2> HIDE DEF n, from
  <2> QED BY <1>7
<1>9. Closed(from, line)
  <2>1. \A c \in 1..n : UNION {line[p] : p \in from[c]} =
                         IF commits[c].parents = << >> THEN {} ELSE line[commits[c].parents[1]]
    BY <1>5, Zenon
  <2> HIDE DEF n, from
  <2> QED BY <1>8, <2>1
<1>10. Below(line)
  <2>1. \A g, h : Earlier(g) /\ Closed(g, h) => Below(h)
    <3> HIDE DEF n, from
    <3> QED BY <1>1, ReachBelow
  <2> HIDE DEF Earlier, Closed, Below, from
  <2> QED BY <1>2, <1>9, <2>1, Zenon
<1>11. main \in 1..n
  BY DEF ParentsInv
<1>12. ASSUME NEW c \in MainLine
       PROVE  c \in 1..n /\ Behind(c, main)
  <2>1. c \in 1..n
    BY <1>7, <1>10, <1>11, <1>1
  <2>2. CASE c = main
    BY <2>1, <2>2 DEF Behind
  <2>3. CASE c # main
    <3>1. commits[main].parents # << >> /\ c \in line[commits[main].parents[1]]
      BY <1>7, <1>8, <1>11, <2>3
    <3>2. commits[main].parents[1] \in from[main]
      BY <3>1, <1>11
    <3>3. commits[main].parents[1] \in 1..(main - 1)
      BY <1>2, <1>11, <3>2
    <3>4. commits[main].parents[1] \in 1..n
      BY <3>3, <1>11, <1>1
    <3>5. c \in 1..commits[main].parents[1]
      BY <3>1, <3>4, <1>10
    <3>6. c <= commits[main].parents[1]
      BY <3>4, <3>5
    <3> QED BY <2>1, <3>1, <3>6 DEF Behind
  <2> QED BY <2>2, <2>3
<1> QED BY <1>12
-----------------------------------------------------------------------------
(* A source is a commit before its release, and not after main.            *)
LEMMA Sources ==
  ASSUME IInv, HistoryInv, NEW v \in Published
  PROVE  /\ Source(v) \in 1..Len(commits) /\ Source(v) < release[v] /\ Source(v) <= main
         /\ release[v] \in 1..Len(commits) /\ main \in 1..Len(commits) /\ Len(commits) \in Nat
         /\ Len(commits[release[v]].parents) = 1 /\ commits[release[v]].parents[1] = Source(v)
<1> USE DEF IInv, HistoryInv
<1>1. release[v] \in 1..Len(commits) /\ main \in 1..Len(commits) /\ Len(commits) \in Nat
  BY ShapeLengths DEF Shape, ParentsInv
<1>2. Len(commits[release[v]].parents) = 1 /\ commits[release[v]].parents[1] = Source(v)
  <2>1. commits[release[v]].parents = <<Source(v)>>
    BY DEF SourceInv
  <2>2. Len(<<Source(v)>>) = 1 /\ <<Source(v)>>[1] = Source(v)
    OBVIOUS
  <2> QED BY <2>1, <2>2, Zenon
<1>3. Source(v) \in 1..(release[v] - 1)
  <2>1. 1 \in 1..Len(commits[release[v]].parents)
    BY <1>2
  <2> QED BY <1>1, <1>2, <2>1 DEF ParentsInv
<1>4. Source(v) <= main
  <2>1. CASE Source(v) = main
    BY <2>1, <1>1
  <2>2. CASE Source(v) # main
    <3>1. commits[main].parents # << >> /\ Source(v) <= commits[main].parents[1]
      BY <2>2 DEF SourceInv, Behind
    <3>2. 1 \in 1..Len(commits[main].parents)
      <4>1. IsSequence(commits[main].parents)
        BY DEF ParentsInv
      <4> QED BY <3>1, <4>1 DEF IsSequence
    <3>3. commits[main].parents[1] \in 1..(main - 1)
      BY <3>2 DEF ParentsInv
    <3> QED BY <1>1, <1>3, <3>1, <3>3
  <2> QED BY <2>1, <2>2
<1> QED BY <1>1, <1>2, <1>3, <1>4

(* A commit whose parents are there keeps the order, and what is known of  *)
(* the commits before it.                                                  *)
LEMMA Committed ==
  ASSUME IInv, HistoryInv, NEW c, commits' = Append(commits, c), IsSequence(c.parents),
         \A i \in 1..Len(c.parents) : c.parents[i] \in 1..Len(commits)
  PROVE  /\ Len(commits) \in Nat /\ Len(commits') = Len(commits) + 1 /\ Fresh = Len(commits) + 1
         /\ commits'[Fresh] = c /\ \A i \in 1..Len(commits) : commits'[i] = commits[i]
         /\ \A i \in 1..Len(commits') :
              /\ IsSequence(commits'[i].parents)
              /\ \A k \in 1..Len(commits'[i].parents) : commits'[i].parents[k] \in 1..(i - 1)
<1>1. /\ IsSequence(commits') /\ Len(commits') = Len(commits) + 1 /\ Len(commits) \in Nat
      /\ \A i \in 1..Len(commits) : commits'[i] = commits[i]
      /\ commits'[Len(commits) + 1] = c
  BY Appended DEF IInv, Shape
<1>2. ASSUME NEW i \in 1..Len(commits')
      PROVE  /\ IsSequence(commits'[i].parents)
             /\ \A k \in 1..Len(commits'[i].parents) : commits'[i].parents[k] \in 1..(i - 1)
  <2>1. CASE i \in 1..Len(commits)
    BY <1>1, <2>1 DEF HistoryInv, ParentsInv
  <2>2. CASE i = Len(commits) + 1
    BY <1>1, <2>2
  <2> QED BY <1>1, <2>1, <2>2
<1> QED BY <1>1, <1>2 DEF Fresh

(* The steps that leave the releases: main stays or moves to its child.    *)
LEMMA HistoryCommitStep ==
  ASSUME IInv, IInv', HistoryInv, NEW c, commits' = Append(commits, c),
         IsSequence(c.parents), \A i \in 1..Len(c.parents) : c.parents[i] \in 1..Len(commits),
         release' = release, sync' = sync \/ \E v \in Published : sync' = [sync EXCEPT ![v] = Fresh],
         main' = main \/ (main' = Fresh /\ c.parents # << >> /\ c.parents[1] = main),
         request' = request
           \/ (c.kind = "merge" /\ \E v \in Published :
                 request' = [request EXCEPT ![v] = [state |-> "closed", merge |-> Fresh]])
  PROVE  HistoryInv'
<1> USE DEF HistoryInv
<1>1. /\ Len(commits) \in Nat /\ Len(commits') = Len(commits) + 1 /\ Fresh = Len(commits) + 1
      /\ commits'[Fresh] = c /\ \A i \in 1..Len(commits) : commits'[i] = commits[i]
      /\ \A i \in 1..Len(commits') :
           /\ IsSequence(commits'[i].parents)
           /\ \A k \in 1..Len(commits'[i].parents) : commits'[i].parents[k] \in 1..(i - 1)
  BY Committed
<1>2. Published' = Published /\ Published = 1..Len(release) /\ Len(release) \in Nat
  BY ShapeLengths DEF Published, IInv
<1>3. /\ Long(sync', Len(release))
      /\ \A w \in Published : sync'[w] \in {sync[w], Fresh}
  <2>1. CASE sync' = sync
    BY <2>1 DEF ParentsInv
  <2>2. ASSUME NEW v \in Published, sync' = [sync EXCEPT ![v] = Fresh]
        PROVE  /\ Long(sync', Len(release))
               /\ \A w \in Published : sync'[w] \in {sync[w], Fresh}
    <3>1. IsSequence(sync) /\ Len(sync) = Len(release) /\ v \in 1..Len(sync)
      BY <1>2 DEF ParentsInv, Long
    <3>2. /\ IsSequence([sync EXCEPT ![v] = Fresh]) /\ Len([sync EXCEPT ![v] = Fresh]) = Len(sync)
          /\ \A w \in 1..Len(sync) : [sync EXCEPT ![v] = Fresh][w] = IF w = v THEN Fresh ELSE sync[w]
      BY <3>1, Updated
    <3> QED BY <1>2, <2>2, <3>1, <3>2 DEF Long
  <2> QED BY <2>1, <2>2
<1>4. ParentsInv'
  <2>1. main' \in 1..Len(commits')
    BY <1>1 DEF ParentsInv
  <2> QED BY <1>1, <1>3, <2>1 DEF ParentsInv
<1>5. ASSUME NEW w \in Published
      PROVE  /\ Source(w)' = Source(w) /\ commits'[release'[w]] = commits[release[w]]
             /\ release'[w] = release[w] /\ Source(w) # Fresh
  BY <1>1, Sources DEF Source
<1>6. SourceInv'
  <2> SUFFICES ASSUME NEW w \in Published
               PROVE  /\ sync'[w] \in 1..Len(commits')
                      /\ commits'[release'[w]].parents = <<Source(w)'>>
                      /\ Behind(Source(w), main)'
                      /\ \A u \in 1..(w - 1) : release'[u] <= Source(w)'
    BY <1>2 DEF SourceInv
  <2>1. sync'[w] \in 1..Len(commits')
    BY <1>1, <1>3 DEF SourceInv
  <2>2. commits'[release'[w]].parents = <<Source(w)'>>
    BY <1>5 DEF SourceInv
  <2>3. Behind(Source(w), main)'
    <3>1. CASE main' = main
      BY <1>1, <1>5, <3>1 DEF SourceInv, Behind, ParentsInv
    <3>2. CASE main' = Fresh /\ c.parents # << >> /\ c.parents[1] = main
      BY <1>1, <1>5, <3>2, Sources DEF Behind
    <3> QED BY <3>1, <3>2
  <2>4. \A u \in 1..(w - 1) : release'[u] <= Source(w)'
    BY <1>5 DEF SourceInv
  <2> QED BY <2>1, <2>2, <2>3, <2>4
<1>7. MergedInv'
  <2> SUFFICES ASSUME NEW w \in Published, ~Open(w)'
               PROVE  /\ commits'[Merge(w)'].kind = "merge"
                      /\ MergedAsTested(w)' => \A u \in Published : Source(u)' # Merge(w)'
    BY <1>2 DEF MergedInv
  <2>1. CASE request'[w] = request[w]
    <3>1. ~Open(w) /\ Merge(w)' = Merge(w) /\ Merge(w) \in 1..Len(commits)
      BY <2>1 DEF Open, Merge, IInv, RequestInv
    <3>2. commits'[Merge(w)'] = commits[Merge(w)]
      BY <1>1, <3>1
    <3>3. MergedAsTested(w)' <=> MergedAsTested(w)
      BY <1>5, <3>2 DEF MergedAsTested
    <3> QED BY <1>5, <3>1, <3>2, <3>3 DEF MergedInv
  <2>2. ASSUME c.kind = "merge", NEW v \in Published, request'[w] # request[w],
               request' = [request EXCEPT ![v] = [state |-> "closed", merge |-> Fresh]]
        PROVE  Merge(w)' = Fresh
    <3> DEFINE closed == [state |-> "closed", merge |-> Fresh]
    <3>1. IsSequence(request) /\ v \in 1..Len(request) /\ w \in 1..Len(request)
      BY <1>2 DEF IInv, Shape, Long
    <3>2. closed.merge = Fresh /\ request' = [request EXCEPT ![v] = closed]
      BY <2>2
    <3> HIDE DEF closed
    <3>3. [request EXCEPT ![v] = closed][w] = IF w = v THEN closed ELSE request[w]
      BY <3>1, Updated
    <3> QED BY <2>2, <3>2, <3>3 DEF Merge
  <2>3. CASE request'[w] # request[w]
    <3>1. Merge(w)' = Fresh /\ c.kind = "merge"
      BY <2>2, <2>3
    <3> QED BY <1>1, <1>5, <3>1
  <2> QED BY <2>1, <2>3
<1> QED BY <1>4, <1>6, <1>7

(* A release: its source carries every release before, and a feature that  *)
(* is on none of them, so it is no exact merge of one.                     *)
LEMMA HistoryPublishStep ==
  ASSUME IInv, IInv', HistoryInv, Publish
  PROVE  HistoryInv'
<1> USE DEF HistoryInv
<1>1. PICK source \in MainLine :
        /\ Releasable(source)
        /\ commits' = Append(commits, [kind |-> "release", parents |-> <<source>>, marker |-> NoMarker])
  BY DEF Publish, Commit
<1>2. /\ release' = Append(release, Fresh) /\ sync' = Append(sync, Fresh) /\ main' = main
      /\ request' = Append(request, [state |-> "open", merge |-> None])
  BY DEF Publish
<1>3. source \in 1..Len(commits) /\ Behind(source, main)
  BY MainLineBehind DEF IInv
<1> DEFINE c == [kind |-> "release", parents |-> <<source>>, marker |-> NoMarker]
<1>0. PICK n : n = Len(release) + 1
  OBVIOUS
<1>4. /\ IsSequence(c.parents) /\ Len(c.parents) = 1 /\ c.parents = <<source>> /\ c.parents[1] = source
      /\ \A i \in 1..Len(c.parents) : c.parents[i] \in 1..Len(commits)
  <2>1. <<source>> \in Seq({source})
    OBVIOUS
  <2> QED BY <1>3, <2>1 DEF IsSequence
<1>5. /\ Len(commits) \in Nat /\ Len(commits') = Len(commits) + 1 /\ Fresh = Len(commits) + 1
      /\ commits'[Fresh] = c /\ \A i \in 1..Len(commits) : commits'[i] = commits[i]
      /\ \A i \in 1..Len(commits') :
           /\ IsSequence(commits'[i].parents)
           /\ \A k \in 1..Len(commits'[i].parents) : commits'[i].parents[k] \in 1..(i - 1)
  <2> HIDE DEF c
  <2> QED BY <1>1, <1>4, Committed DEF c
<1>6. /\ Len(release) \in Nat /\ Published = 1..Len(release)
      /\ Len(release') = n /\ release'[n] = Fresh /\ \A v \in Published : release'[v] = release[v]
  BY <1>0, <1>2, ShapeLengths, Appended DEF IInv, Shape
<1>7. Published' = Published \cup {n} /\ n \notin Published /\ \A w \in Published : w < n
  BY <1>0, <1>6 DEF Published
<1>8. /\ Long(sync', n) /\ sync'[n] = Fresh /\ \A v \in Published : sync'[v] = sync[v]
  BY <1>0, <1>2, <1>6, Appended DEF ParentsInv, Long
<1>9. request'[n] = [state |-> "open", merge |-> None] /\ \A v \in Published : request'[v] = request[v]
  BY <1>0, <1>2, <1>6, Appended DEF IInv, Shape, Long
<1>10. ParentsInv'
  <2>1. main' \in 1..Len(commits')
    BY <1>2, <1>5 DEF ParentsInv
  <2> QED BY <1>5, <1>6, <1>8, <2>1 DEF ParentsInv
<1>11. ASSUME NEW w \in Published
       PROVE  /\ Source(w)' = Source(w) /\ commits'[release'[w]] = commits[release[w]]
              /\ release'[w] = release[w]
  BY <1>5, <1>6, Sources DEF Source
<1>12. Source(n)' = source /\ commits'[release'[n]].parents = <<source>>
  BY <1>4, <1>5, <1>6 DEF Source
<1>13. ASSUME NEW top \in 1..Len(commits), NEW a, Behind(a, top)
       PROVE  a = top \/ (commits'[top].parents # << >> /\ a <= commits'[top].parents[1])
  BY <1>5, <1>13 DEF Behind
<1>14. \A w \in Published : release[w] <= source
  <2> SUFFICES ASSUME NEW w \in Published
               PROVE  release[w] <= source
    OBVIOUS
  <2>1. release[w] \in Ancestors[source]
    BY <1>1 DEF Releasable
  <2>2. Ancestors[source] \subseteq 1..source
    BY <1>3, AncestorsReach DEF IInv
  <2> QED BY <1>3, <2>1, <2>2
<1>15. SourceInv'
  <2>1. main \in 1..Len(commits)
    BY DEF ParentsInv
  <2>2. ASSUME NEW w \in Published
        PROVE  /\ sync'[w] \in 1..Len(commits')
               /\ commits'[release'[w]].parents = <<Source(w)'>>
               /\ Behind(Source(w), main)'
               /\ \A u \in 1..(w - 1) : release'[u] <= Source(w)'
    <3>1. sync'[w] \in 1..Len(commits')
      BY <1>5, <1>8 DEF SourceInv
    <3>2. Behind(Source(w), main)'
      BY <1>2, <1>11, <1>13, <2>1 DEF SourceInv, Behind
    <3>3. \A u \in 1..(w - 1) : u \in Published
      BY <1>6
    <3> QED BY <1>6, <1>11, <3>1, <3>2, <3>3 DEF SourceInv
  <2>3. /\ sync'[n] \in 1..Len(commits')
        /\ commits'[release'[n]].parents = <<Source(n)'>>
        /\ Behind(Source(n), main)'
        /\ \A u \in 1..(n - 1) : release'[u] <= Source(n)'
    <3>1. sync'[n] \in 1..Len(commits')
      BY <1>5, <1>8
    <3>2. Behind(Source(n), main)'
      BY <1>2, <1>3, <1>12, <1>13, <2>1 DEF Behind
    <3>3. \A u \in 1..(n - 1) : u \in Published
      BY <1>0, <1>6
    <3> QED BY <1>6, <1>12, <1>14, <3>1, <3>2, <3>3
  <2> QED BY <1>7, <2>2, <2>3 DEF SourceInv
<1>16. ASSUME NEW v \in Published, ~Open(v), MergedAsTested(v)
       PROVE  source # Merge(v)
  <2> SUFFICES ASSUME source = Merge(v) PROVE FALSE
    OBVIOUS
  <2>1. PICK feature \in Ancestors[source] :
          /\ commits[feature].kind = "feature"
          /\ \A w \in Published : feature \notin Ancestors[release[w]]
    BY <1>1 DEF Releasable
  <2>2. commits[source].kind = "merge"
    BY <1>16 DEF MergedInv
  <2>3. commits[source].parents = <<Source(v), release[v]>>
    BY <1>16 DEF MergedAsTested
  <2>4. feature # source
    BY <2>1, <2>2
  <2>5. PICK i \in 1..Len(commits[source].parents) : feature \in Ancestors[commits[source].parents[i]]
    <3>1. Ancestors[source] = {source} \cup UNION {Ancestors[commits[source].parents[i]] :
                                                     i \in 1..Len(commits[source].parents)}
      BY <1>3, AncestorsReach DEF IInv
    <3> QED BY <2>1, <2>4, <3>1
  <2>6. feature \in Ancestors[Source(v)] \/ feature \in Ancestors[release[v]]
    <3>1. i \in {1, 2}
      BY <2>3, <2>5
    <3> QED BY <2>3, <2>5, <3>1
  <2>7. Ancestors[Source(v)] \subseteq Ancestors[release[v]]
    <3>1. 1 \in 1..Len(commits[release[v]].parents) /\ commits[release[v]].parents[1] = Source(v)
      BY Sources
    <3>2. release[v] \in 1..Len(commits)
      BY Sources
    <3>3. Ancestors[release[v]] = {release[v]} \cup UNION {Ancestors[commits[release[v]].parents[k]] :
                                                     k \in 1..Len(commits[release[v]].parents)}
      BY <3>2, AncestorsReach DEF IInv
    <3> QED BY <3>1, <3>3
  <2> QED BY <2>1, <2>6, <2>7
<1>17. MergedInv'
  <2>1. Open(n)'
    BY <1>9 DEF Open
  <2>2. ASSUME NEW v \in Published, ~Open(v)'
        PROVE  /\ commits'[Merge(v)'].kind = "merge"
               /\ MergedAsTested(v)' => \A w \in Published' : Source(w)' # Merge(v)'
    <3>1. ~Open(v) /\ Merge(v)' = Merge(v) /\ Merge(v) \in 1..Len(commits)
      BY <1>9, <2>2 DEF Open, Merge, IInv, RequestInv
    <3>2. commits'[Merge(v)'] = commits[Merge(v)]
      BY <1>5, <3>1
    <3>3. MergedAsTested(v)' <=> MergedAsTested(v)
      BY <1>11, <3>2 DEF MergedAsTested
    <3>4. MergedAsTested(v) => \A w \in Published : Source(w)' # Merge(v)
      BY <1>11, <3>1 DEF MergedInv
    <3>5. MergedAsTested(v) => Source(n)' # Merge(v)
      BY <1>12, <1>16, <3>1
    <3> QED BY <1>7, <3>1, <3>2, <3>3, <3>4, <3>5 DEF MergedInv
  <2> QED BY <1>7, <2>1, <2>2 DEF MergedInv
<1> QED BY <1>10, <1>15, <1>17

LEMMA InitHistoryInv == Init => HistoryInv
<1> SUFFICES ASSUME Init PROVE HistoryInv
  OBVIOUS
<1>1. Len(commits) = 1 /\ commits[1].parents = << >> /\ main = 1 /\ Published = {}
  BY DEF Init, Published
<1>2. IsSequence(<< >>) /\ Len(<< >>) = 0
  BY DEF IsSequence
<1>3. Long(sync, Len(release))
  BY <1>2 DEF Init, Long
<1> QED BY <1>1, <1>2, <1>3 DEF HistoryInv, ParentsInv, SourceInv, MergedInv

LEMMA NextHistoryInv == IInv /\ IInv' /\ HistoryInv /\ [Next]_vars => HistoryInv'
<1> SUFFICES ASSUME IInv, IInv', HistoryInv, [Next]_vars PROVE HistoryInv'
  OBVIOUS
<1>1. CASE UNCHANGED git
  BY <1>1 DEF git, HistoryInv, ParentsInv, SourceInv, MergedInv, Published, Source, Behind, Open, Merge,
              MergedAsTested
<1>2. Len(commits) \in Nat /\ main \in 1..Len(commits)
  BY ShapeLengths DEF IInv, HistoryInv, ParentsInv
<1>3. ASSUME NEW a \in 1..Len(commits)
      PROVE  /\ IsSequence(<<a>>) /\ <<a>> # << >> /\ <<a>>[1] = a
             /\ \A i \in 1..Len(<<a>>) : <<a>>[i] \in 1..Len(commits)
  <2>1. <<a>> \in Seq({a})
    OBVIOUS
  <2> QED BY <2>1 DEF IsSequence
<1>4. ASSUME NEW a \in 1..Len(commits), NEW b \in 1..Len(commits)
      PROVE  /\ IsSequence(<<a, b>>) /\ <<a, b>> # << >> /\ <<a, b>>[1] = a
             /\ \A i \in 1..Len(<<a, b>>) : <<a, b>>[i] \in 1..Len(commits)
  <2>1. <<a, b>> \in Seq({a, b})
    OBVIOUS
  <2>2. \A i \in 1..Len(<<a, b>>) : <<a, b>>[i] \in 1..Len(commits)
    OBVIOUS
  <2> QED BY <2>1, <2>2 DEF IsSequence
<1>5. CASE MergeFeature
  <2> DEFINE c == [kind |-> "feature", parents |-> <<main>>, marker |-> NoMarker]
  <2>1. commits' = Append(commits, c) /\ main' = Fresh /\ UNCHANGED <<release, sync, request>>
    BY <1>5 DEF MergeFeature, Commit
  <2>2. c.parents = <<main>>
    OBVIOUS
  <2> HIDE DEF c
  <2> QED BY <1>2, <1>3, <2>1, <2>2, HistoryCommitStep
<1>6. ASSUME NEW v \in Published, UpdateBranch(v)
      PROVE  HistoryInv'
  <2> DEFINE c == [kind |-> "update", parents |-> <<sync[v], main>>, marker |-> NoMarker]
  <2>1. commits' = Append(commits, c) /\ sync' = [sync EXCEPT ![v] = Fresh]
        /\ UNCHANGED <<main, release, request>>
    BY <1>6 DEF UpdateBranch, Commit
  <2>2. c.parents = <<sync[v], main>> /\ sync[v] \in 1..Len(commits)
    BY DEF HistoryInv, SourceInv
  <2> HIDE DEF c
  <2>3. /\ \E w \in Published : sync' = [sync EXCEPT ![w] = Fresh]
        /\ main' = main /\ release' = release /\ request' = request
    BY <2>1
  <2>4. IsSequence(c.parents) /\ \A i \in 1..Len(c.parents) : c.parents[i] \in 1..Len(commits)
    BY <1>2, <1>4, <2>2
  <2> QED BY <2>1, <2>3, <2>4, HistoryCommitStep
<1>7. ASSUME NEW v \in Published, MergeRequest(v)
      PROVE  HistoryInv'
  <2>1. PICK marker :
          commits' = Append(commits, [kind |-> "merge", parents |-> <<main, sync[v]>>, marker |-> marker])
    BY <1>7 DEF MergeRequest, Commit
  <2> DEFINE c == [kind |-> "merge", parents |-> <<main, sync[v]>>, marker |-> marker]
  <2>2. /\ commits' = Append(commits, c) /\ main' = Fresh /\ UNCHANGED <<release, sync>>
        /\ request' = [request EXCEPT ![v] = [state |-> "closed", merge |-> Fresh]]
    BY <1>7, <2>1 DEF MergeRequest
  <2>3. c.parents = <<main, sync[v]>> /\ sync[v] \in 1..Len(commits) /\ c.kind = "merge"
    BY DEF HistoryInv, SourceInv
  <2> HIDE DEF c
  <2>4. \E w \in Published : request' = [request EXCEPT ![w] = [state |-> "closed", merge |-> Fresh]]
    BY <2>2
  <2>5. IsSequence(c.parents) /\ \A i \in 1..Len(c.parents) : c.parents[i] \in 1..Len(commits)
    BY <1>2, <1>4, <2>3
  <2>6. c.parents # << >> /\ c.parents[1] = main
    BY <1>2, <1>4, <2>3
  <2> QED BY <2>2, <2>3, <2>4, <2>5, <2>6, HistoryCommitStep
<1>8. ASSUME NEW v \in Published, CheckEnds(v) \/ CheckAgain(v) \/ Lose(v) \/ Automatic(v) \/ Gate(v)
             \/ GateFails(v) \/ GateAgain(v) \/ ManualPreflight(v)
      PROVE  UNCHANGED git
  BY <1>8 DEF CheckEnds, CheckAgain, Lose, Automatic, Preflight, ReadEvidence, ReadAgain, PostReady,
              RunEnds, Gate, GateRead, GateEnters, GateSends, GateFails, GateAgain, ManualPreflight
<1>9. ASSUME NEW p, ManualPreflightEnds(p) \/ Dispatch(p)
      PROVE  UNCHANGED git
  BY <1>9 DEF ManualPreflightEnds, Dispatch
<1>10. ASSUME NEW d, Manual(d) \/ DispatchFails(d) \/ DispatchAgain(d)
       PROVE  UNCHANGED git
  BY <1>10 DEF Manual, DispatchEnters, DispatchReads, DispatchSends, DispatchFails, DispatchAgain
<1> QED BY <1>1, <1>5, <1>6, <1>7, <1>8, <1>9, <1>10, HistoryPublishStep DEF Next, vars

LEMMA SpecHistoryInv == Spec => [](IInv /\ HistoryInv)
<1>1. Init => IInv /\ HistoryInv
  BY InitIInv, InitHistoryInv
<1>2. IInv /\ HistoryInv /\ [Next]_vars => IInv' /\ HistoryInv'
  BY NextIInv, NextHistoryInv
<1> QED BY <1>1, <1>2, PTL DEF Spec

(* Only the newest release passes the last boundary, however many are      *)
(* published, merged and built while an approval waits for the production  *)
(* group (authorize): main is the merge, so a later release would have     *)
(* been built from what was merged, which has nothing to release.          *)
THEOREM TheNewestIsAuthorized == Spec => AuthorizesTheNewest
<1>1. IInv /\ HistoryInv /\ [Next]_vars =>
        [\A v \in Published : gate[v] = Reads - 1 /\ gate'[v] = Reads => v = Len(release)]_vars
  <2> SUFFICES ASSUME IInv, HistoryInv, [Next]_vars, NEW v \in Published,
                      gate[v] = Reads - 1, gate'[v] = Reads, v # Len(release)
               PROVE  FALSE
    OBVIOUS
  <2>1. LastPass(v)
    <3>1. IsSequence(gate) /\ Published = 1..Len(gate)
      BY DEF IInv, Shape, Long, Published
    <3>2. ASSUME NEW w \in Published, NEW g, gate' = [gate EXCEPT ![w] = g], g # Reads
          PROVE  FALSE
      <4>1. /\ \A u \in 1..Len(gate) : [gate EXCEPT ![w] = g][u] = IF u = w THEN g ELSE gate[u]
        BY <3>1, Updated
      <4> QED BY <3>1, <3>2, <4>1 DEF Reads
    <3>3. ASSUME NEW w \in Published, GateRead(w)
          PROVE  LastPass(v)
      <4>1. CASE gate' = [gate EXCEPT ![w] = Refused]
        BY <4>1, <3>2 DEF Refused, Reads
      <4>2. CASE gate' # [gate EXCEPT ![w] = Refused]
        <5>1. /\ IF gate[w] % 2 = 0 THEN FirstPass(w) ELSE LastPass(w)
              /\ gate' = [gate EXCEPT ![w] = gate[w] + 1]
          BY <3>3, <4>2 DEF GateRead, GateRefuses
        <5>2. w = v
          <6>1. /\ \A u \in 1..Len(gate) :
                     [gate EXCEPT ![w] = gate[w] + 1][u] = IF u = w THEN gate[w] + 1 ELSE gate[u]
            BY <3>1, Updated
          <6> QED BY <3>1, <5>1, <6>1 DEF Reads
        <5> QED BY <5>1, <5>2 DEF Reads
      <4> QED BY <4>1, <4>2
    <3>4. ASSUME NEW w \in Published, GateSends(w) \/ GateFails(w) \/ GateAgain(w) \/ MergeRequest(w)
          PROVE  FALSE
      <4>1. \E g \in {Deployed, Refused, Started} : gate' = [gate EXCEPT ![w] = g]
        BY <3>4 DEF GateSends, GateFails, GateRefuses, GateAgain, MergeRequest
      <4>2. \A g \in {Deployed, Refused, Started} : g # Reads
        BY DEF Reads, Started, Refused, Deployed
      <4> QED BY <3>2, <4>1, <4>2
    <3>5. ~Publish
      <4>1. IsSequence(gate) /\ v \in 1..Len(gate)
        BY <3>1
      <4>2. Append(gate, Absent)[v] = gate[v]
        BY <4>1, Appended
      <4>3. Publish => gate' = Append(gate, Absent)
        BY DEF Publish
      <4>4. gate'[v] # gate[v]
        BY DEF Reads
      <4> QED BY <4>2, <4>3, <4>4, Zenon
    <3>6. gate' # gate
      BY DEF Reads
    <3>7. ASSUME NEW w \in Published, UpdateBranch(w) \/ CheckEnds(w) \/ CheckAgain(w) \/ Lose(w)
                 \/ Automatic(w) \/ GateEnters(w) \/ ManualPreflight(w)
          PROVE  FALSE
      BY <3>6, <3>7 DEF UpdateBranch, CheckEnds, CheckAgain, Lose, Automatic, Preflight, ReadEvidence,
           ReadAgain, PostReady, RunEnds, GateEnters, ManualPreflight, deployment
    <3>8. ASSUME NEW p, ManualPreflightEnds(p) \/ Dispatch(p)
          PROVE  FALSE
      BY <3>6, <3>8 DEF ManualPreflightEnds, Dispatch, deployment
    <3>9. ASSUME NEW d, Manual(d) \/ DispatchFails(d) \/ DispatchAgain(d)
          PROVE  FALSE
      BY <3>6, <3>9 DEF Manual, DispatchEnters, DispatchReads, DispatchSends, DispatchFails,
                        DispatchAgain, deployment
    <3>10. ~MergeFeature /\ ~UNCHANGED vars
      BY <3>6 DEF MergeFeature, vars, deployment
    <3> QED BY <3>3, <3>4, <3>5, <3>7, <3>8, <3>9, <3>10 DEF Next, Gate
  <2>2. MergedAsTested(v) /\ ~Open(v) /\ main = Merge(v)
    BY <2>1 DEF LastPass, IInv, GateInv, Backed, Reads
  <2>0. PICK w : w = Len(release)
    OBVIOUS
  <2>3. w \in Published /\ v \in 1..(w - 1)
    BY <2>0, ShapeLengths DEF IInv, Published
  <2>4. release[v] <= Source(w) /\ Behind(Source(w), main)
    BY <2>3 DEF HistoryInv, SourceInv
  <2>5. Source(w) # main
    BY <2>2, <2>3 DEF HistoryInv, MergedInv
  <2>6. commits[main].parents[1] = Source(v)
    BY <2>2 DEF MergedAsTested
  <2>7. Source(w) <= Source(v)
    BY <2>4, <2>5, <2>6 DEF Behind
  <2>8. Source(v) < release[v] /\ Source(v) \in Nat /\ release[v] \in Nat /\ Source(w) \in Nat
    BY <2>3, Sources
  <2> QED BY <2>4, <2>7, <2>8
<1> QED BY <1>1, SpecHistoryInv, PTL DEF Spec, AuthorizesTheNewest
=============================================================================
