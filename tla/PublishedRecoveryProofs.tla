----------------------- MODULE PublishedRecoveryProofs -----------------------
(***************************************************************************)
(* Proofs about the recovery of a published release, for any number of     *)
(* recovery runs, checks, tests, comments, repetitions and deployments.    *)
(*                                                                         *)
(* The argument: parents and contents of a commit are earlier commits, so  *)
(* a reviewed history stays one.  A check is published while the failed    *)
(* one is alone, so it is the second, and whatever comes after it is never *)
(* older; a record the workflow posted names what its run was bound to,    *)
(* and a run posts only while none of its kind is live.  A deployment      *)
(* passes its reads in its first attempt, and a continuation only after    *)
(* the original stopped for good, while it is the only one.                *)
(***************************************************************************)
EXTENDS PublishedRecoveryProperties, SequenceTheorems, FiniteSetTheorems, WellFoundedInduction,
        TLAPS

-----------------------------------------------------------------------------
IsSequence(s) == \E S : s \in Seq(S)
(* What appending to a sequence, and replacing an element of it, does.     *)
LEMMA Appended ==
  ASSUME NEW s, NEW e, IsSequence(s)
  PROVE  /\ IsSequence(Append(s, e)) /\ Len(Append(s, e)) = Len(s) + 1 /\ Len(s) \in Nat
         /\ \A i \in 1..Len(s) : Append(s, e)[i] = s[i]
         /\ Append(s, e)[Len(s) + 1] = e
<1>1. PICK S : s \in Seq(S)
  BY DEF IsSequence
<1>2. s \in Seq(S \cup {e})
  BY <1>1
<1>3. Append(s, e) \in Seq(S \cup {e})
  BY <1>2, AppendProperties
<1>4. IsSequence(Append(s, e))
  BY <1>3 DEF IsSequence
<1> QED BY <1>2, <1>4, AppendProperties

LEMMA Updated ==
  ASSUME NEW s, NEW e, IsSequence(s), NEW i \in 1..Len(s)
  PROVE  /\ IsSequence([s EXCEPT ![i] = e]) /\ Len([s EXCEPT ![i] = e]) = Len(s)
         /\ \A j \in 1..Len(s) : [s EXCEPT ![i] = e][j] = IF j = i THEN e ELSE s[j]
<1>1. PICK S : s \in Seq(S)
  BY DEF IsSequence
<1>2. s \in Seq(S \cup {e})
  BY <1>1
<1>3. /\ [s EXCEPT ![i] = e] \in Seq(S \cup {e}) /\ Len([s EXCEPT ![i] = e]) = Len(s)
      /\ \A j \in 1..Len(s) : [s EXCEPT ![i] = e][j] = IF j = i THEN e ELSE s[j]
  BY <1>2, ExceptSeq
<1> QED BY <1>3 DEF IsSequence

LEMMA Lengths ==
  ASSUME NEW s, IsSequence(s)
  PROVE  Len(s) \in Nat
BY DEF IsSequence

(* Induction over the naturals as a fact about sets.                       *)
LEMMA NatSetInduction ==
  ASSUME NEW T, 0 \in T, \A n \in Nat : n \in T => n + 1 \in T
  PROVE  Nat \subseteq T
<1> DEFINE Outside == Nat \ T
           Less == OpToRel(<, Nat)
<1>1. SUFFICES ASSUME Outside # {} PROVE FALSE
  BY Zenon
<1>2. IsWellFoundedOn(Less, Nat)
  BY NatLessThanWellFounded, Zenon
<1>3. ASSUME NEW a \in Nat, NEW b \in Nat, a < b
      PROVE  <<a, b>> \in Less
  BY <1>3 DEF OpToRel
<1> HIDE DEF Less
<1>4. Outside \subseteq Nat
  OBVIOUS
<1>5. PICK n \in Outside : \A m \in Outside : ~ (<<m, n>> \in Less)
  <2> HIDE DEF Outside
  <2> QED BY <1>1, <1>2, <1>4, WFMin, Zenon
<1>6. n # 0 /\ n \in Nat
  OBVIOUS
<1>7. n - 1 \in Nat /\ n - 1 < n /\ (n - 1) + 1 = n
  BY <1>6
<1>8. n - 1 \in Outside
  BY <1>7
<1> QED BY <1>3, <1>5, <1>6, <1>7, <1>8

-----------------------------------------------------------------------------
(* What the steps do to the sequences of records.                          *)
CheckFields == {"suite", "status", "done"}
TestFields == {"commit", "status"}
CommentFields == {"kind", "bot", "live", "record"}
DeploymentFields == {"commit", "attempt", "passed", "status"}
RunFields == {"kind", "base", "head", "baseTests", "headTest", "check", "step"}
Typed(s, fields) == IsSequence(s) /\ \A i \in 1..Len(s) : DOMAIN s[i] = fields
Put(s, i, e) == [s EXCEPT ![i] = e]
(* One element is replaced by one with the same fields.                    *)
Replaces(s, t, i, fields) ==
  /\ IsSequence(t) /\ Len(t) = Len(s) /\ DOMAIN t[i] = fields
  /\ \A j \in 1..Len(s) : j # i => t[j] = s[j]

LEMMA OneReplaced ==
  ASSUME NEW s, NEW fields, Typed(s, fields), NEW i \in 1..Len(s),
         NEW e, DOMAIN e = fields, NEW t, t = Put(s, i, e)
  PROVE  Replaces(s, t, i, fields) /\ t[i] = e /\ Typed(t, fields)
<1>1. IsSequence(s)
  BY DEF Typed
<1>2. /\ IsSequence(t) /\ Len(t) = Len(s)
      /\ \A j \in 1..Len(s) : t[j] = IF j = i THEN e ELSE s[j]
  <2>1. /\ IsSequence([s EXCEPT ![i] = e]) /\ Len([s EXCEPT ![i] = e]) = Len(s)
        /\ \A j \in 1..Len(s) : [s EXCEPT ![i] = e][j] = IF j = i THEN e ELSE s[j]
    BY <1>1, Updated
  <2> QED BY <2>1 DEF Put
<1>3. t[i] = e /\ \A j \in 1..Len(s) : j # i => t[j] = s[j]
  BY <1>2
<1>4. \A j \in 1..Len(t) : DOMAIN t[j] = fields
  BY <1>2, <1>3 DEF Typed
<1> QED BY <1>2, <1>3, <1>4 DEF Replaces, Typed

LEMMA RunSteps ==
  ASSUME Typed(runs, RunFields), NEW r \in 1..Len(runs),
         NEW step, Goto(r, step)
  PROVE  /\ Replaces(runs, runs', r, RunFields)
         /\ Typed(runs, RunFields)'
         /\ runs'[r].step = step
         /\ runs'[r].kind = runs[r].kind
         /\ runs'[r].base = runs[r].base
         /\ runs'[r].head = runs[r].head
         /\ runs'[r].check = runs[r].check
<1>1. PICK e : e = [runs[r] EXCEPT !.step = step]
  OBVIOUS
<1>2. DOMAIN runs[r] = RunFields
  BY DEF Typed
<1>3. runs' = Put(runs, r, e)
  BY <1>1, <1>2, Zenon DEF Goto, Put, RunFields
<1>4. DOMAIN e = RunFields
  BY <1>1, <1>2, Zenon DEF RunFields
<1>5. /\ e.step = step
      /\ e.kind = runs[r].kind
      /\ e.base = runs[r].base
      /\ e.head = runs[r].head
      /\ e.check = runs[r].check
  BY <1>1, <1>2, Zenon DEF RunFields
<1>6. Typed(runs, RunFields) /\ r \in 1..Len(runs)
  OBVIOUS
<1>7. Replaces(runs, runs', r, RunFields) /\ runs'[r] = e /\ Typed(runs', RunFields)
  BY ONLY <1>3, <1>4, <1>6, OneReplaced
<1>8. Typed(runs, RunFields)'
  BY <1>7 DEF Typed, RunFields
<1> QED BY <1>7, <1>8, <1>5

LEMMA RunReads ==
  ASSUME Typed(runs, RunFields), NEW r \in 1..Len(runs),
         NEW step, NEW a, runs' = [runs EXCEPT ![r].step = step, ![r].baseTests = a]
  PROVE  /\ Replaces(runs, runs', r, RunFields)
         /\ Typed(runs, RunFields)'
         /\ runs'[r].step = step
         /\ runs'[r].kind = runs[r].kind
         /\ runs'[r].base = runs[r].base
         /\ runs'[r].head = runs[r].head
         /\ runs'[r].check = runs[r].check
<1>1. PICK e : e = [runs[r] EXCEPT !.step = step, !.baseTests = a]
  OBVIOUS
<1>2. DOMAIN runs[r] = RunFields
  BY DEF Typed
<1>3. runs' = Put(runs, r, e)
  BY <1>1, <1>2, Zenon DEF Put, RunFields
<1>4. DOMAIN e = RunFields
  BY <1>1, <1>2, Zenon DEF RunFields
<1>5. /\ e.step = step
      /\ e.kind = runs[r].kind
      /\ e.base = runs[r].base
      /\ e.head = runs[r].head
      /\ e.check = runs[r].check
  BY <1>1, <1>2, Zenon DEF RunFields
<1>6. Typed(runs, RunFields) /\ r \in 1..Len(runs)
  OBVIOUS
<1>7. Replaces(runs, runs', r, RunFields) /\ runs'[r] = e /\ Typed(runs', RunFields)
  BY ONLY <1>3, <1>4, <1>6, OneReplaced
<1>8. Typed(runs, RunFields)'
  BY <1>7 DEF Typed, RunFields
<1> QED BY <1>7, <1>8, <1>5

LEMMA RunReadsTests ==
  ASSUME Typed(runs, RunFields), NEW r \in 1..Len(runs),
         NEW step, NEW a, NEW b,
         runs' = [runs EXCEPT ![r].step = step, ![r].baseTests = a, ![r].headTest = b]
  PROVE  /\ Replaces(runs, runs', r, RunFields)
         /\ Typed(runs, RunFields)'
         /\ runs'[r].step = step
         /\ runs'[r].kind = runs[r].kind
         /\ runs'[r].base = runs[r].base
         /\ runs'[r].head = runs[r].head
         /\ runs'[r].check = runs[r].check
<1>1. PICK e : e = [runs[r] EXCEPT !.step = step, !.baseTests = a, !.headTest = b]
  OBVIOUS
<1>2. DOMAIN runs[r] = RunFields
  BY DEF Typed
<1>3. runs' = Put(runs, r, e)
  BY <1>1, <1>2, Zenon DEF Put, RunFields
<1>4. DOMAIN e = RunFields
  BY <1>1, <1>2, Zenon DEF RunFields
<1>5. /\ e.step = step
      /\ e.kind = runs[r].kind
      /\ e.base = runs[r].base
      /\ e.head = runs[r].head
      /\ e.check = runs[r].check
  BY <1>1, <1>2, Zenon DEF RunFields
<1>6. Typed(runs, RunFields) /\ r \in 1..Len(runs)
  OBVIOUS
<1>7. Replaces(runs, runs', r, RunFields) /\ runs'[r] = e /\ Typed(runs', RunFields)
  BY ONLY <1>3, <1>4, <1>6, OneReplaced
<1>8. Typed(runs, RunFields)'
  BY <1>7 DEF Typed, RunFields
<1> QED BY <1>7, <1>8, <1>5

LEMMA RunPublishes ==
  ASSUME Typed(runs, RunFields), NEW r \in 1..Len(runs),
         NEW step, NEW a, runs' = [runs EXCEPT ![r].step = step, ![r].check = a]
  PROVE  /\ Replaces(runs, runs', r, RunFields)
         /\ Typed(runs, RunFields)'
         /\ runs'[r].step = step
         /\ runs'[r].check \in {a}
         /\ runs'[r].kind = runs[r].kind
         /\ runs'[r].base = runs[r].base
         /\ runs'[r].head = runs[r].head
<1>1. PICK e : e = [runs[r] EXCEPT !.step = step, !.check = a]
  OBVIOUS
<1>2. DOMAIN runs[r] = RunFields
  BY DEF Typed
<1>3. runs' = Put(runs, r, e)
  BY <1>1, <1>2, Zenon DEF Put, RunFields
<1>4. DOMAIN e = RunFields
  BY <1>1, <1>2, Zenon DEF RunFields
<1>5. /\ e.step = step
      /\ e.check = a
      /\ e.kind = runs[r].kind
      /\ e.base = runs[r].base
      /\ e.head = runs[r].head
  BY <1>1, <1>2, Zenon DEF RunFields
<1>6. Typed(runs, RunFields) /\ r \in 1..Len(runs)
  OBVIOUS
<1>7. Replaces(runs, runs', r, RunFields) /\ runs'[r] = e /\ Typed(runs', RunFields)
  BY ONLY <1>3, <1>4, <1>6, OneReplaced
<1>8. Typed(runs, RunFields)'
  BY <1>7 DEF Typed, RunFields
<1> QED BY <1>7, <1>8, <1>5

LEMMA CheckSet ==
  ASSUME Typed(checks, CheckFields), NEW i \in 1..Len(checks),
         NEW status, NEW t, checks' = [checks EXCEPT ![i] = [@ EXCEPT !.status = status, !.done = t]]
  PROVE  /\ Replaces(checks, checks', i, CheckFields)
         /\ Typed(checks, CheckFields)'
         /\ checks'[i].status = status
         /\ checks'[i].done \in {t}
         /\ checks'[i].suite = checks[i].suite
<1>1. PICK e : e = [checks[i] EXCEPT !.status = status, !.done = t]
  OBVIOUS
<1>2. DOMAIN checks[i] = CheckFields
  BY DEF Typed
<1>3. checks' = Put(checks, i, e)
  BY <1>1, <1>2, Zenon DEF Put, CheckFields
<1>4. DOMAIN e = CheckFields
  BY <1>1, <1>2, Zenon DEF CheckFields
<1>5. /\ e.status = status
      /\ e.done = t
      /\ e.suite = checks[i].suite
  BY <1>1, <1>2, Zenon DEF CheckFields
<1>6. Typed(checks, CheckFields) /\ i \in 1..Len(checks)
  OBVIOUS
<1>7. Replaces(checks, checks', i, CheckFields) /\ checks'[i] = e /\ Typed(checks', CheckFields)
  BY ONLY <1>3, <1>4, <1>6, OneReplaced
<1>8. Typed(checks, CheckFields)'
  BY <1>7 DEF Typed, CheckFields
<1> QED BY <1>7, <1>8, <1>5

LEMMA TestSet ==
  ASSUME Typed(tests, TestFields), NEW i \in 1..Len(tests),
         NEW status, tests' = [tests EXCEPT ![i].status = status]
  PROVE  /\ Replaces(tests, tests', i, TestFields)
         /\ Typed(tests, TestFields)'
         /\ tests'[i].status = status
         /\ tests'[i].commit = tests[i].commit
<1>1. PICK e : e = [tests[i] EXCEPT !.status = status]
  OBVIOUS
<1>2. DOMAIN tests[i] = TestFields
  BY DEF Typed
<1>3. tests' = Put(tests, i, e)
  BY <1>1, <1>2, Zenon DEF Put, TestFields
<1>4. DOMAIN e = TestFields
  BY <1>1, <1>2, Zenon DEF TestFields
<1>5. /\ e.status = status
      /\ e.commit = tests[i].commit
  BY <1>1, <1>2, Zenon DEF TestFields
<1>6. Typed(tests, TestFields) /\ i \in 1..Len(tests)
  OBVIOUS
<1>7. Replaces(tests, tests', i, TestFields) /\ tests'[i] = e /\ Typed(tests', TestFields)
  BY ONLY <1>3, <1>4, <1>6, OneReplaced
<1>8. Typed(tests, TestFields)'
  BY <1>7 DEF Typed, TestFields
<1> QED BY <1>7, <1>8, <1>5

LEMMA CommentHidden ==
  ASSUME Typed(comments, CommentFields), NEW i \in 1..Len(comments),
         comments' = [comments EXCEPT ![i].live = FALSE]
  PROVE  /\ Replaces(comments, comments', i, CommentFields)
         /\ Typed(comments, CommentFields)'
         /\ comments'[i].live = FALSE
         /\ comments'[i].kind = comments[i].kind
         /\ comments'[i].bot = comments[i].bot
         /\ comments'[i].record = comments[i].record
<1>1. PICK e : e = [comments[i] EXCEPT !.live = FALSE]
  OBVIOUS
<1>2. DOMAIN comments[i] = CommentFields
  BY DEF Typed
<1>3. comments' = Put(comments, i, e)
  BY <1>1, <1>2, Zenon DEF Put, CommentFields
<1>4. DOMAIN e = CommentFields
  BY <1>1, <1>2, Zenon DEF CommentFields
<1>5. /\ e.live = FALSE
      /\ e.kind = comments[i].kind
      /\ e.bot = comments[i].bot
      /\ e.record = comments[i].record
  BY <1>1, <1>2, Zenon DEF CommentFields
<1>6. Typed(comments, CommentFields) /\ i \in 1..Len(comments)
  OBVIOUS
<1>7. Replaces(comments, comments', i, CommentFields) /\ comments'[i] = e /\ Typed(comments', CommentFields)
  BY ONLY <1>3, <1>4, <1>6, OneReplaced
<1>8. Typed(comments, CommentFields)'
  BY <1>7 DEF Typed, CommentFields
<1> QED BY <1>7, <1>8, <1>5

LEMMA DeploymentPasses ==
  ASSUME Typed(deployments, DeploymentFields), NEW d \in 1..Len(deployments),
         deployments' = [deployments EXCEPT ![d].passed = @ + 1]
  PROVE  /\ Replaces(deployments, deployments', d, DeploymentFields)
         /\ Typed(deployments, DeploymentFields)'
         /\ deployments'[d].passed = deployments[d].passed + 1
         /\ deployments'[d].commit = deployments[d].commit
         /\ deployments'[d].attempt = deployments[d].attempt
         /\ deployments'[d].status = deployments[d].status
<1>1. PICK e : e = [deployments[d] EXCEPT !.passed = @ + 1]
  OBVIOUS
<1>2. DOMAIN deployments[d] = DeploymentFields
  BY DEF Typed
<1>3. deployments' = Put(deployments, d, e)
  BY <1>1, <1>2, Zenon DEF Put, DeploymentFields
<1>4. DOMAIN e = DeploymentFields
  BY <1>1, <1>2, Zenon DEF DeploymentFields
<1>5. /\ e.passed = deployments[d].passed + 1
      /\ e.commit = deployments[d].commit
      /\ e.attempt = deployments[d].attempt
      /\ e.status = deployments[d].status
  BY <1>1, <1>2, Zenon DEF DeploymentFields
<1>6. Typed(deployments, DeploymentFields) /\ d \in 1..Len(deployments)
  OBVIOUS
<1>7. /\ Replaces(deployments, deployments', d, DeploymentFields) /\ deployments'[d] = e
      /\ Typed(deployments', DeploymentFields)
  BY ONLY <1>3, <1>4, <1>6, OneReplaced
<1>8. Typed(deployments, DeploymentFields)'
  BY <1>7 DEF Typed, DeploymentFields
<1> QED BY <1>7, <1>8, <1>5

LEMMA DeploymentEnds ==
  ASSUME Typed(deployments, DeploymentFields), NEW d \in 1..Len(deployments),
         NEW status, deployments' = [deployments EXCEPT ![d].status = status]
  PROVE  /\ Replaces(deployments, deployments', d, DeploymentFields)
         /\ Typed(deployments, DeploymentFields)'
         /\ deployments'[d].status = status
         /\ deployments'[d].commit = deployments[d].commit
         /\ deployments'[d].attempt = deployments[d].attempt
         /\ deployments'[d].passed = deployments[d].passed
<1>1. PICK e : e = [deployments[d] EXCEPT !.status = status]
  OBVIOUS
<1>2. DOMAIN deployments[d] = DeploymentFields
  BY DEF Typed
<1>3. deployments' = Put(deployments, d, e)
  BY <1>1, <1>2, Zenon DEF Put, DeploymentFields
<1>4. DOMAIN e = DeploymentFields
  BY <1>1, <1>2, Zenon DEF DeploymentFields
<1>5. /\ e.status = status
      /\ e.commit = deployments[d].commit
      /\ e.attempt = deployments[d].attempt
      /\ e.passed = deployments[d].passed
  BY <1>1, <1>2, Zenon DEF DeploymentFields
<1>6. Typed(deployments, DeploymentFields) /\ d \in 1..Len(deployments)
  OBVIOUS
<1>7. /\ Replaces(deployments, deployments', d, DeploymentFields) /\ deployments'[d] = e
      /\ Typed(deployments', DeploymentFields)
  BY ONLY <1>3, <1>4, <1>6, OneReplaced
<1>8. Typed(deployments, DeploymentFields)'
  BY <1>7 DEF Typed, DeploymentFields
<1> QED BY <1>7, <1>8, <1>5

LEMMA DeploymentAgain ==
  ASSUME Typed(deployments, DeploymentFields), NEW d \in 1..Len(deployments),
         deployments' = [deployments EXCEPT ![d].attempt = @ + 1, ![d].passed = 0,
                                            ![d].status = "running"]
  PROVE  /\ Replaces(deployments, deployments', d, DeploymentFields)
         /\ Typed(deployments, DeploymentFields)'
         /\ deployments'[d].attempt = deployments[d].attempt + 1
         /\ deployments'[d].passed = 0
         /\ deployments'[d].status = "running"
         /\ deployments'[d].commit = deployments[d].commit
<1>1. PICK e : e = [deployments[d] EXCEPT !.attempt = @ + 1, !.passed = 0, !.status = "running"]
  OBVIOUS
<1>2. DOMAIN deployments[d] = DeploymentFields
  BY DEF Typed
<1>3. deployments' = Put(deployments, d, e)
  BY <1>1, <1>2, Zenon DEF Put, DeploymentFields
<1>4. DOMAIN e = DeploymentFields
  BY <1>1, <1>2, Zenon DEF DeploymentFields
<1>5. /\ e.attempt = deployments[d].attempt + 1
      /\ e.passed = 0
      /\ e.status = "running"
      /\ e.commit = deployments[d].commit
  BY <1>1, <1>2, Zenon DEF DeploymentFields
<1>6. Typed(deployments, DeploymentFields) /\ d \in 1..Len(deployments)
  OBVIOUS
<1>7. /\ Replaces(deployments, deployments', d, DeploymentFields) /\ deployments'[d] = e
      /\ Typed(deployments', DeploymentFields)
  BY ONLY <1>3, <1>4, <1>6, OneReplaced
<1>8. Typed(deployments, DeploymentFields)'
  BY <1>7 DEF Typed, DeploymentFields
<1> QED BY <1>7, <1>8, <1>5

Extends(s, t, e) ==
  /\ Len(t) = Len(s) + 1 /\ Len(s) \in Nat
  /\ t[Len(s) + 1] = e /\ \A i \in 1..Len(s) : t[i] = s[i]
LEMMA OneAdded ==
  ASSUME NEW s, NEW fields, Typed(s, fields), NEW e, DOMAIN e = fields, NEW t, t = Append(s, e)
  PROVE  Typed(t, fields) /\ Extends(s, t, e)
<1>1. /\ IsSequence(t) /\ Len(t) = Len(s) + 1 /\ Len(s) \in Nat
      /\ t[Len(s) + 1] = e /\ \A i \in 1..Len(s) : t[i] = s[i]
  BY Appended DEF Typed
<1>2. ASSUME NEW i \in 1..Len(t) PROVE DOMAIN t[i] = fields
  BY <1>1 DEF Typed
<1> QED BY <1>1, <1>2 DEF Typed, Extends

ExtendsTwo(s, t, a, b) ==
  /\ IsSequence(t) /\ Len(t) = Len(s) + 2 /\ Len(s) \in Nat
  /\ \A i \in 1..Len(s) : t[i] = s[i]
  /\ t[Len(s) + 1] = a /\ t[Len(s) + 2] = b
LEMMA TwoAdded ==
  ASSUME NEW s, NEW a, NEW b, IsSequence(s), NEW t, t = s \o <<a, b>>
  PROVE  ExtendsTwo(s, t, a, b)
<1>1. PICK S : s \in Seq(S)
  BY DEF IsSequence
<1>2. s \in Seq(S \cup {a, b})
  BY <1>1
<1>3. <<a, b>> \in Seq(S \cup {a, b}) /\ Len(<<a, b>>) = 2 /\ <<a, b>>[1] = a /\ <<a, b>>[2] = b
  OBVIOUS
<1>4. /\ t \in Seq(S \cup {a, b}) /\ Len(t) = Len(s) + 2
      /\ \A i \in 1..Len(t) : t[i] = IF i <= Len(s) THEN s[i] ELSE <<a, b>>[i - Len(s)]
  BY <1>2, <1>3, ConcatProperties
<1> QED BY <1>2, <1>3, <1>4 DEF IsSequence, ExtendsTwo

(* The history: parents and contents are earlier commits.                  *)
GraphInv ==
  /\ Release < Len(commits)
  /\ \A c \in 1..Len(commits) :
       /\ \A i \in 1..Len(Parents(c)) : Parents(c)[i] \in 1..(c - 1)
       /\ Tree(c) \subseteq 1..c
  /\ commits[Source].adds = "source" /\ Tree(Source) = {Source}
  /\ commits[Release].adds = "release" /\ Tree(Release) = {Source, Release}
  /\ main \in 1..Len(commits) /\ sync \in 1..Len(commits) /\ Release \in Tree(sync)
  /\ contract.prior \in 0..Len(commits)

(* Once the request is merged, main holds the release.                     *)
MergedInv ==
  /\ Open <=> deployments = << >>
  /\ ~Open => /\ Release \in Tree(main)
              /\ \E m \in 1..Len(commits) :
                   /\ request.merge = m /\ Len(Parents(m)) = 2 /\ CleanMerge(m)
                   /\ deployments[1].commit = m
  /\ \A d \in 1..Len(deployments) : deployments[d].commit \in 1..Len(commits)

(* Only the first check and the published one ever counted: whatever comes *)
(* after them is not older than they are.                                  *)
Recovered == contract.check = 2 \/ \E r \in 1..Len(runs) : runs[r].step = "partial"
ChecksInv ==
  /\ 0 < Len(checks) /\ checks[1] = [suite |-> 1, status |-> "failure", done |-> 1]
  /\ \A i \in 1..Len(checks) : checks[i].done \in Nat
  /\ \A i \in 2..Len(checks) : checks[i].status = "pending" \/ checks[i].done > 0
  /\ contract.check \in {None, 2}
  /\ \A r \in 1..Len(runs) : runs[r].step = "partial" => runs[r].check = 2
  /\ Recovered =>
       /\ 1 < Len(checks) /\ checks[2].status = "success" /\ checks[2].done > 1
       /\ \A i \in 3..Len(checks) :
            checks[i].status = "pending" \/ checks[i].done >= checks[2].done
  /\ \A c \in 1..Len(commits) : commits[c].adds = "publication" => contract.check = 2

(* What a run of an update binds: the head merges the branch before, which *)
(* merged the release and the repair before, and the reviewed repair.      *)
Synced(head, base) ==
  /\ AssociationRepairMerge(base)
  /\ \E prior \in 1..Len(commits) :
       /\ Parents(prior) = <<Release, Parents(base)[1]>> /\ CleanMerge(prior)
       /\ Parents(head) = <<prior, base>> /\ CleanMerge(head)
ReadyAt(x) == \E b \in 1..Len(commits) : x.base = b /\ PublicationRepairMerge(b)
SyncedAt(x) ==
  \E h \in 1..Len(commits), b \in 1..Len(commits) : x.head = h /\ x.base = b /\ Synced(h, b)

(* One recovery run at a time, and what it works on.                       *)
Active(r) == runs[r].step \in {"read", "reread", "post"}
RunsInv ==
  \A r \in 1..Len(runs) :
    /\ runs[r].kind \in {"validate", "ready", "update"}
    /\ runs[r].step \in {"tests", "attest", "publish", "partial", "done", "failed"} \/ Active(r)
    /\ r < Len(runs) => Ended(r)
    /\ runs[r].step \in {"tests", "attest", "publish", "partial"} => runs[r].kind = "validate"
    /\ Active(r) => /\ contract.check = 2
                    /\ \/ runs[r].kind = "ready" /\ ReadyAt(runs[r])
                       \/ runs[r].kind = "update" /\ SyncedAt(runs[r])

(* What was posted names what its run was bound to; a run about to post    *)
(* has no record of its kind.                                              *)
Kind(r) == IF runs[r].kind = "ready" THEN "v1" ELSE "v2"
Standing(i) == comments[i].bot /\ comments[i].live
RecordsInv ==
  /\ \A i \in 1..Len(comments) : comments[i].bot =>
       /\ contract.check = 2
       /\ \/ comments[i].kind = "v1" /\ ReadyAt(comments[i].record)
          \/ comments[i].kind = "v2" /\ SyncedAt(comments[i].record)
  /\ \A i, j \in 1..Len(comments) :
       Standing(i) /\ Standing(j) /\ comments[i].kind = comments[j].kind => i = j
  /\ \A r \in 1..Len(runs) : runs[r].step = "post" =>
       \A i \in 1..Len(comments) : Standing(i) => comments[i].kind # Kind(r)

(* What a deployment that has passed a read will deploy.                   *)
Adds(tree) == {commits[c].adds : c \in tree}
Approvable == {"source", "release", "deployment"} \cup Reviewed
Approves(commit) ==
  LET merge == request.merge
      head == Parents(merge)[2]
  IN /\ Adds(Tree(commit)) \subseteq Approvable
     /\ head # Release => \E t \in 1..Len(tests) : tests[t].commit = head /\ tests[t].status = "success"
     /\ commits[merge].marker.kind = "v2" =>
          /\ SyncMerge(merge)
          /\ commit = merge \/ (DirectMerge(commit, "deployment") /\ Parents(commit)[1] = merge)

ApprovedAt(d) == \E c \in 1..Len(commits) : deployments[d].commit = c /\ Approves(c)

(* A deployment passes its reads in its first attempt, a continuation only *)
(* after the original stopped for good, and there is one continuation.     *)
Over(d) == deployments[d].attempt > 1 \/ deployments[d].status # "running"
IsSent(d) == \E i \in 1..Len(sent) : sent[i] = d
DeployInv ==
  /\ \A d \in 1..Len(deployments) :
       /\ deployments[d].attempt \in Nat \ {0} /\ deployments[d].passed \in Nat
       /\ deployments[d].passed > 0 => deployments[d].attempt = 1 /\ d < 3 /\ ApprovedAt(d)
       /\ IsSent(d) => d < 3 /\ Over(d) /\ ApprovedAt(d)
  /\ 1 < Len(deployments) /\ deployments[2].passed > 0 => Over(1) /\ ~IsSent(1)
  /\ Len(sent) < 2 /\ \A i \in 1..Len(sent) : sent[i] \in 1..Len(deployments)
  /\ IsSent(1) => deployments[1].attempt > 1 \/ deployments[1].status = "sent"
  /\ IsSent(2) => Over(1)
-----------------------------------------------------------------------------
(* The history only grows, and what a merge is depends on its past alone.  *)
Grows ==
  /\ Len(commits) <= Len(commits') /\ Len(commits') \in Nat
  /\ \A c \in 1..Len(commits) : commits'[c] = commits[c]

LEMMA TwoParents ==
  ASSUME GraphInv, Len(commits) \in Nat, NEW c \in 1..Len(commits), Len(Parents(c)) = 2
  PROVE  /\ Parents(c)[1] \in 1..Len(commits) /\ Parents(c)[2] \in 1..Len(commits)
         /\ Parents(c)[1] \in 1..(c - 1) /\ Parents(c)[2] \in 1..(c - 1)
<1>1. \A i \in 1..2 : Parents(c)[i] \in 1..(c - 1)
  BY DEF GraphInv
<1> QED BY <1>1

LEMMA SameCommit ==
  ASSUME GraphInv, Grows, Len(commits) \in Nat, NEW c \in 1..Len(commits)
  PROVE  /\ c \in 1..Len(commits') /\ Parents(c)' = Parents(c) /\ Tree(c)' = Tree(c)
         /\ Tree(c) \subseteq 1..Len(commits)
<1>1. commits'[c] = commits[c] /\ c \in 1..Len(commits')
  BY DEF Grows
<1>2. Tree(c) \subseteq 1..c
  BY DEF GraphInv
<1> QED BY <1>1, <1>2 DEF Parents, Tree

LEMMA SameChanges ==
  ASSUME GraphInv, Grows, Len(commits) \in Nat,
         NEW a \in 1..Len(commits), NEW b \in 1..Len(commits)
  PROVE  ChangedPaths(a, b)' = ChangedPaths(a, b)
<1>1. /\ Tree(a)' = Tree(a) /\ Tree(b)' = Tree(b)
      /\ Tree(a) \subseteq 1..Len(commits) /\ Tree(b) \subseteq 1..Len(commits)
  BY SameCommit
<1>2. \A d \in (Tree(a) \ Tree(b)) \cup (Tree(b) \ Tree(a)) : commits'[d].adds = commits[d].adds
  BY <1>1 DEF Grows
<1> QED BY <1>1, <1>2 DEF ChangedPaths

LEMMA SameDirect ==
  ASSUME GraphInv, Grows, Len(commits) \in Nat, NEW c \in 1..Len(commits), NEW review
  PROVE  DirectMerge(c, review)' <=> DirectMerge(c, review)
<1>1. Parents(c)' = Parents(c) /\ Tree(c)' = Tree(c)
  BY SameCommit
<1>2. CASE Len(Parents(c)) # 2
  BY <1>1, <1>2 DEF DirectMerge
<1>3. CASE Len(Parents(c)) = 2
  <2>1. PICK p, q : p = Parents(c)[1] /\ q = Parents(c)[2]
    OBVIOUS
  <2>2. p \in 1..Len(commits) /\ q \in 1..Len(commits)
    BY <1>3, <2>1, TwoParents
  <2>3. Tree(q)' = Tree(q) /\ ChangedPaths(p, q)' = ChangedPaths(p, q)
    BY <2>2, SameCommit, SameChanges
  <2>4. DirectMerge(c, review) <=>
          Tree(q) = Tree(c) /\ ChangedPaths(p, q) = {review}
    BY <1>3, <2>1 DEF DirectMerge
  <2>5. DirectMerge(c, review)' <=>
          Tree(q)' = Tree(c)' /\ ChangedPaths(p, q)' = {review}
    BY <1>1, <1>3, <2>1 DEF DirectMerge
  <2> QED BY <1>1, <2>3, <2>4, <2>5
<1> QED BY <1>2, <1>3

LEMMA SameChain ==
  ASSUME GraphInv, Grows, Len(commits) \in Nat, NEW c \in 1..Len(commits)
  PROVE  /\ ActivationMerge(c)' <=> ActivationMerge(c)
         /\ ContinuationMerge(c)' <=> ContinuationMerge(c)
         /\ RepairMerge(c)' <=> RepairMerge(c)
         /\ PublicationRepairMerge(c)' <=> PublicationRepairMerge(c)
         /\ SyncRepairMerge(c)' <=> SyncRepairMerge(c)
         /\ AssociationRepairMerge(c)' <=> AssociationRepairMerge(c)
<1> DEFINE Base(d) == Parents(d)[1]
<1>1. ASSUME NEW d \in 1..Len(commits), NEW review, DirectMerge(d, review)
      PROVE  Base(d) \in 1..Len(commits) /\ Base(d)' = Base(d)
  BY <1>1, TwoParents, SameCommit DEF DirectMerge
<1>2. ASSUME NEW d \in 1..Len(commits) PROVE Base(d)' = Base(d)
  BY SameCommit
<1>3. ASSUME NEW d \in 1..Len(commits)
      PROVE  ActivationMerge(d)' <=> ActivationMerge(d)
  BY <1>2, SameDirect DEF ActivationMerge
<1>4. ASSUME NEW d \in 1..Len(commits)
      PROVE  ContinuationMerge(d)' <=> ContinuationMerge(d)
  BY <1>1, <1>2, <1>3, SameDirect DEF ContinuationMerge
<1>5. ReleaseIdentity' <=> ReleaseIdentity
  BY SameCommit DEF ReleaseIdentity, GraphInv, Release
<1>6. ASSUME NEW d \in 1..Len(commits)
      PROVE  RepairMerge(d)' <=> RepairMerge(d)
  BY <1>1, <1>2, <1>4, <1>5, SameDirect DEF RepairMerge
<1>7. ASSUME NEW d \in 1..Len(commits)
      PROVE  PublicationRepairMerge(d)' <=> PublicationRepairMerge(d)
  BY <1>1, <1>2, <1>6, SameDirect DEF PublicationRepairMerge
<1>8. ASSUME NEW d \in 1..Len(commits)
      PROVE  SyncRepairMerge(d)' <=> SyncRepairMerge(d)
  BY <1>1, <1>2, <1>7, SameDirect DEF SyncRepairMerge
<1>9. ASSUME NEW d \in 1..Len(commits)
      PROVE  AssociationRepairMerge(d)' <=> AssociationRepairMerge(d)
  BY <1>1, <1>2, <1>8, SameDirect DEF AssociationRepairMerge
<1> QED BY <1>3, <1>4, <1>6, <1>7, <1>8, <1>9

LEMMA Pair ==
  ASSUME NEW s, NEW a, NEW b, s = <<a, b>>
  PROVE  Len(s) = 2 /\ s[1] = a /\ s[2] = b
OBVIOUS

LEMMA SameClean ==
  ASSUME GraphInv, Grows, Len(commits) \in Nat, NEW c \in 1..Len(commits), Len(Parents(c)) = 2
  PROVE  CleanMerge(c)' <=> CleanMerge(c)
<1>1. PICK p, q : p = Parents(c)[1] /\ q = Parents(c)[2]
  OBVIOUS
<1>2. p \in 1..Len(commits) /\ q \in 1..Len(commits)
  BY <1>1, TwoParents
<1>3. Tree(p)' = Tree(p) /\ Tree(q)' = Tree(q) /\ Tree(c)' = Tree(c) /\ Parents(c)' = Parents(c)
  BY <1>2, SameCommit
<1>4. CleanMerge(c) <=> Tree(c) = Tree(p) \cup Tree(q)
  BY <1>1 DEF CleanMerge
<1>5. CleanMerge(c)' <=> Tree(c)' = Tree(p)' \cup Tree(q)'
  BY <1>1, <1>3 DEF CleanMerge
<1> QED BY <1>3, <1>4, <1>5

LEMMA StaysSynced ==
  ASSUME GraphInv, Grows, Len(commits) \in Nat, NEW h \in 1..Len(commits),
         NEW b \in 1..Len(commits), Synced(h, b)
  PROVE  Synced(h, b)'
<1>1. AssociationRepairMerge(b) /\ AssociationRepairMerge(b)'
  BY SameChain DEF Synced
<1>2. PICK prior \in 1..Len(commits) :
        /\ Parents(prior) = <<Release, Parents(b)[1]>> /\ CleanMerge(prior)
        /\ Parents(h) = <<prior, b>> /\ CleanMerge(h)
  BY DEF Synced
<1>3. Len(Parents(prior)) = 2 /\ Len(Parents(h)) = 2
  BY <1>2, Pair
<1>4. CleanMerge(prior)' /\ CleanMerge(h)'
  BY <1>2, <1>3, SameClean
<1>5. Parents(prior)' = Parents(prior) /\ Parents(b)' = Parents(b) /\ Parents(h)' = Parents(h)
      /\ prior \in 1..Len(commits')
  BY SameCommit
<1> QED BY <1>1, <1>2, <1>4, <1>5 DEF Synced

LEMMA StaysSyncMerge ==
  ASSUME GraphInv, Grows, Len(commits) \in Nat, NEW c \in 1..Len(commits),
         SyncMerge(c), contract'.prior = contract.prior
  PROVE  SyncMerge(c)'
<1>1. PICK p, q : p = Parents(c)[1] /\ q = Parents(c)[2]
  OBVIOUS
<1>2. Len(Parents(c)) = 2 /\ SyncUpdate(q, p) /\ CleanMerge(c)
  BY <1>1 DEF SyncMerge
<1>3. p \in 1..Len(commits) /\ q \in 1..Len(commits)
  BY <1>1, <1>2, TwoParents
<1>4. PICK k : k = contract.prior
  OBVIOUS
<1>5. /\ AssociationRepairMerge(p) /\ k # None /\ k \in 1..Len(commits)
      /\ Parents(k) = <<Release, Parents(p)[1]>> /\ CleanMerge(k)
      /\ Parents(q) = <<k, p>> /\ CleanMerge(q)
  BY <1>2, <1>4 DEF SyncUpdate, GraphInv, None
<1>6. Len(Parents(k)) = 2 /\ Len(Parents(q)) = 2
  BY <1>5, Pair
<1>7. AssociationRepairMerge(p)' /\ CleanMerge(k)' /\ CleanMerge(q)' /\ CleanMerge(c)'
  BY <1>2, <1>3, <1>5, <1>6, SameClean, SameChain
<1>8. /\ Parents(k)' = Parents(k) /\ Parents(q)' = Parents(q) /\ Parents(p)' = Parents(p)
      /\ Parents(c)' = Parents(c)
  BY <1>3, <1>5, SameCommit
<1>9. SyncUpdate(q, p)'
  BY <1>4, <1>5, <1>7, <1>8 DEF SyncUpdate
<1> QED BY <1>1, <1>2, <1>7, <1>8, <1>9 DEF SyncMerge

-----------------------------------------------------------------------------
(* What a reviewed merge holds.                                            *)
LEMMA DirectAdds ==
  ASSUME GraphInv, Len(commits) \in Nat, NEW c \in 1..Len(commits), NEW review, DirectMerge(c, review)
  PROVE  /\ Parents(c)[1] \in 1..Len(commits)
         /\ Adds(Tree(c)) \subseteq Adds(Tree(Parents(c)[1])) \cup {review}
         /\ \E d \in 1..Len(commits) : commits[d].adds = review
<1>1. PICK p, q : p = Parents(c)[1] /\ q = Parents(c)[2]
  OBVIOUS
<1>2. p \in 1..Len(commits) /\ q \in 1..Len(commits)
  BY <1>1, TwoParents DEF DirectMerge
<1>3. Tree(q) = Tree(c) /\ ChangedPaths(p, q) = {review}
  BY <1>1 DEF DirectMerge
<1>4. \A d \in (Tree(p) \ Tree(q)) \cup (Tree(q) \ Tree(p)) : commits[d].adds = review
  BY <1>3 DEF ChangedPaths
<1>5. PICK d \in (Tree(p) \ Tree(q)) \cup (Tree(q) \ Tree(p)) : commits[d].adds = review
  BY <1>3 DEF ChangedPaths
<1>6. d \in 1..Len(commits)
  BY <1>2, <1>5 DEF GraphInv
<1>7. Adds(Tree(c)) \subseteq Adds(Tree(p)) \cup {review}
  BY <1>3, <1>4 DEF Adds
<1> QED BY <1>1, <1>2, <1>5, <1>6, <1>7

(* A chain of reviewed repairs holds reviewed content and not the release. *)
Chain(c) == Adds(Tree(c)) \subseteq {"source"} \cup Reviewed
LEMMA ChainHolds ==
  ASSUME GraphInv, Len(commits) \in Nat, NEW c \in 1..Len(commits)
  PROVE  /\ ActivationMerge(c) => Chain(c)
         /\ ContinuationMerge(c) => Chain(c)
         /\ RepairMerge(c) => Chain(c)
         /\ PublicationRepairMerge(c) => Chain(c)
         /\ SyncRepairMerge(c) => Chain(c)
         /\ AssociationRepairMerge(c) => Chain(c)
<1>1. ASSUME NEW d \in 1..Len(commits), ActivationMerge(d) PROVE Chain(d)
  <2>1. Adds(Tree(Source)) = {"source"}
    BY DEF GraphInv, Adds, Source, Release
  <2>2. Adds(Tree(d)) \subseteq Adds(Tree(Source)) \cup {"activation"}
    BY <1>1, DirectAdds DEF ActivationMerge
  <2> QED BY <2>1, <2>2 DEF Chain, Reviewed
<1>2. ASSUME NEW d \in 1..Len(commits), NEW review \in Reviewed, DirectMerge(d, review),
             Chain(Parents(d)[1])
      PROVE  Chain(d)
  BY <1>2, DirectAdds DEF Chain
<1>3. ASSUME NEW d \in 1..Len(commits), NEW review, DirectMerge(d, review)
      PROVE  Parents(d)[1] \in 1..Len(commits)
  BY <1>3, DirectAdds
<1>4. {"continuation", "repair", "publication", "sync", "association"} \subseteq Reviewed
  BY DEF Reviewed
<1>5. ASSUME NEW d \in 1..Len(commits), ContinuationMerge(d) PROVE Chain(d)
  BY <1>1, <1>2, <1>3, <1>4, <1>5 DEF ContinuationMerge
<1>6. ASSUME NEW d \in 1..Len(commits), RepairMerge(d) PROVE Chain(d)
  BY <1>5, <1>2, <1>3, <1>4, <1>6 DEF RepairMerge
<1>7. ASSUME NEW d \in 1..Len(commits), PublicationRepairMerge(d) PROVE Chain(d)
  BY <1>6, <1>2, <1>3, <1>4, <1>7 DEF PublicationRepairMerge
<1>8. ASSUME NEW d \in 1..Len(commits), SyncRepairMerge(d) PROVE Chain(d)
  BY <1>7, <1>2, <1>3, <1>4, <1>8 DEF SyncRepairMerge
<1>9. ASSUME NEW d \in 1..Len(commits), AssociationRepairMerge(d) PROVE Chain(d)
  BY <1>8, <1>2, <1>3, <1>4, <1>9 DEF AssociationRepairMerge
<1> QED BY <1>1, <1>5, <1>6, <1>7, <1>8, <1>9

LEMMA ChainHasNoRelease ==
  ASSUME GraphInv, NEW c, Chain(c)
  PROVE  Release \notin Tree(c)
<1>1. commits[Release].adds = "release" /\ "release" \notin {"source"} \cup Reviewed
  BY DEF GraphInv, Reviewed
<1> QED BY <1>1 DEF Chain, Adds

LEMMA SyncedHoldsReviewed ==
  ASSUME GraphInv, Len(commits) \in Nat, NEW h \in 1..Len(commits), NEW b \in 1..Len(commits),
         Synced(h, b)
  PROVE  Adds(Tree(h)) \subseteq Approvable /\ Adds(Tree(b)) \subseteq Approvable
<1>1. AssociationRepairMerge(b)
  BY DEF Synced
<1>2. PICK prior \in 1..Len(commits) :
        /\ Parents(prior) = <<Release, Parents(b)[1]>> /\ CleanMerge(prior)
        /\ Parents(h) = <<prior, b>> /\ CleanMerge(h)
  BY DEF Synced
<1>3. PICK a : a = Parents(b)[1]
  OBVIOUS
<1>4. a \in 1..Len(commits) /\ SyncRepairMerge(a)
  BY <1>1, <1>3, DirectAdds DEF AssociationRepairMerge
<1>5. Chain(a) /\ Chain(b)
  BY <1>1, <1>4, ChainHolds
<1>6. Tree(prior) = Tree(Release) \cup Tree(a) /\ Tree(h) = Tree(prior) \cup Tree(b)
  BY <1>2, <1>3, Pair DEF CleanMerge
<1>7. Adds(Tree(Release)) \subseteq Approvable
  BY DEF GraphInv, Adds, Approvable
<1>8. Adds(Tree(a)) \subseteq Approvable /\ Adds(Tree(b)) \subseteq Approvable
  BY <1>5 DEF Chain, Approvable
<1>9. Adds(Tree(h)) \subseteq Adds(Tree(Release)) \cup Adds(Tree(a)) \cup Adds(Tree(b))
  BY <1>6 DEF Adds
<1> QED BY <1>7, <1>8, <1>9

-----------------------------------------------------------------------------
ContractFields == {"run", "check", "record", "prior", "approval"}
Types ==
  /\ IsSequence(commits) /\ IsSequence(sent) /\ DOMAIN contract = ContractFields
  /\ Typed(checks, CheckFields) /\ Typed(tests, TestFields) /\ Typed(comments, CommentFields)
  /\ Typed(runs, RunFields) /\ Typed(deployments, DeploymentFields)
IInv ==
  /\ Types /\ GraphInv /\ MergedInv /\ ChecksInv /\ RunsInv /\ RecordsInv /\ DeployInv

LEMMA Counts ==
  ASSUME Types
  PROVE  /\ Len(commits) \in Nat /\ Len(sent) \in Nat /\ Len(checks) \in Nat
         /\ Len(tests) \in Nat /\ Len(comments) \in Nat /\ Len(runs) \in Nat
         /\ Len(deployments) \in Nat
BY Lengths DEF Types, Typed

LEMMA SameHistory ==
  ASSUME Len(commits) \in Nat, commits' = commits
  PROVE  Grows
BY DEF Grows

(* What a step leaves alone keeps each part of the invariant.              *)
LEMMA GraphKept ==
  ASSUME GraphInv, commits' = commits, main' = main, sync' = sync, contract' = contract
  PROVE  GraphInv'
BY DEF GraphInv, Parents, Tree

LEMMA MergedKept ==
  ASSUME MergedInv, commits' = commits, main' = main, request' = request,
         deployments' = deployments
  PROVE  MergedInv'
BY DEF MergedInv, Open, Parents, Tree, CleanMerge

(* No check is published and no run comes to its partial end.              *)
NoNewPartial ==
  /\ Len(runs) \in Nat
  /\ \A r \in 1..Len(runs') : runs'[r].step = "partial" =>
       r \in 1..Len(runs) /\ runs[r].step = "partial" /\ runs'[r].check = runs[r].check
LEMMA ChecksKept ==
  ASSUME ChecksInv, commits' = commits, checks' = checks, contract' = contract, NoNewPartial
  PROVE  ChecksInv'
<1>1. Recovered' => Recovered
  BY DEF Recovered, NoNewPartial
<1>2. \A r \in 1..Len(runs') : runs'[r].step = "partial" => runs'[r].check = 2
  BY DEF ChecksInv, NoNewPartial
<1> QED BY <1>1, <1>2 DEF ChecksInv

LEMMA RunsKept ==
  ASSUME RunsInv, GraphInv, Grows, Len(commits) \in Nat, runs' = runs,
         contract.check = 2 => contract'.check = 2
  PROVE  RunsInv'
<1>1. ASSUME NEW r \in 1..Len(runs), Active(r)
      PROVE  /\ contract'.check = 2
             /\ \/ runs[r].kind = "ready" /\ ReadyAt(runs[r])'
                \/ runs[r].kind = "update" /\ SyncedAt(runs[r])'
  <2>1. ASSUME ReadyAt(runs[r]) PROVE ReadyAt(runs[r])'
    <3>1. PICK b \in 1..Len(commits) : runs[r].base = b /\ PublicationRepairMerge(b)
      BY <2>1 DEF ReadyAt
    <3>2. PublicationRepairMerge(b)' /\ b \in 1..Len(commits')
      BY <3>1, SameChain, SameCommit
    <3> QED BY <3>1, <3>2 DEF ReadyAt
  <2>2. ASSUME SyncedAt(runs[r]) PROVE SyncedAt(runs[r])'
    <3>1. PICK h \in 1..Len(commits), b \in 1..Len(commits) :
            runs[r].head = h /\ runs[r].base = b /\ Synced(h, b)
      BY <2>2 DEF SyncedAt
    <3>2. Synced(h, b)' /\ h \in 1..Len(commits') /\ b \in 1..Len(commits')
      BY <3>1, StaysSynced, SameCommit
    <3> QED BY <3>1, <3>2 DEF SyncedAt
  <2>3. /\ contract.check = 2
        /\ \/ runs[r].kind = "ready" /\ ReadyAt(runs[r])
           \/ runs[r].kind = "update" /\ SyncedAt(runs[r])
    BY <1>1 DEF RunsInv
  <2> QED BY <2>1, <2>2, <2>3
<1>2. ASSUME NEW r \in 1..Len(runs)
      PROVE  (Active(r)' <=> Active(r)) /\ (Ended(r)' <=> Ended(r))
  BY DEF Active, Ended
<1> QED BY <1>1, <1>2 DEF RunsInv

(* What a comment that stays recorded is as it was.                        *)
LEMMA RecordsKept ==
  ASSUME RecordsInv, GraphInv, Grows, Len(commits) \in Nat, comments' = comments,
         contract.check = 2 => contract'.check = 2,
         \A r \in 1..Len(runs') : runs'[r].step = "post" =>
           r \in 1..Len(runs) /\ runs[r].step = "post" /\ runs'[r].kind = runs[r].kind
  PROVE  RecordsInv'
<1>1. ASSUME NEW i \in 1..Len(comments), comments[i].bot
      PROVE  /\ contract'.check = 2
             /\ \/ comments[i].kind = "v1" /\ ReadyAt(comments[i].record)'
                \/ comments[i].kind = "v2" /\ SyncedAt(comments[i].record)'
  <2>1. ASSUME ReadyAt(comments[i].record) PROVE ReadyAt(comments[i].record)'
    <3>1. PICK b \in 1..Len(commits) : comments[i].record.base = b /\ PublicationRepairMerge(b)
      BY <2>1 DEF ReadyAt
    <3>2. PublicationRepairMerge(b)' /\ b \in 1..Len(commits')
      BY <3>1, SameChain, SameCommit
    <3> QED BY <3>1, <3>2 DEF ReadyAt
  <2>2. ASSUME SyncedAt(comments[i].record) PROVE SyncedAt(comments[i].record)'
    <3>1. PICK h \in 1..Len(commits), b \in 1..Len(commits) :
            comments[i].record.head = h /\ comments[i].record.base = b /\ Synced(h, b)
      BY <2>2 DEF SyncedAt
    <3>2. Synced(h, b)' /\ h \in 1..Len(commits') /\ b \in 1..Len(commits')
      BY <3>1, StaysSynced, SameCommit
    <3> QED BY <3>1, <3>2 DEF SyncedAt
  <2>3. /\ contract.check = 2
        /\ \/ comments[i].kind = "v1" /\ ReadyAt(comments[i].record)
           \/ comments[i].kind = "v2" /\ SyncedAt(comments[i].record)
    BY <1>1 DEF RecordsInv
  <2> QED BY <2>1, <2>2, <2>3
<1>2. ASSUME NEW i \in 1..Len(comments)
      PROVE  Standing(i)' <=> Standing(i)
  BY DEF Standing
<1>3. \A r \in 1..Len(runs') : runs'[r].step = "post" =>
        \A i \in 1..Len(comments) : Standing(i) => comments[i].kind # Kind(r)'
  BY DEF RecordsInv, Kind
<1>4. \A i, j \in 1..Len(comments) :
        Standing(i) /\ Standing(j) /\ comments[i].kind = comments[j].kind => i = j
  BY DEF RecordsInv
<1> QED BY <1>1, <1>2, <1>3, <1>4 DEF RecordsInv

(* Successes of tests are kept, and what the approved merge was.           *)
TestsKept ==
  \A t \in 1..Len(tests) : tests[t].status = "success" =>
    t \in 1..Len(tests') /\ tests'[t].status = "success" /\ tests'[t].commit = tests[t].commit
LEMMA ApprovesStays ==
  ASSUME GraphInv, MergedInv, Grows, Len(commits) \in Nat, ~Open, request' = request,
         TestsKept, contract'.prior = contract.prior,
         NEW c \in 1..Len(commits), Approves(c)
  PROVE  Approves(c)'
<1>1. PICK m \in 1..Len(commits) : request.merge = m /\ Len(Parents(m)) = 2
  BY DEF MergedInv
<1>2. PICK h : h = Parents(m)[2]
  OBVIOUS
<1>3. /\ Adds(Tree(c)) \subseteq Approvable
      /\ h # Release => \E t \in 1..Len(tests) : tests[t].commit = h /\ tests[t].status = "success"
      /\ commits[m].marker.kind = "v2" =>
           /\ SyncMerge(m)
           /\ c = m \/ (DirectMerge(c, "deployment") /\ Parents(c)[1] = m)
  BY <1>1, <1>2 DEF Approves
<1>4. Parents(m)' = Parents(m) /\ commits'[m] = commits[m] /\ Parents(c)' = Parents(c)
      /\ Tree(c)' = Tree(c) /\ Tree(c) \subseteq 1..Len(commits)
  BY SameCommit DEF Grows
<1>5. Adds(Tree(c))' = Adds(Tree(c))
  <2>1. \A d \in Tree(c) : commits'[d].adds = commits[d].adds
    BY <1>4 DEF Grows
  <2> QED BY <1>4, <2>1 DEF Adds
<1>6. h # Release => \E t \in 1..Len(tests') : tests'[t].commit = h /\ tests'[t].status = "success"
  BY <1>3 DEF TestsKept
<1>7. SyncMerge(m) => SyncMerge(m)'
  BY StaysSyncMerge
<1>8. DirectMerge(c, "deployment") => DirectMerge(c, "deployment")'
  BY SameDirect
<1>9. request'.merge = m /\ Parents(m)'[2] = h
  BY <1>1, <1>2, <1>4
<1> QED BY <1>3, <1>4, <1>5, <1>6, <1>7, <1>8, <1>9 DEF Approves

LEMMA ApprovedAtStays ==
  ASSUME GraphInv, MergedInv, Grows, Len(commits) \in Nat, ~Open, request' = request,
         TestsKept, contract'.prior = contract.prior, NEW d,
         deployments'[d].commit = deployments[d].commit, ApprovedAt(d)
  PROVE  ApprovedAt(d)'
<1>1. PICK c \in 1..Len(commits) : deployments[d].commit = c /\ Approves(c)
  BY DEF ApprovedAt
<1>2. Approves(c)' /\ c \in 1..Len(commits')
  BY <1>1, ApprovesStays, SameCommit
<1> QED BY <1>1, <1>2 DEF ApprovedAt

LEMMA DeployKept ==
  ASSUME GraphInv, MergedInv, DeployInv, Grows, Len(commits) \in Nat, request' = request,
         TestsKept, ~Open => contract'.prior = contract.prior,
         deployments' = deployments, sent' = sent, Len(sent) \in Nat
  PROVE  DeployInv'
<1>1. \A d : IsSent(d)' <=> IsSent(d)
  BY DEF IsSent
<1>2. \A d : Over(d)' <=> Over(d)
  BY DEF Over
<1>3. ASSUME NEW d \in 1..Len(deployments), ApprovedAt(d) PROVE ApprovedAt(d)'
  <2>1. ~Open
    BY DEF MergedInv
  <2> QED BY <1>3, <2>1, ApprovedAtStays
<1> QED BY <1>1, <1>2, <1>3 DEF DeployInv
-----------------------------------------------------------------------------
(* The recovery runs.                                                      *)
LEMMA EvidenceStands ==
  ASSUME tests' = tests
  PROVE  TestsKept
BY DEF TestsKept

(* A run that is not over is the last one.                                 *)
LEMMA OneAtWork ==
  ASSUME RunsInv, Len(runs) \in Nat, NEW r \in 1..Len(runs), ~Ended(r)
  PROVE  r = Len(runs)
<1>1. ~(r < Len(runs))
  BY DEF RunsInv
<1> QED BY <1>1

MovesTo(r, step) ==
  /\ r \in 1..Len(runs) /\ ~Ended(r)
  /\ Replaces(runs, runs', r, RunFields) /\ Typed(runs, RunFields)'
  /\ runs'[r].step = step /\ runs'[r].kind = runs[r].kind
  /\ runs'[r].base = runs[r].base /\ runs'[r].head = runs[r].head

LEMMA RunMoves ==
  ASSUME RunsInv, Types, GraphInv, Grows, NEW r, NEW step, MovesTo(r, step),
         contract.check = 2 => contract'.check = 2,
         \/ step \in {"done", "failed"}
         \/ step \in {"attest", "publish", "partial"} /\ runs[r].step \in {"tests", "attest", "publish"}
         \/ step \in {"reread", "post"} /\ Active(r)
  PROVE  RunsInv'
<1>0. Len(runs) \in Nat /\ Len(commits) \in Nat
  BY Counts
<1>1. r \in 1..Len(runs) /\ r = Len(runs)
  BY <1>0, OneAtWork DEF MovesTo
<1>2. /\ Len(runs') = Len(runs) /\ \A j \in 1..Len(runs) : j # r => runs'[j] = runs[j]
      /\ runs'[r].step = step /\ runs'[r].kind = runs[r].kind
      /\ runs'[r].base = runs[r].base /\ runs'[r].head = runs[r].head
  BY DEF MovesTo, Replaces
<1>3. ASSUME NEW j \in 1..Len(runs), j # r
      PROVE  Ended(j) /\ Ended(j)' /\ ~Active(j)' /\ runs'[j] = runs[j]
  <2>1. Ended(j) /\ runs'[j] = runs[j]
    BY <1>0, <1>1, <1>2, <1>3 DEF RunsInv
  <2> QED BY <2>1 DEF Ended, Active
<1>4. ASSUME Active(r)'
      PROVE  /\ contract'.check = 2
             /\ \/ runs'[r].kind = "ready" /\ ReadyAt(runs[r])'
                \/ runs'[r].kind = "update" /\ SyncedAt(runs[r])'
  <2>1. Active(r)
    BY <1>2, <1>4 DEF Active
  <2>2. ASSUME ReadyAt(runs[r]) PROVE ReadyAt(runs[r])'
    <3>1. PICK b \in 1..Len(commits) : runs[r].base = b /\ PublicationRepairMerge(b)
      BY <2>2 DEF ReadyAt
    <3>2. PublicationRepairMerge(b)' /\ b \in 1..Len(commits')
      BY <1>0, <3>1, SameChain, SameCommit
    <3> QED BY <1>2, <3>1, <3>2 DEF ReadyAt
  <2>3. ASSUME SyncedAt(runs[r]) PROVE SyncedAt(runs[r])'
    <3>1. PICK h \in 1..Len(commits), b \in 1..Len(commits) :
            runs[r].head = h /\ runs[r].base = b /\ Synced(h, b)
      BY <2>3 DEF SyncedAt
    <3>2. Synced(h, b)' /\ h \in 1..Len(commits') /\ b \in 1..Len(commits')
      BY <1>0, <3>1, StaysSynced, SameCommit
    <3> QED BY <1>2, <3>1, <3>2 DEF SyncedAt
  <2>4. /\ contract.check = 2
        /\ \/ runs[r].kind = "ready" /\ ReadyAt(runs[r])
           \/ runs[r].kind = "update" /\ SyncedAt(runs[r])
    BY <1>1, <2>1 DEF RunsInv
  <2> QED BY <1>2, <2>2, <2>3, <2>4
<1>5. /\ runs'[r].kind \in {"validate", "ready", "update"}
      /\ runs'[r].step \in {"tests", "attest", "publish", "partial", "done", "failed"} \/ Active(r)'
      /\ runs'[r].step \in {"tests", "attest", "publish", "partial"} => runs'[r].kind = "validate"
  BY <1>1, <1>2 DEF RunsInv, Active
<1>6. ASSUME NEW j \in 1..Len(runs), j # r
      PROVE  /\ runs'[j].kind \in {"validate", "ready", "update"}
             /\ runs'[j].step \in {"tests", "attest", "publish", "partial", "done", "failed"} \/ Active(j)'
             /\ runs'[j].step \in {"tests", "attest", "publish", "partial"} => runs'[j].kind = "validate"
  BY <1>3, <1>6 DEF RunsInv, Active
<1>7. ASSUME NEW j \in 1..Len(runs')
      PROVE  /\ runs'[j].kind \in {"validate", "ready", "update"}
             /\ runs'[j].step \in {"tests", "attest", "publish", "partial", "done", "failed"} \/ Active(j)'
             /\ j < Len(runs') => Ended(j)'
             /\ runs'[j].step \in {"tests", "attest", "publish", "partial"} => runs'[j].kind = "validate"
             /\ Active(j)' => /\ contract'.check = 2
                              /\ \/ runs'[j].kind = "ready" /\ ReadyAt(runs[j])'
                                 \/ runs'[j].kind = "update" /\ SyncedAt(runs[j])'
  <2>1. CASE j = r
    BY <1>0, <1>1, <1>2, <1>4, <1>5, <2>1
  <2>2. CASE j # r
    BY <1>2, <1>3, <1>6, <2>2
  <2> QED BY <2>1, <2>2
<1> QED BY <1>7 DEF RunsInv

LEMMA RunStepKeeps ==
  ASSUME IInv, NEW r, NEW step, MovesTo(r, step),
         UNCHANGED <<repository, evidence, contract, deployments, sent>>,
         \/ step \in {"done", "failed"}
         \/ step \in {"attest", "publish"} /\ runs[r].step \in {"tests", "attest", "publish"}
         \/ step \in {"reread", "post"} /\ Active(r),
         step = "post" => runs[r].step = "post" \/
           \A i \in 1..Len(comments) : Standing(i) => comments[i].kind # Kind(r)
  PROVE  IInv'
<1>0. /\ Types /\ GraphInv /\ MergedInv /\ ChecksInv /\ RunsInv /\ RecordsInv /\ DeployInv
      /\ Len(runs) \in Nat /\ Len(commits) \in Nat /\ Len(sent) \in Nat
  BY Counts DEF IInv
<1>1. /\ commits' = commits /\ main' = main /\ sync' = sync /\ request' = request
      /\ checks' = checks /\ tests' = tests /\ comments' = comments /\ contract' = contract
      /\ deployments' = deployments /\ sent' = sent
  BY DEF repository, evidence
<1>2. Grows
  BY <1>0, <1>1, SameHistory
<1>3. /\ Len(runs') = Len(runs) /\ r \in 1..Len(runs)
      /\ \A j \in 1..Len(runs) : j # r => runs'[j] = runs[j]
      /\ runs'[r].step = step /\ runs'[r].kind = runs[r].kind
  BY DEF MovesTo, Replaces
<1>4. Types'
  BY <1>0, <1>1 DEF Types, MovesTo, Typed, CheckFields, TestFields, CommentFields, RunFields,
                    DeploymentFields, ContractFields
<1>5. GraphInv' /\ MergedInv'
  BY <1>0, <1>1, GraphKept, MergedKept
<1>6. NoNewPartial
  BY <1>0, <1>3 DEF NoNewPartial
<1>7. ChecksInv'
  BY <1>0, <1>1, <1>6, ChecksKept
<1>8. RunsInv'
  BY <1>0, <1>1, <1>2, RunMoves
<1>9. RecordsInv'
  <2>1. CASE step # "post" \/ runs[r].step = "post"
    <3>1. \A j \in 1..Len(runs') : runs'[j].step = "post" =>
            j \in 1..Len(runs) /\ runs[j].step = "post" /\ runs'[j].kind = runs[j].kind
      BY <1>3, <2>1
    <3> QED BY <1>0, <1>1, <1>2, <3>1, RecordsKept
  <2>2. CASE \A i \in 1..Len(comments) : Standing(i) => comments[i].kind # Kind(r)
    <3>1. \A i \in 1..Len(comments) : Standing(i)' <=> Standing(i)
      BY <1>1 DEF Standing
    <3>2. \A j \in 1..Len(runs') : runs'[j].step = "post" =>
            \A i \in 1..Len(comments) : Standing(i) => comments[i].kind # Kind(j)'
      BY <1>0, <1>3, <2>2 DEF RecordsInv, Kind
    <3>3. ASSUME NEW i \in 1..Len(comments), comments[i].bot
          PROVE  /\ contract'.check = 2
                 /\ \/ comments[i].kind = "v1" /\ ReadyAt(comments[i].record)'
                    \/ comments[i].kind = "v2" /\ SyncedAt(comments[i].record)'
      <4>1. ReadyAt(comments[i].record) => ReadyAt(comments[i].record)'
        <5>1. SUFFICES ASSUME NEW b \in 1..Len(commits), comments[i].record.base = b,
                              PublicationRepairMerge(b)
                       PROVE  ReadyAt(comments[i].record)'
          BY DEF ReadyAt
        <5>2. PublicationRepairMerge(b)' /\ b \in 1..Len(commits')
          BY <1>0, <1>2, <5>1, SameChain, SameCommit
        <5> QED BY <1>1, <5>1, <5>2 DEF ReadyAt
      <4>2. SyncedAt(comments[i].record) => SyncedAt(comments[i].record)'
        <5>1. SUFFICES ASSUME NEW h \in 1..Len(commits), NEW b \in 1..Len(commits),
                              comments[i].record.head = h, comments[i].record.base = b, Synced(h, b)
                       PROVE  SyncedAt(comments[i].record)'
          BY DEF SyncedAt
        <5>2. Synced(h, b)' /\ h \in 1..Len(commits') /\ b \in 1..Len(commits')
          BY <1>0, <1>2, <5>1, StaysSynced, SameCommit
        <5> QED BY <1>1, <5>1, <5>2 DEF SyncedAt
      <4> QED BY <1>0, <1>1, <3>3, <4>1, <4>2 DEF RecordsInv
    <3> QED BY <1>0, <1>1, <3>1, <3>2, <3>3 DEF RecordsInv
  <2> QED BY <2>1, <2>2
<1>10. DeployInv'
  BY <1>0, <1>1, <1>2, DeployKept, EvidenceStands
<1> QED BY <1>4, <1>5, <1>7, <1>8, <1>9, <1>10 DEF IInv
LEMMA GoesTo ==
  ASSUME Types, NEW r \in 1..Len(runs), NEW step, Goto(r, step), ~Ended(r)
  PROVE  MovesTo(r, step)
BY RunSteps DEF Types, MovesTo

LEMMA RunTestsKeeps ==
  ASSUME IInv, NEW r \in 1..Len(runs), RunTests(r)
  PROVE  IInv'
<1>1. ~Ended(r) /\ Goto(r, "attest") /\ runs[r].step = "tests"
  BY DEF RunTests, Ended
<1>2. MovesTo(r, "attest")
  BY <1>1, GoesTo DEF IInv
<1>3. UNCHANGED <<repository, evidence, contract, deployments, sent>>
  BY DEF RunTests
<1> QED BY <1>1, <1>2, <1>3, RunStepKeeps

LEMMA AttestKeeps ==
  ASSUME IInv, NEW r \in 1..Len(runs), Attest(r)
  PROVE  IInv'
<1>1. PICK step \in {"publish", "failed"} : Goto(r, step)
  BY DEF Attest
<1>2. ~Ended(r) /\ runs[r].step = "attest"
  BY DEF Attest, Ended
<1>3. MovesTo(r, step)
  BY <1>1, <1>2, GoesTo DEF IInv
<1>4. UNCHANGED <<repository, evidence, contract, deployments, sent>>
  BY DEF Attest
<1> QED BY <1>1, <1>2, <1>3, <1>4, RunStepKeeps

LEMMA RunFailsKeeps ==
  ASSUME IInv, NEW r \in 1..Len(runs), RunFails(r)
  PROVE  IInv'
<1>1. ~Ended(r) /\ Goto(r, "failed")
  BY DEF RunFails, Ended
<1>2. MovesTo(r, "failed")
  BY <1>1, GoesTo DEF IInv
<1>3. UNCHANGED <<repository, evidence, contract, deployments, sent>>
  BY DEF RunFails
<1> QED BY <1>2, <1>3, RunStepKeeps

LEMMA ReadReadyKeeps ==
  ASSUME IInv, NEW r \in 1..Len(runs), ReadReady(r)
  PROVE  IInv'
<1>1. ~Ended(r) /\ Active(r) /\ Types
  BY DEF ReadReady, Ended, Active, IInv
<1>2. PICK step \in {"reread", "failed"} : MovesTo(r, step)
  <2>1. CASE Goto(r, "failed")
    BY <1>1, <2>1, GoesTo
  <2>2. CASE runs' = [runs EXCEPT ![r].step = "reread", ![r].baseTests = MainRuns(runs[r].base)]
    <3>1. PICK a : a = MainRuns(runs[r].base)
      OBVIOUS
    <3>2. runs' = [runs EXCEPT ![r].step = "reread", ![r].baseTests = a]
      BY <2>2, <3>1, Zenon
    <3>3. MovesTo(r, "reread")
      BY ONLY <1>1, <3>2, RunReads, r \in 1..Len(runs) DEF Types, MovesTo
    <3> QED BY <3>3
  <2> QED BY <2>1, <2>2, Zenon DEF ReadReady
<1>3. UNCHANGED <<repository, evidence, contract, deployments, sent>>
  BY DEF ReadReady
<1> QED BY <1>1, <1>2, <1>3, RunStepKeeps

LEMMA ReadReadyAgainKeeps ==
  ASSUME IInv, NEW r \in 1..Len(runs), ReadReadyAgain(r)
  PROVE  IInv'
<1>1. ~Ended(r) /\ Active(r) /\ Types /\ RecordsInv /\ runs[r].kind = "ready"
  BY DEF ReadReadyAgain, Ended, Active, IInv
<1>2. PICK step \in {"post", "failed"} :
        /\ Goto(r, step)
        /\ step = "post" => Live("normal") \cup Live("v1") = {}
  BY DEF ReadReadyAgain
<1>3. MovesTo(r, step)
  BY <1>1, <1>2, GoesTo
<1>4. UNCHANGED <<repository, evidence, contract, deployments, sent>>
  BY DEF ReadReadyAgain
<1>5. ASSUME step = "post", NEW i \in 1..Len(comments), Standing(i)
      PROVE  comments[i].kind # Kind(r)
  <2>1. Live("v1") = {}
    BY <1>2, <1>5
  <2> QED BY <1>1, <1>5, <2>1 DEF Live, Kind, Standing
<1> QED BY <1>1, <1>2, <1>3, <1>4, <1>5, RunStepKeeps

LEMMA ReadUpdateKeeps ==
  ASSUME IInv, NEW r \in 1..Len(runs), ReadUpdate(r)
  PROVE  IInv'
<1>1. ~Ended(r) /\ Active(r) /\ Types
  BY DEF ReadUpdate, Ended, Active, IInv
<1>2. PICK step \in {"reread", "failed"} : MovesTo(r, step)
  <2>1. CASE Goto(r, "failed")
    BY <1>1, <2>1, GoesTo
  <2>2. CASE runs' = [runs EXCEPT ![r].step = "reread", ![r].baseTests = MainRuns(runs[r].base),
                                  ![r].headTest = Newest(runs[r].head)]
    <3>1. PICK a, b : a = MainRuns(runs[r].base) /\ b = Newest(runs[r].head)
      OBVIOUS
    <3>2. runs' = [runs EXCEPT ![r].step = "reread", ![r].baseTests = a, ![r].headTest = b]
      BY <2>2, <3>1, Zenon
    <3>3. Typed(runs, RunFields) /\ r \in 1..Len(runs)
      BY <1>1 DEF Types
    <3>4. /\ Replaces(runs, runs', r, RunFields) /\ Typed(runs, RunFields)'
          /\ runs'[r].step = "reread" /\ runs'[r].kind = runs[r].kind
          /\ runs'[r].base = runs[r].base /\ runs'[r].head = runs[r].head
      BY ONLY <3>2, <3>3, RunReadsTests, Zenon
    <3>5. MovesTo(r, "reread")
      BY <1>1, <3>4 DEF MovesTo
    <3> QED BY <3>5
  <2> QED BY <2>1, <2>2, Zenon DEF ReadUpdate
<1>3. UNCHANGED <<repository, evidence, contract, deployments, sent>>
  BY DEF ReadUpdate
<1> QED BY <1>1, <1>2, <1>3, RunStepKeeps

LEMMA ReadUpdateAgainKeeps ==
  ASSUME IInv, NEW r \in 1..Len(runs), ReadUpdateAgain(r)
  PROVE  IInv'
<1>1. ~Ended(r) /\ Active(r) /\ Types /\ RecordsInv /\ runs[r].kind = "update"
  BY DEF ReadUpdateAgain, Ended, Active, IInv
<1>2. PICK step \in {"post", "failed"} :
        /\ Goto(r, step)
        /\ step = "post" => NoCurrentRecord
  BY DEF ReadUpdateAgain
<1>3. MovesTo(r, step)
  BY <1>1, <1>2, GoesTo
<1>4. UNCHANGED <<repository, evidence, contract, deployments, sent>>
  BY DEF ReadUpdateAgain
<1>5. ASSUME step = "post", NEW i \in 1..Len(comments), Standing(i)
      PROVE  comments[i].kind # Kind(r)
  <2>1. Live("v2") = {}
    BY <1>2, <1>5 DEF NoCurrentRecord
  <2> QED BY <1>1, <1>5, <2>1 DEF Live, Kind, Standing
<1> QED BY <1>1, <1>2, <1>3, <1>4, <1>5, RunStepKeeps
(* A reviewed repair after the publication means that the check is fixed.  *)
LEMMA CheckIsFixed ==
  ASSUME ChecksInv, GraphInv, Len(commits) \in Nat, NEW c \in 1..Len(commits),
         PublicationRepairMerge(c) \/ SyncRepairMerge(c) \/ AssociationRepairMerge(c)
  PROVE  contract.check = 2
<1>1. ASSUME NEW d \in 1..Len(commits), DirectMerge(d, "publication") PROVE contract.check = 2
  <2>1. \E e \in 1..Len(commits) : commits[e].adds = "publication"
    BY <1>1, DirectAdds
  <2> QED BY <2>1 DEF ChecksInv
<1>2. ASSUME NEW d \in 1..Len(commits), SyncRepairMerge(d) PROVE contract.check = 2
  <2>1. Parents(d)[1] \in 1..Len(commits) /\ PublicationRepairMerge(Parents(d)[1])
    BY <1>2, DirectAdds DEF SyncRepairMerge
  <2> QED BY <1>1, <2>1 DEF PublicationRepairMerge
<1>3. ASSUME NEW d \in 1..Len(commits), AssociationRepairMerge(d) PROVE contract.check = 2
  <2>1. Parents(d)[1] \in 1..Len(commits) /\ SyncRepairMerge(Parents(d)[1])
    BY <1>3, DirectAdds DEF AssociationRepairMerge
  <2> QED BY <1>2, <2>1
<1> QED BY <1>1, <1>2, <1>3 DEF PublicationRepairMerge

LEMMA UpdateIsSynced ==
  ASSUME GraphInv, NEW h, NEW b, SyncUpdate(h, b)
  PROVE  Synced(h, b)
<1>1. PICK k : k = contract.prior
  OBVIOUS
<1>2. k \in 1..Len(commits)
  BY <1>1 DEF SyncUpdate, GraphInv, None
<1> QED BY <1>1, <1>2 DEF SyncUpdate, Synced

LEMMA DispatchKeeps ==
  ASSUME IInv, NEW kind \in {"validate", "ready", "update"}, Dispatch(kind)
  PROVE  IInv'
<1>0. /\ Types /\ GraphInv /\ MergedInv /\ ChecksInv /\ RunsInv /\ RecordsInv /\ DeployInv
      /\ Len(runs) \in Nat /\ Len(commits) \in Nat /\ Len(sent) \in Nat
  BY Counts DEF IInv
<1>1. /\ commits' = commits /\ main' = main /\ sync' = sync /\ request' = request
      /\ checks' = checks /\ tests' = tests /\ comments' = comments /\ contract' = contract
      /\ deployments' = deployments /\ sent' = sent
  BY DEF Dispatch, repository, evidence
<1>2. Grows
  BY <1>0, <1>1, SameHistory
<1>3. PICK e : /\ runs' = Append(runs, e) /\ DOMAIN e = RunFields
               /\ e.kind = kind /\ e.base = main /\ e.head = sync
               /\ e.step = IF ~Qualified(kind) THEN "failed"
                           ELSE IF kind = "validate" THEN "tests" ELSE "read"
  <2>1. PICK e : e = [kind |-> kind, base |-> main, head |-> sync, baseTests |-> {},
                      headTest |-> None, check |-> None,
                      step |-> IF ~Qualified(kind) THEN "failed"
                               ELSE IF kind = "validate" THEN "tests" ELSE "read"]
    OBVIOUS
  <2>2. runs' = Append(runs, e)
    BY <2>1, Zenon DEF Dispatch
  <2>3. DOMAIN e = RunFields
    BY <2>1 DEF RunFields
  <2>4. /\ e.kind = kind /\ e.base = main /\ e.head = sync
        /\ e.step = IF ~Qualified(kind) THEN "failed"
                    ELSE IF kind = "validate" THEN "tests" ELSE "read"
    BY <2>1, Zenon
  <2> QED BY <2>2, <2>3, <2>4
<1>4. PICK n : n = Len(runs) + 1
  OBVIOUS
<1>5. /\ Typed(runs', RunFields) /\ Len(runs') = n /\ runs'[n] = e
      /\ \A r \in 1..Len(runs) : runs'[r] = runs[r] /\ Ended(r)
  <2>1. Typed(runs, RunFields)
    BY <1>0 DEF Types
  <2>2. /\ Typed(runs', RunFields) /\ Len(runs') = n /\ runs'[n] = e
        /\ \A r \in 1..Len(runs) : runs'[r] = runs[r]
    <3>1. runs' = Append(runs, e) /\ DOMAIN e = RunFields
      BY <1>3
    <3>2. Typed(runs', RunFields) /\ Extends(runs, runs', e)
      BY ONLY <2>1, <3>1, OneAdded, Zenon
    <3> QED BY <1>4, <3>2 DEF Extends
  <2> QED BY <2>2 DEF Dispatch
<1>6. \A r \in 1..Len(runs') : r = n \/ r \in 1..Len(runs)
  BY <1>0, <1>4, <1>5
<1>7. Types'
  BY <1>0, <1>1, <1>5 DEF Types, Typed, CheckFields, TestFields, CommentFields, RunFields,
                           DeploymentFields, ContractFields
<1>8. GraphInv' /\ MergedInv'
  BY <1>0, <1>1, GraphKept, MergedKept
<1>9. e.step \in {"failed", "tests", "read"} /\ e.kind \in {"validate", "ready", "update"}
  BY <1>3
<1>10. NoNewPartial
  BY <1>0, <1>5, <1>6, <1>9 DEF NoNewPartial
<1>11. ChecksInv'
  BY <1>0, <1>1, <1>10, ChecksKept
<1>12. RunsInv'
  <2>1. ASSUME e.step = "read"
        PROVE  /\ contract'.check = 2
               /\ \/ e.kind = "ready" /\ ReadyAt(e)'
                  \/ e.kind = "update" /\ SyncedAt(e)'
    <3>1. Qualified(kind) /\ kind # "validate"
      BY <1>3, <2>1
    <3>2. main \in 1..Len(commits) /\ sync \in 1..Len(commits)
      BY <1>0 DEF GraphInv
    <3>3. CASE kind = "ready"
      <4>1. PublicationRepairMerge(main)
        BY <3>1, <3>3 DEF Qualified
      <4>2. contract.check = 2
        BY <1>0, <3>2, <4>1, CheckIsFixed
      <4>3. PICK b \in 1..Len(commits) : b = main /\ PublicationRepairMerge(b)
        BY <3>2, <4>1
      <4>4. PublicationRepairMerge(b)' /\ b \in 1..Len(commits')
        BY <1>0, <1>2, <4>3, SameChain, SameCommit
      <4>5. ReadyAt(e)'
        BY <1>3, <4>3, <4>4 DEF ReadyAt
      <4> QED BY <1>1, <1>3, <3>3, <4>2, <4>5
    <3>4. CASE kind = "update"
      <4>1. AssociationRepairMerge(main) /\ SyncUpdate(sync, main)
        BY <3>1, <3>4 DEF Qualified
      <4>2. contract.check = 2
        BY <1>0, <3>2, <4>1, CheckIsFixed
      <4>3. Synced(sync, main)
        BY <1>0, <4>1, UpdateIsSynced
      <4>4. PICK h \in 1..Len(commits), b \in 1..Len(commits) : h = sync /\ b = main /\ Synced(h, b)
        BY <3>2, <4>3
      <4>5. Synced(h, b)' /\ h \in 1..Len(commits') /\ b \in 1..Len(commits')
        BY <1>0, <1>2, <4>4, StaysSynced, SameCommit
      <4>6. SyncedAt(e)'
        BY <1>3, <4>4, <4>5 DEF SyncedAt
      <4> QED BY <1>1, <1>3, <3>4, <4>2, <4>6
    <3> QED BY <3>1, <3>3, <3>4
  <2>3. ASSUME NEW r \in 1..Len(runs)
        PROVE  /\ runs'[r] = runs[r] /\ Ended(r)' /\ ~Active(r)'
               /\ runs[r].kind \in {"validate", "ready", "update"}
               /\ runs[r].step \in {"tests", "attest", "publish", "partial"} => runs[r].kind = "validate"
    <3>1. runs'[r] = runs[r] /\ Ended(r)
      BY <1>5
    <3>2. Ended(r)' /\ ~Active(r)'
      BY <3>1 DEF Ended, Active
    <3> QED BY <1>0, <3>1, <3>2 DEF RunsInv
  <2>4. ASSUME NEW r \in 1..Len(runs')
        PROVE  /\ runs'[r].kind \in {"validate", "ready", "update"}
               /\ runs'[r].step \in {"tests", "attest", "publish", "partial", "done", "failed"} \/ Active(r)'
               /\ r < Len(runs') => Ended(r)'
               /\ runs'[r].step \in {"tests", "attest", "publish", "partial"} => runs'[r].kind = "validate"
               /\ Active(r)' => /\ contract'.check = 2
                                /\ \/ runs'[r].kind = "ready" /\ ReadyAt(runs[r])'
                                   \/ runs'[r].kind = "update" /\ SyncedAt(runs[r])'
    <3>1. CASE r = n
      <4>1. runs'[r] = e /\ ~(r < Len(runs'))
        BY <1>0, <1>4, <1>5, <3>1
      <4>2. e.step = "tests" => e.kind = "validate"
        BY <1>3
      <4>3. Active(r)' => e.step = "read"
        BY <1>9, <4>1 DEF Active
      <4>4. e.step = "read" => Active(r)'
        BY <4>1 DEF Active
      <4>5. ReadyAt(e)' => ReadyAt(runs[r])'
        BY <4>1 DEF ReadyAt
      <4>6. SyncedAt(e)' => SyncedAt(runs[r])'
        BY <4>1 DEF SyncedAt
      <4> QED BY <1>9, <2>1, <4>1, <4>2, <4>3, <4>4, <4>5, <4>6
    <3>2. CASE r \in 1..Len(runs)
      BY <2>3, <3>2 DEF Ended
    <3> QED BY <1>6, <3>1, <3>2
  <2> QED BY <2>4 DEF RunsInv
<1>13. RecordsInv'
  <2>1. \A j \in 1..Len(runs') : runs'[j].step = "post" =>
          j \in 1..Len(runs) /\ runs[j].step = "post" /\ runs'[j].kind = runs[j].kind
    BY <1>5, <1>6, <1>9
  <2> QED BY <1>0, <1>1, <1>2, <2>1, RecordsKept
<1>14. DeployInv'
  BY <1>0, <1>1, <1>2, DeployKept, EvidenceStands
<1> QED BY <1>7, <1>8, <1>11, <1>12, <1>13, <1>14 DEF IInv
(* Once any other check is listed, the historical one is not current: the  *)
(* last check is the newest of its suite.                                  *)
LEMMA LastIsLatest ==
  ASSUME Len(checks) \in Nat
  PROVE  Latest(Len(checks))
BY DEF Latest

LEMMA CurrentIsAlone ==
  ASSUME ChecksInv, Types, HistoricalIsCurrent
  PROVE  Len(checks) = 1
<1>0. Len(checks) \in Nat
  BY Counts
<1>1. SUFFICES ASSUME Len(checks) # 1 PROVE FALSE
  OBVIOUS
<1>2. Len(checks) \in 2..Len(checks)
  <2>1. 0 < Len(checks)
    BY DEF ChecksInv
  <2> QED BY <1>0, <1>1, <2>1
<1>3. PICK n : n = Len(checks)
  OBVIOUS
<1>4. n \in 2..Len(checks) /\ n \in 1..Len(checks)
  BY <1>0, <1>2, <1>3
<1>5. Before(n, 1)
  BY <1>0, <1>3, <1>4, LastIsLatest DEF HistoricalIsCurrent
<1>6. checks[n].status # "pending" /\ checks[n].done < 1 /\ checks[n].done \in Nat
  BY <1>4, <1>5 DEF Before, Completed, ChecksInv
<1> QED BY <1>4, <1>6 DEF ChecksInv

LEMMA PublishCheckKeeps ==
  ASSUME IInv, NEW r \in 1..Len(runs), PublishCheck(r)
  PROVE  IInv'
<1>0. /\ Types /\ GraphInv /\ MergedInv /\ ChecksInv /\ RunsInv /\ RecordsInv /\ DeployInv
      /\ Len(runs) \in Nat /\ Len(commits) \in Nat /\ Len(sent) \in Nat /\ Len(checks) \in Nat
  BY Counts DEF IInv
<1>1. ~Ended(r) /\ runs[r].step = "publish"
  BY DEF PublishCheck, Ended
<1>2. CASE Goto(r, "failed") /\ checks' = checks
  <2>1. MovesTo(r, "failed")
    BY <1>0, <1>1, <1>2, GoesTo
  <2>2. UNCHANGED <<repository, evidence, contract, deployments, sent>>
    BY <1>2 DEF PublishCheck, evidence
  <2> QED BY <2>1, <2>2, RunStepKeeps
<1>3. CASE /\ HistoricalIsCurrent /\ checks' = Append(checks, RecoveryCheck)
           /\ runs' = [runs EXCEPT ![r].step = "partial", ![r].check = Len(checks) + 1]
  <2>1. /\ commits' = commits /\ main' = main /\ sync' = sync /\ request' = request
        /\ tests' = tests /\ comments' = comments /\ contract' = contract
        /\ deployments' = deployments /\ sent' = sent
    BY DEF PublishCheck, repository
  <2>2. Grows
    BY <1>0, <2>1, SameHistory
  <2>3. Len(checks) = 1
    BY <1>0, <1>3, CurrentIsAlone
  <2>4. Latter = 1
    <3>1. Now = {1}
      BY <1>0, <2>3 DEF Now, ChecksInv
    <3> QED BY <3>1 DEF Latter
  <2>5. PICK e : /\ checks' = Append(checks, e) /\ DOMAIN e = CheckFields
                 /\ e.status = "success" /\ e.done = 2
    <3>1. PICK e : e = RecoveryCheck
      OBVIOUS
    <3>2. checks' = Append(checks, e)
      BY <1>3, <3>1
    <3>3. e = [suite |-> 2, status |-> "success", done |-> 2]
      BY <2>3, <2>4, <3>1 DEF RecoveryCheck
    <3>4. DOMAIN e = CheckFields /\ e.status = "success" /\ e.done = 2
      BY <3>3 DEF CheckFields
    <3> QED BY <3>2, <3>4
  <2>6. /\ Typed(checks', CheckFields) /\ Len(checks') = 2 /\ checks'[2] = e
        /\ checks'[1] = checks[1]
    <3>1. Typed(checks, CheckFields) /\ checks' = Append(checks, e) /\ DOMAIN e = CheckFields
      BY <1>0, <2>5 DEF Types
    <3>2. Typed(checks', CheckFields) /\ Extends(checks, checks', e)
      BY ONLY <3>1, OneAdded, Zenon
    <3> QED BY <2>3, <3>2 DEF Extends
  <2>7. PICK a : a = Len(checks) + 1
    OBVIOUS
  <2>8. runs' = [runs EXCEPT ![r].step = "partial", ![r].check = a]
    BY <1>3, <2>7, Zenon
  <2>9. /\ Replaces(runs, runs', r, RunFields) /\ Typed(runs, RunFields)'
        /\ runs'[r].step = "partial" /\ runs'[r].check = a /\ runs'[r].kind = runs[r].kind
        /\ runs'[r].base = runs[r].base /\ runs'[r].head = runs[r].head
    <3>1. Typed(runs, RunFields) /\ r \in 1..Len(runs)
      BY <1>0 DEF Types
    <3>2. /\ Replaces(runs, runs', r, RunFields) /\ Typed(runs, RunFields)'
          /\ runs'[r].step = "partial" /\ runs'[r].kind = runs[r].kind
          /\ runs'[r].base = runs[r].base /\ runs'[r].head = runs[r].head
      BY ONLY <2>8, <3>1, RunPublishes, Zenon
    <3>3. runs'[r].check \in {a}
      BY ONLY <2>8, <3>1, RunPublishes, Zenon
    <3> QED BY <3>2, <3>3
  <2>10. MovesTo(r, "partial") /\ runs'[r].check = 2
    BY <1>1, <2>3, <2>7, <2>9 DEF MovesTo
  <2>11. Types'
    BY <1>0, <2>1, <2>6, <2>10
       DEF Types, MovesTo, Typed, CheckFields, TestFields, CommentFields, RunFields,
           DeploymentFields, ContractFields
  <2>12. GraphInv' /\ MergedInv'
    BY <1>0, <2>1, GraphKept, MergedKept
  <2>13. ChecksInv'
    <3>1. ~Recovered
      BY <1>0, <2>3 DEF ChecksInv
    <3>2. contract.check = None /\ \A j \in 1..Len(runs) : runs[j].step # "partial"
      BY <1>0, <3>1 DEF ChecksInv, Recovered
    <3>3. \A j \in 1..Len(runs') : runs'[j].step = "partial" => runs'[j].check = 2
      BY <2>10, <3>2 DEF MovesTo, Replaces
    <3>4. \A i \in 1..Len(checks') : i = 1 \/ i = 2
      BY <2>6
    <3> QED BY <1>0, <2>1, <2>5, <2>6, <3>2, <3>3, <3>4 DEF ChecksInv
  <2>14. RunsInv'
    BY <1>0, <1>1, <2>1, <2>2, <2>10, RunMoves
  <2>15. RecordsInv'
    <3>1. \A j \in 1..Len(runs') : runs'[j].step = "post" =>
            j \in 1..Len(runs) /\ runs[j].step = "post" /\ runs'[j].kind = runs[j].kind
      BY <2>10 DEF MovesTo, Replaces
    <3> QED BY <1>0, <2>1, <2>2, <3>1, RecordsKept
  <2>16. DeployInv'
    BY <1>0, <2>1, <2>2, DeployKept, EvidenceStands
  <2> QED BY <2>11, <2>12, <2>13, <2>14, <2>15, <2>16 DEF IInv
<1> QED BY <1>2, <1>3, Zenon DEF PublishCheck

LEMMA PostReadyKeeps ==
  ASSUME IInv, NEW r \in 1..Len(runs), PostReady(r)
  PROVE  IInv'
<1>0. /\ Types /\ GraphInv /\ MergedInv /\ ChecksInv /\ RunsInv /\ RecordsInv /\ DeployInv
      /\ Len(runs) \in Nat /\ Len(commits) \in Nat /\ Len(sent) \in Nat /\ Len(comments) \in Nat
  BY Counts DEF IInv
<1>1. ~Ended(r) /\ Active(r) /\ runs[r].step = "post"
  BY DEF PostReady, Ended, Active
<1>2. PICK step \in {"done", "failed"} : Goto(r, step)
  BY DEF PostReady
<1>3. MovesTo(r, step)
  BY <1>0, <1>1, <1>2, GoesTo
<1>4. /\ commits' = commits /\ main' = main /\ sync' = sync /\ request' = request
      /\ checks' = checks /\ tests' = tests /\ contract' = contract
      /\ deployments' = deployments /\ sent' = sent
  BY DEF PostReady, repository
<1>5. Grows
  BY <1>0, <1>4, SameHistory
<1>6. PICK e : /\ comments' = Append(comments, e) /\ DOMAIN e = CommentFields
               /\ e.kind = Kind(r) /\ e.live = TRUE /\ e.bot = TRUE
               /\ e.record.base = runs[r].base /\ e.record.head = runs[r].head
  <2>1. PICK e : e = [kind |-> Kind(r), bot |-> TRUE, live |-> TRUE, record |-> RecordOf(r)]
    OBVIOUS
  <2>2. comments' = Append(comments, e)
    BY <2>1, Zenon DEF PostReady, Kind
  <2>3. DOMAIN e = CommentFields
    BY <2>1 DEF CommentFields
  <2>4. e.kind = Kind(r) /\ e.live = TRUE /\ e.bot = TRUE /\ e.record = RecordOf(r)
    BY <2>1, Zenon
  <2>5. RecordOf(r).base = runs[r].base /\ RecordOf(r).head = runs[r].head
    BY Zenon DEF RecordOf
  <2> QED BY <2>2, <2>3, <2>4, <2>5
<1>7. PICK n : n = Len(comments) + 1
  OBVIOUS
<1>8. /\ Typed(comments', CommentFields) /\ Len(comments') = n /\ comments'[n] = e
      /\ \A i \in 1..Len(comments) : comments'[i] = comments[i]
  <2>1. Typed(comments, CommentFields) /\ comments' = Append(comments, e) /\ DOMAIN e = CommentFields
    BY <1>0, <1>6 DEF Types
  <2>2. Typed(comments', CommentFields) /\ Extends(comments, comments', e)
    BY ONLY <2>1, OneAdded, Zenon
  <2> QED BY <1>7, <2>2 DEF Extends
<1>9. \A i \in 1..Len(comments') : i = n \/ i \in 1..Len(comments)
  BY <1>0, <1>7, <1>8
<1>10. Types'
  BY <1>0, <1>3, <1>4, <1>8 DEF Types, MovesTo, Typed, CheckFields, TestFields, CommentFields,
                                 RunFields, DeploymentFields, ContractFields
<1>11. GraphInv' /\ MergedInv'
  BY <1>0, <1>4, GraphKept, MergedKept
<1>12. /\ Len(runs') = Len(runs) /\ runs'[r].step = step
       /\ \A j \in 1..Len(runs) : j # r => runs'[j] = runs[j]
  BY <1>3 DEF MovesTo, Replaces
<1>13. ChecksInv'
  <2>1. NoNewPartial
    BY <1>0, <1>12 DEF NoNewPartial
  <2> QED BY <1>0, <1>4, <2>1, ChecksKept
<1>14. RunsInv'
  BY <1>0, <1>3, <1>4, <1>5, RunMoves
<1>15. RecordsInv'
  <2>1. \A j \in 1..Len(runs') : runs'[j].step # "post"
    <3>1. r = Len(runs)
      BY <1>0, <1>1, OneAtWork
    <3>2. \A j \in 1..Len(runs) : j # r => Ended(j)
      BY <1>0, <3>1 DEF RunsInv
    <3> QED BY <1>12, <3>2 DEF Ended
  <2>2. /\ contract.check = 2
        /\ \/ runs[r].kind = "ready" /\ ReadyAt(runs[r])
           \/ runs[r].kind = "update" /\ SyncedAt(runs[r])
    BY <1>0, <1>1 DEF RunsInv
  <2>3. ASSUME ReadyAt(runs[r]) PROVE ReadyAt(e.record)'
    <3>1. PICK b \in 1..Len(commits) : runs[r].base = b /\ PublicationRepairMerge(b)
      BY <2>3 DEF ReadyAt
    <3>2. PublicationRepairMerge(b)' /\ b \in 1..Len(commits')
      BY <1>0, <1>5, <3>1, SameChain, SameCommit
    <3> QED BY <1>6, <3>1, <3>2 DEF ReadyAt
  <2>4. ASSUME SyncedAt(runs[r]) PROVE SyncedAt(e.record)'
    <3>1. PICK h \in 1..Len(commits), b \in 1..Len(commits) :
            runs[r].head = h /\ runs[r].base = b /\ Synced(h, b)
      BY <2>4 DEF SyncedAt
    <3>2. Synced(h, b)' /\ h \in 1..Len(commits') /\ b \in 1..Len(commits')
      BY <1>0, <1>5, <3>1, StaysSynced, SameCommit
    <3> QED BY <1>6, <3>1, <3>2 DEF SyncedAt
  <2>5. ASSUME NEW i \in 1..Len(comments'), comments'[i].bot
        PROVE  /\ contract'.check = 2
               /\ \/ comments'[i].kind = "v1" /\ ReadyAt(comments[i].record)'
                  \/ comments'[i].kind = "v2" /\ SyncedAt(comments[i].record)'
    <3>1. CASE i = n
      <4>1. ReadyAt(e.record)' => ReadyAt(comments[i].record)'
        BY <1>8, <3>1 DEF ReadyAt
      <4>2. SyncedAt(e.record)' => SyncedAt(comments[i].record)'
        BY <1>8, <3>1 DEF SyncedAt
      <4>3. comments'[i].kind = Kind(r)
        BY <1>6, <1>8, <3>1
      <4> QED BY <1>4, <2>2, <2>3, <2>4, <4>1, <4>2, <4>3 DEF Kind
    <3>2. CASE i \in 1..Len(comments)
      <4>0. comments'[i] = comments[i]
        BY <1>8, <3>2
      <4>1. ReadyAt(comments[i].record) => ReadyAt(comments[i].record)'
        <5>1. SUFFICES ASSUME NEW b \in 1..Len(commits), comments[i].record.base = b,
                              PublicationRepairMerge(b)
                       PROVE  ReadyAt(comments[i].record)'
          BY DEF ReadyAt
        <5>2. PublicationRepairMerge(b)' /\ b \in 1..Len(commits')
          BY <1>0, <1>5, <5>1, SameChain, SameCommit
        <5> QED BY <4>0, <5>1, <5>2 DEF ReadyAt
      <4>2. SyncedAt(comments[i].record) => SyncedAt(comments[i].record)'
        <5>1. SUFFICES ASSUME NEW h \in 1..Len(commits), NEW b \in 1..Len(commits),
                              comments[i].record.head = h, comments[i].record.base = b, Synced(h, b)
                       PROVE  SyncedAt(comments[i].record)'
          BY DEF SyncedAt
        <5>2. Synced(h, b)' /\ h \in 1..Len(commits') /\ b \in 1..Len(commits')
          BY <1>0, <1>5, <5>1, StaysSynced, SameCommit
        <5> QED BY <4>0, <5>1, <5>2 DEF SyncedAt
      <4> QED BY <1>0, <1>4, <2>5, <3>2, <4>0, <4>1, <4>2 DEF RecordsInv
    <3> QED BY <1>9, <3>1, <3>2
  <2>6. \A i \in 1..Len(comments) : Standing(i) => comments[i].kind # Kind(r)
    BY <1>0, <1>1 DEF RecordsInv
  <2>7. \A i, j \in 1..Len(comments') :
          Standing(i)' /\ Standing(j)' /\ comments'[i].kind = comments'[j].kind => i = j
    BY <1>0, <1>6, <1>8, <1>9, <2>6 DEF RecordsInv, Standing
  <2> QED BY <2>1, <2>5, <2>7 DEF RecordsInv
<1>16. DeployInv'
  BY <1>0, <1>4, <1>5, DeployKept, EvidenceStands
<1> QED BY <1>10, <1>11, <1>13, <1>14, <1>15, <1>16 DEF IInv

LEMMA RecoveryKeeps ==
  ASSUME IInv, NEW r \in 1..Len(runs), Recovery(r)
  PROVE  IInv'
BY RunTestsKeeps, AttestKeeps, PublishCheckKeeps, ReadReadyKeeps, ReadReadyAgainKeeps,
   ReadUpdateKeeps, ReadUpdateAgainKeeps, PostReadyKeeps, RunFailsKeeps DEF Recovery
-----------------------------------------------------------------------------
(* Checks, tests and comments.                                             *)
LEMMA MaxExists ==
  ASSUME NEW n \in Nat, NEW S \in SUBSET (0..n), S # {}
  PROVE  \E m \in S : \A j \in S : j <= m
<1> DEFINE Has(k) == \A X \in SUBSET (0..k) : X # {} => \E m \in X : \A j \in X : j <= m
           T == {k \in Nat : Has(k)}
<1>1. Has(0)
  <2>1. SUFFICES ASSUME NEW X \in SUBSET (0..0), X # {}
                 PROVE  \E m \in X : \A j \in X : j <= m
    OBVIOUS
  <2>2. PICK m \in X : TRUE
    BY <2>1
  <2>3. m = 0 /\ \A j \in X : j = 0
    OBVIOUS
  <2> QED BY <2>2, <2>3
<1>2. ASSUME NEW k \in Nat, Has(k) PROVE Has(k + 1)
  <2>1. SUFFICES ASSUME NEW X \in SUBSET (0..(k + 1)), X # {}
                 PROVE  \E m \in X : \A j \in X : j <= m
    OBVIOUS
  <2>2. CASE k + 1 \in X
    BY <2>2
  <2>3. CASE k + 1 \notin X
    <3>1. X \in SUBSET (0..k)
      BY <2>3
    <3> QED BY <1>2, <2>1, <3>1
  <2> QED BY <2>2, <2>3
<1> HIDE DEF Has
<1>3. \A k \in Nat : k \in T => k + 1 \in T
  BY <1>2
<1>4. 0 \in T
  BY <1>1
<1>5. Nat \subseteq T
  <2> HIDE DEF T
  <2> QED BY <1>3, <1>4, NatSetInduction
<1>6. Has(n)
  BY <1>5
<1> QED BY <1>6 DEF Has

LEMMA LatterIsLast ==
  ASSUME ChecksInv, Len(checks) \in Nat
  PROVE  Latter \in Nat /\ \A i \in 1..Len(checks) : checks[i].done <= Latter
<1> DEFINE Bounded(k) == k <= Len(checks) =>
             \E b \in Nat : \A i \in 1..k : checks[i].done <= b
           T == {k \in Nat : Bounded(k)}
<1>0. \A i \in 1..Len(checks) : checks[i].done \in Nat
  BY DEF ChecksInv
<1>1. Bounded(0)
  OBVIOUS
<1>2. ASSUME NEW k \in Nat, Bounded(k) PROVE Bounded(k + 1)
  <2>1. SUFFICES ASSUME k + 1 <= Len(checks)
                 PROVE  \E b \in Nat : \A i \in 1..(k + 1) : checks[i].done <= b
    OBVIOUS
  <2>0. k <= Len(checks)
    BY <2>1
  <2>2. PICK b \in Nat : \A i \in 1..k : checks[i].done <= b
    BY <1>2, <2>0, Zenon
  <2>3. PICK e \in Nat : e = checks[k + 1].done
    BY <1>0, <2>1
  <2>4. PICK c \in Nat : b <= c /\ e <= c
    <3>1. CASE b <= e
      BY <3>1
    <3>2. CASE e <= b
      BY <3>2
    <3> QED BY <3>1, <3>2
  <2>5. \A i \in 1..(k + 1) : checks[i].done <= c
    <3>1. ASSUME NEW i \in 1..(k + 1) PROVE checks[i].done <= c
      <4>1. CASE i = k + 1
        BY <2>3, <2>4, <4>1
      <4>2. CASE i \in 1..k
        <5>1. checks[i].done \in Nat
          BY <1>0, <2>1, <4>2
        <5> QED BY <2>2, <2>4, <4>2, <5>1
      <4> QED BY <3>1, <4>1, <4>2
    <3> QED BY <3>1
  <2> QED BY <2>5
<1> HIDE DEF Bounded
<1>3. \A k \in Nat : k \in T => k + 1 \in T
  BY <1>2
<1>4. 0 \in T
  BY <1>1
<1>5. Nat \subseteq T
  <2> HIDE DEF T
  <2> QED BY <1>3, <1>4, NatSetInduction
<1>6. Bounded(Len(checks))
  BY <1>5
<1>7. PICK b \in Nat : \A i \in 1..Len(checks) : checks[i].done <= b
  BY <1>6 DEF Bounded
<1>8. Now \in SUBSET (0..b)
  BY <1>0, <1>7 DEF Now
<1>9. 0 < Len(checks)
  BY DEF ChecksInv
<1>10. Now # {}
  <2>1. 1 \in 1..Len(checks)
    BY <1>9
  <2>2. checks[1].done \in Now
    BY <2>1, Zenon DEF Now
  <2> QED BY <2>2, Zenon
<1>11. \E t \in Now : \A u \in Now : u <= t
  BY <1>8, <1>10, MaxExists
<1>12. Latter \in Now /\ \A u \in Now : u <= Latter
  BY <1>11, Zenon DEF Latter
<1>13. \A i \in 1..Len(checks) : checks[i].done \in Now
  BY DEF Now
<1>14. Latter \in Nat
  BY <1>8, <1>12
<1>15. \A i \in 1..Len(checks) : checks[i].done <= Latter
  BY <1>12, <1>13, Zenon
<1> QED BY <1>14, <1>15

(* What no step of this kind touches.                                      *)
Aside == commits' = commits /\ main' = main /\ sync' = sync /\ request' = request
         /\ contract' = contract /\ runs' = runs /\ deployments' = deployments /\ sent' = sent
LEMMA AsideKeeps ==
  ASSUME IInv, Aside, TestsKept, ChecksInv', RecordsInv',
         Typed(checks, CheckFields)', Typed(tests, TestFields)', Typed(comments, CommentFields)'
  PROVE  IInv'
<1>0. /\ Types /\ GraphInv /\ MergedInv /\ RunsInv /\ DeployInv
      /\ Len(runs) \in Nat /\ Len(commits) \in Nat /\ Len(sent) \in Nat
  BY Counts DEF IInv
<1>1. Grows
  BY <1>0, SameHistory DEF Aside
<1>2. Types'
  BY <1>0 DEF Types, Aside, Typed, CheckFields, TestFields, CommentFields, RunFields,
              DeploymentFields, ContractFields
<1>3. GraphInv' /\ MergedInv'
  BY <1>0, GraphKept, MergedKept DEF Aside
<1>4. RunsInv'
  BY <1>0, <1>1, RunsKept DEF Aside
<1>5. DeployInv'
  BY <1>0, <1>1, DeployKept DEF Aside
<1> QED BY <1>2, <1>3, <1>4, <1>5 DEF IInv

LEMMA CommentsUntouched ==
  ASSUME IInv, Aside, comments' = comments
  PROVE  RecordsInv' /\ Typed(comments, CommentFields)'
<1>0. Types /\ GraphInv /\ RecordsInv /\ Len(commits) \in Nat
  BY Counts DEF IInv
<1>1. Grows
  BY <1>0, SameHistory DEF Aside
<1>2. RecordsInv'
  BY <1>0, <1>1, RecordsKept DEF Aside
<1> QED BY <1>0, <1>2 DEF Types, Typed, CommentFields

LEMMA ChecksUntouched ==
  ASSUME IInv, Aside, checks' = checks
  PROVE  ChecksInv' /\ Typed(checks, CheckFields)'
<1>0. Types /\ ChecksInv /\ Len(runs) \in Nat
  BY Counts DEF IInv
<1>1. NoNewPartial
  BY <1>0 DEF NoNewPartial, Aside
<1>2. ChecksInv'
  BY <1>0, <1>1, ChecksKept DEF Aside
<1> QED BY <1>0, <1>2 DEF Types, Typed, CheckFields

LEMMA TestsUntouched ==
  ASSUME Types, tests' = tests
  PROVE  Typed(tests, TestFields)' /\ TestsKept
BY DEF Types, Typed, TestFields, TestsKept

(* Whatever is listed later than the two first checks ends after them.     *)
LEMMA ChecksAfter ==
  ASSUME ChecksInv, Len(checks) \in Nat, commits' = commits, contract' = contract, runs' = runs,
         Len(checks') \in Nat, Len(checks) <= Len(checks'),
         \A i \in 1..Len(checks') :
           \/ i \in 1..Len(checks) /\ checks'[i] = checks[i]
           \/ /\ 1 < i /\ (i = 2 => ~Recovered) /\ checks'[i].done \in Nat
              /\ \/ checks'[i].status = "pending"
                 \/ \A j \in 1..Len(checks) : checks[j].done <= checks'[i].done
  PROVE  ChecksInv'
<1>1. Recovered' <=> Recovered
  BY DEF Recovered
<1>2. 0 < Len(checks) /\ checks[1].done = 1 /\ checks'[1] = checks[1]
  BY DEF ChecksInv
<1>3. ASSUME NEW i \in 1..Len(checks') PROVE checks'[i].done \in Nat
  BY <1>3 DEF ChecksInv
<1>4. ASSUME NEW i \in 2..Len(checks') PROVE checks'[i].status = "pending" \/ checks'[i].done > 0
  <2>1. CASE i \in 1..Len(checks) /\ checks'[i] = checks[i]
    BY <2>1 DEF ChecksInv
  <2>2. CASE \A j \in 1..Len(checks) : checks[j].done <= checks'[i].done
    <3>1. 1 <= checks'[i].done
      BY <1>2, <2>2
    <3> QED BY <1>3, <3>1
  <2> QED BY <2>1, <2>2
<1>5. ASSUME Recovered
      PROVE  /\ 1 < Len(checks') /\ checks'[2].status = "success" /\ checks'[2].done > 1
             /\ \A i \in 3..Len(checks') :
                  checks'[i].status = "pending" \/ checks'[i].done >= checks'[2].done
  <2>1. /\ 1 < Len(checks) /\ checks[2].status = "success" /\ checks[2].done > 1
        /\ \A i \in 3..Len(checks) :
             checks[i].status = "pending" \/ checks[i].done >= checks[2].done
        /\ checks[2].done \in Nat
    BY <1>5 DEF ChecksInv
  <2>2. checks'[2] = checks[2]
    BY <1>5, <2>1
  <2>3. ASSUME NEW i \in 3..Len(checks')
        PROVE  checks'[i].status = "pending" \/ checks'[i].done >= checks[2].done
    <3>1. CASE i \in 1..Len(checks) /\ checks'[i] = checks[i]
      BY <2>1, <3>1
    <3>2. CASE \A j \in 1..Len(checks) : checks[j].done <= checks'[i].done
      <4>1. checks[2].done <= checks'[i].done /\ checks'[i].done \in Nat
        BY <1>3, <2>1, <3>2
      <4> QED BY <2>1, <4>1
    <3> QED BY <3>1, <3>2
  <2> QED BY <2>1, <2>2, <2>3
<1>6. 0 < Len(checks') /\ checks'[1] = [suite |-> 1, status |-> "failure", done |-> 1]
  BY <1>2 DEF ChecksInv
<1>7. /\ contract.check \in {None, 2}
      /\ \A r \in 1..Len(runs) : runs[r].step = "partial" => runs[r].check = 2
      /\ \A c \in 1..Len(commits) : commits[c].adds = "publication" => contract.check = 2
  BY DEF ChecksInv
<1> QED BY <1>1, <1>3, <1>4, <1>5, <1>6, <1>7 DEF ChecksInv

LEMMA CheckAgainKeeps ==
  ASSUME IInv, CheckAgain
  PROVE  IInv'
<1>0. Types /\ ChecksInv /\ Len(checks) \in Nat
  BY Counts DEF IInv
<1>1. Aside /\ tests' = tests /\ comments' = comments
  BY DEF CheckAgain, Aside, repository
<1>2. PICK e : /\ checks' = Append(checks, e) /\ DOMAIN e = CheckFields
               /\ e.status = "pending" /\ e.done = 0
  <2>1. PICK suite : checks' = Append(checks, [suite |-> suite, status |-> "pending", done |-> 0])
    BY DEF CheckAgain
  <2>2. PICK e : e = [suite |-> suite, status |-> "pending", done |-> 0]
    OBVIOUS
  <2>3. checks' = Append(checks, e)
    BY <2>1, <2>2
  <2>4. DOMAIN e = CheckFields /\ e.status = "pending" /\ e.done = 0
    BY <2>2 DEF CheckFields
  <2> QED BY <2>3, <2>4
<1>3. Typed(checks', CheckFields) /\ Extends(checks, checks', e)
  <2>1. Typed(checks, CheckFields) /\ checks' = Append(checks, e) /\ DOMAIN e = CheckFields
    BY <1>0, <1>2 DEF Types
  <2> QED BY ONLY <2>1, OneAdded, Zenon
<1>4. ChecksInv'
  <2>1. 0 < Len(checks) /\ (Recovered => 1 < Len(checks))
    BY <1>0 DEF ChecksInv
  <2>2. ASSUME NEW i \in 1..Len(checks')
        PROVE  \/ i \in 1..Len(checks) /\ checks'[i] = checks[i]
               \/ /\ 1 < i /\ (i = 2 => ~Recovered) /\ checks'[i].done \in Nat
                  /\ checks'[i].status = "pending"
    <3>1. CASE i \in 1..Len(checks)
      BY <1>3, <3>1 DEF Extends
    <3>2. CASE i = Len(checks) + 1
      BY <1>0, <1>2, <1>3, <2>1, <3>2 DEF Extends
    <3> QED BY <1>0, <1>3, <3>1, <3>2 DEF Extends
  <2>3. Len(checks') \in Nat /\ Len(checks) <= Len(checks')
    BY <1>0, <1>3 DEF Extends
  <2>4. commits' = commits /\ contract' = contract /\ runs' = runs
    BY <1>1 DEF Aside
  <2> QED BY <1>0, <2>2, <2>3, <2>4, ChecksAfter
<1>5. Typed(checks, CheckFields)'
  BY <1>3 DEF Typed, CheckFields
<1> QED BY <1>0, <1>1, <1>4, <1>5, AsideKeeps, CommentsUntouched, TestsUntouched

LEMMA CheckEndsKeeps ==
  ASSUME IInv, NEW i \in 1..Len(checks), CheckEnds(i)
  PROVE  IInv'
<1>0. Types /\ ChecksInv /\ Len(checks) \in Nat
  BY Counts DEF IInv
<1>1. Aside /\ tests' = tests /\ comments' = comments
  BY DEF CheckEnds, Aside, repository
<1>2. PICK t \in {Latter, Latter + 1} :
        checks' = [checks EXCEPT ![i] = [@ EXCEPT !.status = "failure", !.done = t]]
  BY DEF CheckEnds
<1>3. t \in Nat /\ \A j \in 1..Len(checks) : checks[j].done <= t
  <2>1. PICK u : u = Latter
    OBVIOUS
  <2>2. u \in Nat /\ \A j \in 1..Len(checks) : checks[j].done <= u /\ checks[j].done \in Nat
    BY <1>0, <2>1, LatterIsLast DEF ChecksInv
  <2>3. t = u \/ t = u + 1
    BY <2>1
  <2> QED BY <2>2, <2>3
<1>4. /\ Replaces(checks, checks', i, CheckFields) /\ Typed(checks, CheckFields)'
      /\ checks'[i].done \in {t}
  <2>1. Typed(checks, CheckFields) /\ i \in 1..Len(checks)
    BY <1>0 DEF Types
  <2>2. Replaces(checks, checks', i, CheckFields) /\ Typed(checks, CheckFields)'
    BY ONLY <1>2, <2>1, CheckSet, Zenon
  <2>3. checks'[i].done \in {t}
    BY ONLY <1>2, <2>1, CheckSet, Zenon
  <2> QED BY <2>2, <2>3
<1>5. ChecksInv'
  <2>1. checks[i].status = "pending"
    BY DEF CheckEnds
  <2>2. i # 1
    <3>1. checks[1].status = "failure"
      BY <1>0 DEF ChecksInv
    <3> QED BY <2>1, <3>1
  <2>3. i = 2 => ~Recovered
    BY <1>0, <2>1 DEF ChecksInv
  <2>4. ASSUME NEW j \in 1..Len(checks')
        PROVE  \/ j \in 1..Len(checks) /\ checks'[j] = checks[j]
               \/ /\ 1 < j /\ (j = 2 => ~Recovered) /\ checks'[j].done \in Nat
                  /\ \A k \in 1..Len(checks) : checks[k].done <= checks'[j].done
    <3>1. CASE j = i
      BY <1>3, <1>4, <2>2, <2>3, <3>1
    <3>2. CASE j # i
      BY <1>4, <3>2 DEF Replaces
    <3> QED BY <3>1, <3>2
  <2>5. Len(checks') \in Nat /\ Len(checks) <= Len(checks')
    BY <1>0, <1>4 DEF Replaces
  <2>6. commits' = commits /\ contract' = contract /\ runs' = runs
    BY <1>1 DEF Aside
  <2> QED BY <1>0, <2>4, <2>5, <2>6, ChecksAfter
<1> QED BY <1>0, <1>1, <1>4, <1>5, AsideKeeps, CommentsUntouched, TestsUntouched
LEMMA TestedKeeps ==
  ASSUME Types, NEW c, NEW status, Tested(c, status)
  PROVE  Typed(tests, TestFields)' /\ TestsKept
<1>1. PICK e : e = [commit |-> c, status |-> status]
  OBVIOUS
<1>2. Typed(tests, TestFields) /\ tests' = Append(tests, e) /\ DOMAIN e = TestFields
  BY <1>1 DEF Types, Tested, TestFields
<1>3. Typed(tests', TestFields) /\ Extends(tests, tests', e)
  BY ONLY <1>2, OneAdded, Zenon
<1>4. Typed(tests, TestFields)'
  BY <1>3 DEF Typed, TestFields
<1> QED BY <1>3, <1>4 DEF Extends, TestsKept

LEMMA TestAgainKeeps ==
  ASSUME IInv, NEW i \in 1..Len(tests), TestAgain(i)
  PROVE  IInv'
<1>0. Types /\ Aside /\ checks' = checks /\ comments' = comments
  BY DEF TestAgain, Aside, repository, IInv
<1>1. PICK c : Tested(c, "pending")
  BY DEF TestAgain
<1> QED BY <1>0, <1>1, TestedKeeps, AsideKeeps, CommentsUntouched, ChecksUntouched

LEMMA TestEndsKeeps ==
  ASSUME IInv, NEW i \in 1..Len(tests), TestEnds(i)
  PROVE  IInv'
<1>0. Types /\ Aside /\ checks' = checks /\ comments' = comments
  BY DEF TestEnds, Aside, repository, IInv
<1>1. PICK status : tests' = [tests EXCEPT ![i].status = status]
  BY DEF TestEnds
<1>2. Typed(tests, TestFields) /\ i \in 1..Len(tests)
  BY <1>0 DEF Types
<1>3. /\ Replaces(tests, tests', i, TestFields) /\ Typed(tests, TestFields)'
  BY ONLY <1>1, <1>2, TestSet, Zenon
<1>4. TestsKept
  <2>1. tests[i].status = "pending"
    BY DEF TestEnds
  <2> QED BY <1>3, <2>1 DEF TestsKept, Replaces
<1> QED BY <1>0, <1>3, <1>4, AsideKeeps, CommentsUntouched, ChecksUntouched

(* The comments of the workflow are as they were, or hidden.               *)
LEMMA CommentsFade ==
  ASSUME IInv, Aside,
         \A i \in 1..Len(comments') : comments'[i].bot =>
           /\ i \in 1..Len(comments) /\ comments[i].bot
           /\ comments'[i].live => comments[i].live
           /\ comments'[i].kind = comments[i].kind /\ comments'[i].record = comments[i].record
  PROVE  RecordsInv'
<1>0. Types /\ GraphInv /\ RecordsInv /\ Len(commits) \in Nat
  BY Counts DEF IInv
<1>1. Grows
  BY <1>0, SameHistory DEF Aside
<1>2. \A i \in 1..Len(comments') : Standing(i)' =>
        i \in 1..Len(comments) /\ Standing(i) /\ comments'[i].kind = comments[i].kind
  BY DEF Standing
<1>3. ASSUME NEW i \in 1..Len(comments'), comments'[i].bot
      PROVE  /\ contract'.check = 2
             /\ \/ comments'[i].kind = "v1" /\ ReadyAt(comments[i].record)'
                \/ comments'[i].kind = "v2" /\ SyncedAt(comments[i].record)'
  <2>1. /\ i \in 1..Len(comments) /\ comments[i].bot
        /\ comments'[i].kind = comments[i].kind /\ comments'[i].record = comments[i].record
    BY <1>3
  <2>2. ASSUME ReadyAt(comments[i].record) PROVE ReadyAt(comments[i].record)'
    <3>1. PICK b \in 1..Len(commits) : comments[i].record.base = b /\ PublicationRepairMerge(b)
      BY <2>2 DEF ReadyAt
    <3>2. PublicationRepairMerge(b)' /\ b \in 1..Len(commits')
      BY <1>0, <1>1, <3>1, SameChain, SameCommit
    <3> QED BY <2>1, <3>1, <3>2 DEF ReadyAt
  <2>3. ASSUME SyncedAt(comments[i].record) PROVE SyncedAt(comments[i].record)'
    <3>1. PICK h \in 1..Len(commits), b \in 1..Len(commits) :
            comments[i].record.head = h /\ comments[i].record.base = b /\ Synced(h, b)
      BY <2>3 DEF SyncedAt
    <3>2. Synced(h, b)' /\ h \in 1..Len(commits') /\ b \in 1..Len(commits')
      BY <1>0, <1>1, <3>1, StaysSynced, SameCommit
    <3> QED BY <2>1, <3>1, <3>2 DEF SyncedAt
  <2>4. /\ contract.check = 2
        /\ \/ comments[i].kind = "v1" /\ ReadyAt(comments[i].record)
           \/ comments[i].kind = "v2" /\ SyncedAt(comments[i].record)
    BY <1>0, <2>1 DEF RecordsInv
  <2> QED BY <2>1, <2>2, <2>3, <2>4 DEF Aside
<1>4. \A i, j \in 1..Len(comments') :
        Standing(i)' /\ Standing(j)' /\ comments'[i].kind = comments'[j].kind => i = j
  BY <1>0, <1>2 DEF RecordsInv
<1>5. \A r \in 1..Len(runs') : runs'[r].step = "post" =>
        \A i \in 1..Len(comments') : Standing(i)' => comments'[i].kind # Kind(r)'
  BY <1>0, <1>2 DEF RecordsInv, Kind, Aside
<1> QED BY <1>3, <1>4, <1>5 DEF RecordsInv

LEMMA CommentsChangeKeeps ==
  ASSUME IInv, CommentsChange
  PROVE  IInv'
<1>0. Types /\ Aside /\ checks' = checks /\ tests' = tests /\ Len(comments) \in Nat
  BY Counts DEF CommentsChange, Aside, repository, IInv
<1>1. Typed(comments, CommentFields)
  BY <1>0 DEF Types
<1>2. ASSUME NEW e, comments' = Append(comments, e), DOMAIN e = CommentFields, e.bot = FALSE
      PROVE  RecordsInv' /\ Typed(comments, CommentFields)'
  <2>1. comments' = Append(comments, e) /\ DOMAIN e = CommentFields
    BY <1>2
  <2>2. Typed(comments', CommentFields) /\ Extends(comments, comments', e)
    BY ONLY <1>1, <2>1, OneAdded, Zenon
  <2>3. Typed(comments, CommentFields)'
    BY <2>2 DEF Typed, CommentFields
  <2>4. ASSUME NEW i \in 1..Len(comments'), comments'[i].bot
        PROVE  i \in 1..Len(comments) /\ comments'[i] = comments[i]
    <3>1. i # Len(comments) + 1
      BY <1>2, <2>2, <2>4 DEF Extends
    <3> QED BY <1>0, <2>2, <3>1 DEF Extends
  <2>5. RecordsInv'
    BY <1>0, <2>4, CommentsFade
  <2> QED BY <2>3, <2>5
<1>3. ASSUME NEW i \in 1..Len(comments), comments' = [comments EXCEPT ![i].live = FALSE]
      PROVE  RecordsInv' /\ Typed(comments, CommentFields)'
  <2>1. comments' = [comments EXCEPT ![i].live = FALSE] /\ i \in 1..Len(comments)
    BY <1>3
  <2>2. /\ Replaces(comments, comments', i, CommentFields) /\ Typed(comments, CommentFields)'
    BY ONLY <1>1, <2>1, CommentHidden, Zenon
  <2>3. /\ comments'[i].kind \in {comments[i].kind} /\ comments'[i].bot \in {comments[i].bot}
        /\ comments'[i].record \in {comments[i].record} /\ comments'[i].live = FALSE
    BY ONLY <1>1, <2>1, CommentHidden, Zenon
  <2>4. ASSUME NEW j \in 1..Len(comments'), comments'[j].bot
        PROVE  /\ j \in 1..Len(comments) /\ comments[j].bot
               /\ comments'[j].live => comments[j].live
               /\ comments'[j].kind = comments[j].kind /\ comments'[j].record = comments[j].record
    <3>1. CASE j = i
      <4>1. comments[i].bot
        BY <2>3, <2>4, <3>1, Zenon
      <4> QED BY <2>3, <3>1, <4>1
    <3>2. CASE j # i
      <4>1. j \in 1..Len(comments) /\ comments'[j] = comments[j]
        BY <2>2, <3>2 DEF Replaces
      <4> QED BY <2>4, <4>1, Zenon
    <3> QED BY <3>1, <3>2
  <2>5. RecordsInv'
    BY <1>0, <2>4, CommentsFade
  <2> QED BY <2>2, <2>5
<1>4. RecordsInv' /\ Typed(comments, CommentFields)'
  <2>1. CASE \E kind \in {"normal", "v1", "v2"} :
          comments' = Append(comments, [kind |-> kind, bot |-> FALSE, live |-> TRUE,
                                        record |-> NoRecord])
    <3>1. PICK kind : comments' = Append(comments, [kind |-> kind, bot |-> FALSE, live |-> TRUE,
                                                    record |-> NoRecord])
      BY <2>1
    <3>2. PICK e : e = [kind |-> kind, bot |-> FALSE, live |-> TRUE, record |-> NoRecord]
      OBVIOUS
    <3>3. comments' = Append(comments, e) /\ DOMAIN e = CommentFields /\ e.bot = FALSE
      BY <3>1, <3>2 DEF CommentFields
    <3> QED BY <1>2, <3>3
  <2>2. CASE \E i \in 1..Len(comments) :
          comments[i].live /\ comments' = [comments EXCEPT ![i].live = FALSE]
    BY <1>3, <2>2, Zenon
  <2> QED BY <2>1, <2>2, Zenon DEF CommentsChange
<1> QED BY <1>0, <1>4, AsideKeeps, TestsUntouched, ChecksUntouched

LEMMA ExpireKeeps ==
  ASSUME IInv, Expire
  PROVE  IInv'
<1>0. Types /\ Aside /\ checks' = checks /\ tests' = tests /\ comments' = comments
  BY DEF Expire, Aside, repository, IInv
<1> QED BY <1>0, AsideKeeps, TestsUntouched, ChecksUntouched, CommentsUntouched

LEMMA GitHubKeeps ==
  ASSUME IInv, GitHub
  PROVE  IInv'
BY CheckAgainKeeps, CheckEndsKeeps, TestAgainKeeps, TestEndsKeeps, CommentsChangeKeeps,
   ExpireKeeps DEF GitHub
-----------------------------------------------------------------------------
(* The repository.                                                         *)
LEMMA GraphExtended ==
  ASSUME GraphInv, Grows, Len(commits) \in Nat,
         \A c \in (Len(commits) + 1)..Len(commits') :
           /\ \A i \in 1..Len(Parents(c)') : Parents(c)'[i] \in 1..(c - 1)
           /\ Tree(c)' \subseteq 1..c,
         main' \in 1..Len(commits'), sync' \in 1..Len(commits'), Release \in Tree(sync)',
         contract'.prior \in 0..Len(commits')
  PROVE  GraphInv'
<1>1. ASSUME NEW c \in 1..Len(commits')
      PROVE  /\ \A i \in 1..Len(Parents(c)') : Parents(c)'[i] \in 1..(c - 1)
             /\ Tree(c)' \subseteq 1..c
  <2>1. CASE c \in 1..Len(commits)
    <3>1. Parents(c)' = Parents(c) /\ Tree(c)' = Tree(c)
      BY <2>1, SameCommit
    <3> QED BY <2>1, <3>1 DEF GraphInv
  <2>2. CASE c \in (Len(commits) + 1)..Len(commits')
    BY <2>2
  <2> QED BY <2>1, <2>2 DEF Grows
<1>2. Source \in 1..Len(commits) /\ Release \in 1..Len(commits)
  BY DEF GraphInv, Source, Release
<1>3. /\ commits'[Source].adds = "source" /\ Tree(Source)' = {Source}
      /\ commits'[Release].adds = "release" /\ Tree(Release)' = {Source, Release}
  BY <1>2, SameCommit DEF GraphInv, Grows
<1>4. Release < Len(commits')
  BY DEF GraphInv, Grows, Release
<1> QED BY <1>1, <1>3, <1>4 DEF GraphInv

LEMMA RequestStands ==
  ASSUME GraphInv, MergedInv, Grows, Len(commits) \in Nat, request' = request,
         deployments' = deployments, Release \in Tree(main) => Release \in Tree(main)'
  PROVE  MergedInv'
<1>1. Open' <=> Open
  BY DEF Open
<1>2. ASSUME ~Open
      PROVE  \E m \in 1..Len(commits') :
               /\ request'.merge = m /\ Len(Parents(m)') = 2 /\ CleanMerge(m)'
               /\ deployments'[1].commit = m
  <2>1. PICK m \in 1..Len(commits) :
          /\ request.merge = m /\ Len(Parents(m)) = 2 /\ CleanMerge(m)
          /\ deployments[1].commit = m
    BY <1>2 DEF MergedInv
  <2>2. CleanMerge(m)' /\ Parents(m)' = Parents(m) /\ m \in 1..Len(commits')
    BY <2>1, SameClean, SameCommit
  <2> QED BY <2>1, <2>2
<1>3. \A d \in 1..Len(deployments) : deployments[d].commit \in 1..Len(commits')
  BY DEF MergedInv, Grows
<1>4. ~Open => Release \in Tree(main)'
  BY DEF MergedInv
<1>5. Open <=> deployments = << >>
  BY DEF MergedInv
<1> QED BY <1>1, <1>2, <1>3, <1>4, <1>5 DEF MergedInv

(* What a stage fixes in the contract.                                     *)
Fixed(adds) ==
  /\ DOMAIN contract' = ContractFields
  /\ \/ contract'.check = contract.check
     \/ contract'.check = 2 /\ \E r \in 1..Len(runs) : runs[r].step = "partial"
  /\ adds = "publication" => contract'.check = 2
  /\ contract'.prior \in 0..Len(commits)
  /\ ~Open => contract'.prior = contract.prior

LEMMA ChecksGrow ==
  ASSUME ChecksInv, NEW adds, Fixed(adds), Grows, checks' = checks, runs' = runs,
         Len(commits) \in Nat,
         \A c \in (Len(commits) + 1)..Len(commits') : commits'[c].adds = "publication" =>
           adds = "publication"
  PROVE  ChecksInv'
<1>1. Recovered' => Recovered
  BY DEF Recovered, Fixed
<1>2. contract'.check \in {None, 2} /\ (contract.check = 2 => contract'.check = 2)
  BY DEF ChecksInv, Fixed
<1>3. ASSUME NEW c \in 1..Len(commits'), commits'[c].adds = "publication"
      PROVE  contract'.check = 2
  <2>1. CASE c \in 1..Len(commits)
    <3>1. commits[c].adds = "publication"
      BY <1>3, <2>1 DEF Grows
    <3> QED BY <1>2, <2>1, <3>1 DEF ChecksInv
  <2>2. CASE c \in (Len(commits) + 1)..Len(commits')
    BY <1>3, <2>2 DEF Fixed
  <2> QED BY <2>1, <2>2 DEF Grows
<1> QED BY <1>1, <1>2, <1>3 DEF ChecksInv

LEMMA FixesIsFixed ==
  ASSUME IInv, NEW review, Written(review), Fixes(review)
  PROVE  Fixed(review)
<1>0. /\ Types /\ GraphInv /\ MergedInv /\ ChecksInv /\ Len(commits) \in Nat
      /\ DOMAIN contract = ContractFields
  BY Counts DEF IInv, Types
<1>1. contract.prior \in 0..Len(commits) /\ sync \in 0..Len(commits)
  BY <1>0 DEF GraphInv
<1>2. CASE review = "publication" /\ FixesPublication
  <2>1. PICK r \in 1..Len(runs) : /\ runs[r].step = "partial"
                /\ contract' = [contract EXCEPT !.run = r, !.check = runs[r].check]
    BY <1>2, Zenon DEF FixesPublication
  <2>2. PICK v : v = runs[r].check
    OBVIOUS
  <2>3. contract' = [contract EXCEPT !.run = r, !.check = v]
    BY <2>1, <2>2, Zenon
  <2>4. DOMAIN contract' = ContractFields /\ contract'.check = v /\ contract'.prior = contract.prior
    BY <1>0, <2>3, Zenon DEF ContractFields
  <2>5. v = 2
    BY <1>0, <2>1, <2>2 DEF ChecksInv
  <2> QED BY <1>1, <2>1, <2>4, <2>5 DEF Fixed
<1>3. CASE review = "sync" /\ FixesRecord
  <2>1. PICK i : contract' = [contract EXCEPT !.record = i]
    BY <1>3 DEF FixesRecord
  <2>2. /\ DOMAIN contract' = ContractFields /\ contract'.check = contract.check
        /\ contract'.prior = contract.prior
    BY <1>0, <2>1, Zenon DEF ContractFields
  <2> QED BY <1>1, <1>3, <2>2 DEF Fixed
<1>4. CASE review = "association" /\ FixesUpdate
  <2>1. /\ DOMAIN contract' = ContractFields /\ contract'.check = contract.check
        /\ contract'.prior = sync
    BY <1>0, <1>4, Zenon DEF ContractFields, FixesUpdate
  <2>2. Open
    <3>1. SyncRepairMerge(main) /\ main \in 1..Len(commits)
      BY <1>0, <1>4 DEF Written, GraphInv
    <3>2. Release \notin Tree(main)
      BY <1>0, <3>1, ChainHolds, ChainHasNoRelease
    <3> QED BY <1>0, <3>2 DEF MergedInv
  <2> QED BY <1>1, <1>4, <2>1, <2>2 DEF Fixed
<1>5. CASE review = "deployment" /\ FixesApproval
  <2>1. PICK v : contract' = [contract EXCEPT !.approval = v]
    BY <1>5 DEF FixesApproval
  <2>2. /\ DOMAIN contract' = ContractFields /\ contract'.check = contract.check
        /\ contract'.prior = contract.prior
    BY <1>0, <2>1, Zenon DEF ContractFields
  <2> QED BY <1>1, <1>5, <2>2 DEF Fixed
<1>6. CASE review \in {"repair", "worker", "reader", "classifier"} /\ UNCHANGED contract
  BY <1>0, <1>1, <1>6 DEF Fixed
<1> QED BY <1>2, <1>3, <1>4, <1>5, <1>6 DEF Fixes

LEMMA MergeKeeps ==
  ASSUME IInv, NEW adds, NEW edit \in {Nothing, "other"}, MergeOnMain(adds, edit), Fixed(adds),
         UNCHANGED <<sync, request, checks, comments, runs, deployments, sent>>
  PROVE  IInv'
<1>0. /\ Types /\ GraphInv /\ MergedInv /\ ChecksInv /\ RunsInv /\ RecordsInv /\ DeployInv
      /\ Len(commits) \in Nat /\ Len(sent) \in Nat /\ IsSequence(commits)
  BY Counts DEF IInv, Types
<1>1. PICK n : n = Len(commits) + 1 /\ n \in Nat
  BY <1>0
<1>2. PICK a, b :
        /\ commits' = commits \o <<a, b>>
        /\ a.adds = adds /\ a.parents = <<main>> /\ a.tree = Tree(main) \cup {n}
        /\ b.adds = edit /\ b.parents = <<main, n>>
        /\ a.tree \subseteq b.tree /\ b.tree \subseteq a.tree \cup {n + 1}
  <2>1. PICK a : a = NewCommit(adds, <<main>>, Tree(main) \cup {n}, NoMarker)
    OBVIOUS
  <2>2. PICK t : t = a.tree \cup (IF edit = Nothing THEN {} ELSE {n + 1})
    OBVIOUS
  <2>3. PICK b : b = NewCommit(edit, <<main, n>>, t, NoMarker)
    OBVIOUS
  <2>4. commits' = commits \o <<a, b>>
    BY <1>1, <2>1, <2>2, <2>3, Zenon DEF MergeOnMain, Fresh
  <2>5. a.adds = adds /\ a.parents = <<main>> /\ a.tree = Tree(main) \cup {n}
    BY <2>1, Zenon DEF NewCommit
  <2>6. b.adds = edit /\ b.parents = <<main, n>> /\ b.tree = t
    BY <2>3, Zenon DEF NewCommit
  <2>7. a.tree \subseteq t /\ t \subseteq a.tree \cup {n + 1}
    BY <2>2
  <2> QED BY <2>4, <2>5, <2>6, <2>7
<1>3. /\ IsSequence(commits') /\ Len(commits') = n + 1
      /\ \A i \in 1..Len(commits) : commits'[i] = commits[i]
      /\ commits'[n] = a /\ commits'[n + 1] = b
  <2>1. IsSequence(commits) /\ commits' = commits \o <<a, b>>
    BY <1>0, <1>2
  <2>2. ExtendsTwo(commits, commits', a, b)
    BY ONLY <2>1, TwoAdded, Zenon
  <2> QED BY <1>1, <2>2 DEF ExtendsTwo
<1>4. Grows
  BY <1>0, <1>1, <1>3 DEF Grows
<1>5. main' = n + 1 /\ \E c, status : Tested(c, status)
  BY <1>1 DEF MergeOnMain, Fresh
<1>6. /\ sync' = sync /\ request' = request /\ checks' = checks /\ comments' = comments
      /\ runs' = runs /\ deployments' = deployments /\ sent' = sent
  OBVIOUS
<1>7. Typed(tests, TestFields)' /\ TestsKept
  BY <1>0, <1>5, TestedKeeps
<1>8. Types'
  BY <1>0, <1>3, <1>6, <1>7 DEF Types, Fixed, Typed, CheckFields, TestFields, CommentFields,
                                 RunFields, DeploymentFields, ContractFields
<1>9. main \in 1..Len(commits) /\ sync \in 1..Len(commits) /\ Release \in Tree(sync)
      /\ Tree(main) \subseteq 1..Len(commits)
  BY <1>0 DEF GraphInv
<1>10. Tree(main) \subseteq Tree(main)'
  <2>1. Tree(main)' = b.tree
    BY <1>3, <1>5 DEF Tree
  <2> QED BY <1>2, <2>1
<1>11. GraphInv'
  <2>1. ASSUME NEW c \in (Len(commits) + 1)..Len(commits')
        PROVE  /\ \A i \in 1..Len(Parents(c)') : Parents(c)'[i] \in 1..(c - 1)
               /\ Tree(c)' \subseteq 1..c
    <3>1. c = n \/ c = n + 1
      BY <1>0, <1>1, <1>3
    <3>2. CASE c = n
      <4>1. Parents(c)' = <<main>> /\ Tree(c)' = Tree(main) \cup {n}
        BY <1>2, <1>3, <3>2 DEF Parents, Tree
      <4>2. Len(<<main>>) = 1 /\ <<main>>[1] = main
        OBVIOUS
      <4> QED BY <1>0, <1>1, <1>9, <3>2, <4>1, <4>2
    <3>3. CASE c = n + 1
      <4>1. Parents(c)' = <<main, n>> /\ Tree(c)' \subseteq Tree(main) \cup {n, n + 1}
        BY <1>2, <1>3, <3>3 DEF Parents, Tree
      <4>2. Len(<<main, n>>) = 2 /\ <<main, n>>[1] = main /\ <<main, n>>[2] = n
        OBVIOUS
      <4>3. \A i \in 1..Len(Parents(c)') : Parents(c)'[i] \in {main, n}
        BY <4>1, <4>2
      <4>4. {main, n} \subseteq 1..(c - 1)
        BY <1>0, <1>1, <1>9, <3>3
      <4>5. Tree(main) \cup {n, n + 1} \subseteq 1..c
        BY <1>0, <1>1, <1>9, <3>3
      <4> QED BY <4>1, <4>3, <4>4, <4>5
    <3> QED BY <3>1, <3>2, <3>3
  <2>2. main' \in 1..Len(commits') /\ sync' \in 1..Len(commits')
    BY <1>0, <1>1, <1>3, <1>5, <1>6, <1>9
  <2>3. Release \in Tree(sync)'
    BY <1>0, <1>4, <1>6, <1>9, SameCommit DEF Tree
  <2>4. contract'.prior \in 0..Len(commits')
    BY <1>0, <1>1, <1>3 DEF Fixed
  <2> QED BY <1>0, <1>4, <2>1, <2>2, <2>3, <2>4, GraphExtended
<1>12. MergedInv'
  BY <1>0, <1>4, <1>6, <1>10, RequestStands
<1>13. ChecksInv'
  <2>1. \A c \in (Len(commits) + 1)..Len(commits') : commits'[c].adds = "publication" =>
          adds = "publication"
    <3>1. \A c \in (Len(commits) + 1)..Len(commits') : c = n \/ c = n + 1
      BY <1>0, <1>1, <1>3
    <3>2. b.adds # "publication"
      <4>1. edit # "publication"
        BY Zenon DEF Nothing
      <4> QED BY <1>2, <4>1
    <3> QED BY <1>2, <1>3, <3>1, <3>2
  <2> QED BY <1>0, <1>4, <1>6, <2>1, ChecksGrow
<1>14. contract.check = 2 => contract'.check = 2
  BY DEF Fixed
<1>15. RunsInv'
  BY <1>0, <1>4, <1>6, <1>14, RunsKept
<1>16. RecordsInv'
  BY <1>0, <1>4, <1>6, <1>14, RecordsKept
<1>17. DeployInv'
  BY <1>0, <1>4, <1>6, <1>7, DeployKept DEF Fixed
<1> QED BY <1>8, <1>11, <1>12, <1>13, <1>15, <1>16, <1>17 DEF IInv

LEMMA MergeReviewKeeps ==
  ASSUME IInv, NEW review, MergeReview(review)
  PROVE  IInv'
<1>1. Fixed(review)
  BY FixesIsFixed DEF MergeReview
<1>2. MergeOnMain(review, Nothing) /\ Nothing \in {Nothing, "other"}
  BY DEF MergeReview
<1>3. UNCHANGED <<sync, request, checks, comments, runs, deployments, sent>>
  BY DEF MergeReview
<1> QED BY <1>1, <1>2, <1>3, MergeKeeps

LEMMA MergeUnreviewedKeeps ==
  ASSUME IInv, MergeUnreviewed
  PROVE  IInv'
<1>1. UNCHANGED <<sync, request, checks, comments, runs, deployments, sent>>
  BY DEF MergeUnreviewed
<1>2. CASE MergeOnMain("other", Nothing) /\ UNCHANGED contract
  <2>1. Fixed("other")
    BY <1>2 DEF Fixed, IInv, Types, GraphInv
  <2>2. Nothing \in {Nothing, "other"}
    OBVIOUS
  <2> QED BY <1>1, <1>2, <2>1, <2>2, MergeKeeps
<1>3. CASE \E review \in Reviewed \cup Later :
             Written(review) /\ Fixes(review) /\ MergeOnMain(review, "other")
  <2>1. PICK review \in Reviewed \cup Later :
          Written(review) /\ Fixes(review) /\ MergeOnMain(review, "other")
    BY <1>3
  <2>2. Fixed(review) /\ "other" \in {Nothing, "other"}
    BY <2>1, FixesIsFixed
  <2> QED BY <1>1, <2>1, <2>2, MergeKeeps
<1> QED BY <1>2, <1>3 DEF MergeUnreviewed
(* One commit is added that merges two others.                             *)
LEMMA GraphOneMore ==
  ASSUME GraphInv, IsSequence(commits), Len(commits) \in Nat,
         NEW p \in 1..Len(commits), NEW q \in 1..Len(commits), NEW e,
         commits' = Append(commits, e), e.parents = <<p, q>>,
         e.tree \subseteq Tree(p) \cup Tree(q) \cup {Len(commits) + 1},
         main' \in 1..(Len(commits) + 1), sync' \in 1..(Len(commits) + 1),
         Release \in Tree(sync)', contract' = contract
  PROVE  /\ GraphInv' /\ Grows /\ IsSequence(commits') /\ Len(commits') = Len(commits) + 1
         /\ commits'[Len(commits) + 1] = e
<1>1. PICK n : n = Len(commits) + 1 /\ n \in Nat
  OBVIOUS
<1>2. /\ IsSequence(commits') /\ Len(commits') = n /\ commits'[n] = e
      /\ \A i \in 1..Len(commits) : commits'[i] = commits[i]
  <2>1. /\ IsSequence(Append(commits, e)) /\ Len(Append(commits, e)) = Len(commits) + 1
        /\ \A i \in 1..Len(commits) : Append(commits, e)[i] = commits[i]
        /\ Append(commits, e)[Len(commits) + 1] = e
    BY Appended
  <2> QED BY <1>1, <2>1
<1>3. Grows
  BY <1>1, <1>2 DEF Grows
<1>4. Tree(p) \subseteq 1..Len(commits) /\ Tree(q) \subseteq 1..Len(commits)
  BY DEF GraphInv
<1>5. ASSUME NEW c \in (Len(commits) + 1)..Len(commits')
      PROVE  /\ \A i \in 1..Len(Parents(c)') : Parents(c)'[i] \in 1..(c - 1)
             /\ Tree(c)' \subseteq 1..c
  <2>1. c = n
    BY <1>1, <1>2
  <2>2. Parents(c)' = <<p, q>> /\ Tree(c)' = e.tree
    BY <1>2, <2>1 DEF Parents, Tree
  <2>3. Len(<<p, q>>) = 2 /\ <<p, q>>[1] = p /\ <<p, q>>[2] = q
    OBVIOUS
  <2>4. \A i \in 1..Len(Parents(c)') : Parents(c)'[i] \in {p, q}
    BY <2>2, <2>3
  <2>5. {p, q} \subseteq 1..(c - 1) /\ 1..Len(commits) \subseteq 1..c /\ n \in 1..c
    BY <1>1, <2>1
  <2>6. e.tree \subseteq Tree(p) \cup Tree(q) \cup {n}
    BY <1>1
  <2> QED BY <1>4, <2>2, <2>4, <2>5, <2>6
<1>6. main' \in 1..Len(commits') /\ sync' \in 1..Len(commits')
  BY <1>1, <1>2
<1>7. contract'.prior \in 0..Len(commits')
  BY <1>1, <1>2 DEF GraphInv
<1>8. GraphInv'
  BY <1>3, <1>5, <1>6, <1>7, GraphExtended
<1> QED BY <1>1, <1>2, <1>3, <1>8

LEMMA UpdateBranchKeeps ==
  ASSUME IInv, UpdateBranch
  PROVE  IInv'
<1>0. /\ Types /\ GraphInv /\ MergedInv /\ ChecksInv /\ RunsInv /\ RecordsInv /\ DeployInv
      /\ Len(commits) \in Nat /\ Len(sent) \in Nat /\ IsSequence(commits)
      /\ DOMAIN contract = ContractFields
  BY Counts DEF IInv, Types
<1>1. /\ main' = main /\ request' = request /\ checks' = checks /\ comments' = comments
      /\ contract' = contract /\ runs' = runs /\ deployments' = deployments /\ sent' = sent
      /\ sync' = Len(commits) + 1 /\ \E c, status : Tested(c, status)
  BY DEF UpdateBranch, Fresh
<1>2. main \in 1..Len(commits) /\ sync \in 1..Len(commits) /\ Release \in Tree(sync)
  BY <1>0 DEF GraphInv
<1>3. PICK edit \in {Nothing, "other"} :
        commits' = Append(commits, NewCommit(edit, <<sync, main>>,
          Tree(sync) \cup Tree(main) \cup (IF edit = Nothing THEN {} ELSE {Fresh}), NoMarker))
  BY Zenon DEF UpdateBranch
<1>4. PICK e : /\ commits' = Append(commits, e)
               /\ e.adds = edit /\ e.parents = <<sync, main>>
               /\ e.tree \subseteq Tree(sync) \cup Tree(main) \cup {Len(commits) + 1}
               /\ Tree(sync) \subseteq e.tree
  <2>1. PICK t : t = Tree(sync) \cup Tree(main) \cup (IF edit = Nothing THEN {} ELSE {Fresh})
    OBVIOUS
  <2>2. PICK e : e = NewCommit(edit, <<sync, main>>, t, NoMarker)
    OBVIOUS
  <2>3. commits' = Append(commits, e)
    BY <1>3, <2>1, <2>2, Zenon
  <2>4. e.adds = edit /\ e.parents = <<sync, main>> /\ e.tree = t
    BY <2>2, Zenon DEF NewCommit
  <2>5. Tree(sync) \subseteq t /\ t \subseteq Tree(sync) \cup Tree(main) \cup {Len(commits) + 1}
    BY <2>1 DEF Fresh
  <2> QED BY <2>3, <2>4, <2>5
<1>5. PICK n : n = Len(commits) + 1 /\ n \in Nat
  BY <1>0
<1>6. commits'[n] = e /\ Len(commits') = n /\ IsSequence(commits')
  <2>1. IsSequence(commits) /\ commits' = Append(commits, e)
    BY <1>0, <1>4
  <2>2. /\ IsSequence(Append(commits, e)) /\ Len(Append(commits, e)) = Len(commits) + 1
        /\ Append(commits, e)[Len(commits) + 1] = e
    BY <2>1, Appended
  <2> QED BY <1>5, <2>1, <2>2
<1>7. Release \in Tree(sync)'
  BY <1>1, <1>2, <1>4, <1>5, <1>6 DEF Tree
<1>8. main' \in 1..(Len(commits) + 1) /\ sync' \in 1..(Len(commits) + 1)
  BY <1>0, <1>1, <1>2
<1>9. GraphInv' /\ Grows
  BY <1>0, <1>1, <1>2, <1>4, <1>7, <1>8, GraphOneMore
<1>10. Typed(tests, TestFields)' /\ TestsKept
  BY <1>0, <1>1, TestedKeeps
<1>11. Types'
  BY <1>0, <1>1, <1>6, <1>10 DEF Types, Typed, CheckFields, TestFields, CommentFields, RunFields,
                                  DeploymentFields, ContractFields
<1>12. MergedInv'
  <2>1. Release \in Tree(main) => Release \in Tree(main)'
    BY <1>0, <1>1, <1>2, <1>9, SameCommit DEF Tree
  <2> QED BY <1>0, <1>1, <1>9, <2>1, RequestStands
<1>13. ChecksInv'
  <2>1. Fixed(edit)
    <3>1. edit # "publication"
      BY Zenon DEF Nothing
    <3> QED BY <1>0, <1>1, <3>1 DEF Fixed, GraphInv
  <2>2. \A c \in (Len(commits) + 1)..Len(commits') : commits'[c].adds = "publication" =>
          edit = "publication"
    <3>1. \A c \in (Len(commits) + 1)..Len(commits') : c = n
      BY <1>0, <1>5, <1>6
    <3> QED BY <1>4, <1>6, <3>1
  <2> QED BY <1>0, <1>1, <1>9, <2>1, <2>2, ChecksGrow
<1>14. RunsInv'
  BY <1>0, <1>1, <1>9, RunsKept
<1>15. RecordsInv'
  BY <1>0, <1>1, <1>9, RecordsKept
<1>16. DeployInv'
  BY <1>0, <1>1, <1>9, <1>10, DeployKept
<1> QED BY <1>9, <1>11, <1>12, <1>13, <1>14, <1>15, <1>16 DEF IInv

LEMMA MergeRequestKeeps ==
  ASSUME IInv, MergeRequest
  PROVE  IInv'
<1>0. /\ Types /\ GraphInv /\ MergedInv /\ ChecksInv /\ RunsInv /\ RecordsInv /\ DeployInv
      /\ Len(commits) \in Nat /\ Len(sent) \in Nat /\ IsSequence(commits)
      /\ DOMAIN contract = ContractFields /\ IsSequence(sent)
  BY Counts DEF IInv, Types
<1>1. /\ sync' = sync /\ checks' = checks /\ comments' = comments /\ tests' = tests
      /\ contract' = contract /\ runs' = runs /\ sent' = sent
      /\ main' = Len(commits) + 1
      /\ request' = [merge |-> Len(commits) + 1, after |-> Len(comments)]
      /\ deployments' = <<[commit |-> Len(commits) + 1, attempt |-> 1, passed |-> 0,
                           status |-> "running"]>>
  BY DEF MergeRequest, Fresh, evidence
<1>2. main \in 1..Len(commits) /\ sync \in 1..Len(commits) /\ Release \in Tree(sync)
  BY <1>0 DEF GraphInv
<1>3. PICK e : /\ commits' = Append(commits, e)
               /\ e.adds = Nothing /\ e.parents = <<main, sync>>
               /\ e.tree = Tree(main) \cup Tree(sync)
  <2>1. PICK marker : commits' = Append(commits,
          NewCommit(Nothing, <<main, sync>>, Tree(main) \cup Tree(sync), marker))
    BY DEF MergeRequest
  <2>2. PICK t : t = Tree(main) \cup Tree(sync)
    OBVIOUS
  <2>3. PICK e : e = NewCommit(Nothing, <<main, sync>>, t, marker)
    OBVIOUS
  <2>4. commits' = Append(commits, e)
    BY <2>1, <2>2, <2>3
  <2>5. e.adds = Nothing /\ e.parents = <<main, sync>> /\ e.tree = t
    BY <2>3, Zenon DEF NewCommit
  <2> QED BY <2>2, <2>4, <2>5
<1>4. PICK n : n = Len(commits) + 1 /\ n \in Nat
  BY <1>0
<1>5. commits'[n] = e /\ Len(commits') = n /\ IsSequence(commits')
  <2>1. IsSequence(commits) /\ commits' = Append(commits, e)
    BY <1>0, <1>3
  <2>2. /\ IsSequence(Append(commits, e)) /\ Len(Append(commits, e)) = Len(commits) + 1
        /\ Append(commits, e)[Len(commits) + 1] = e
    BY <2>1, Appended
  <2> QED BY <1>4, <2>1, <2>2
<1>6. GraphInv' /\ Grows
  <2>0. Grows
    <3>1. /\ Len(Append(commits, e)) = Len(commits) + 1
          /\ \A i \in 1..Len(commits) : Append(commits, e)[i] = commits[i]
      BY <1>0, Appended
    <3> QED BY <1>0, <1>3, <3>1 DEF Grows
  <2>1. Release \in Tree(sync)'
    BY <1>0, <1>1, <1>2, <2>0, SameCommit DEF Tree
  <2>2. main' \in 1..(Len(commits) + 1) /\ sync' \in 1..(Len(commits) + 1)
    BY <1>0, <1>1, <1>2
  <2>3. e.tree \subseteq Tree(main) \cup Tree(sync) \cup {Len(commits) + 1}
    BY <1>3
  <2>4. commits' = Append(commits, e) /\ e.parents = <<main, sync>>
    BY <1>3
  <2> QED BY <1>0, <1>1, <1>2, <2>1, <2>2, <2>3, <2>4, GraphOneMore
<1>7. Typed(tests, TestFields)' /\ TestsKept
  BY <1>0, <1>1 DEF Types, Typed, TestFields, TestsKept
<1>8. PICK d : d = [commit |-> n, attempt |-> 1, passed |-> 0, status |-> "running"]
  OBVIOUS
<1>9. deployments' = <<d>>
  BY <1>1, <1>4, <1>8
<1>10. Len(<<d>>) = 1 /\ <<d>>[1] = d /\ <<d>> \in Seq({d}) /\ <<d>> # << >>
  OBVIOUS
<1>11. d.commit = n /\ d.attempt = 1 /\ d.passed = 0 /\ d.status = "running"
       /\ DOMAIN d = DeploymentFields
  BY <1>8 DEF DeploymentFields
<1>12. Typed(deployments, DeploymentFields)'
  <2>1. IsSequence(deployments')
    BY <1>9, <1>10 DEF IsSequence
  <2> QED BY <1>9, <1>10, <1>11, <2>1 DEF Typed, DeploymentFields
<1>13. Types'
  BY <1>0, <1>1, <1>5, <1>7, <1>12 DEF Types, Typed, CheckFields, TestFields, CommentFields,
                                        RunFields, DeploymentFields, ContractFields
<1>14. MergedInv'
  <2>1. Release \in Tree(main)'
    BY <1>1, <1>2, <1>3, <1>4, <1>5 DEF Tree
  <2>2. request'.merge = n /\ n # None
    BY <1>0, <1>1, <1>4 DEF None
  <2>3. Len(Parents(n)') = 2 /\ Parents(n)'[1] = main /\ Parents(n)'[2] = sync
    <3>1. Parents(n)' = <<main, sync>>
      BY <1>3, <1>5 DEF Parents
    <3> QED BY <3>1, Pair
  <2>4. CleanMerge(n)'
    <3>1. Tree(n)' = Tree(main) \cup Tree(sync)
      BY <1>3, <1>5 DEF Tree
    <3>2. commits'[main] = commits[main] /\ commits'[sync] = commits[sync]
      BY <1>2, <1>6 DEF Grows
    <3>3. PICK p, q : p = main /\ q = sync
      OBVIOUS
    <3>4. Tree(p)' = Tree(main) /\ Tree(q)' = Tree(sync)
      BY <3>2, <3>3 DEF Tree
    <3>5. Parents(n)'[1] = p /\ Parents(n)'[2] = q
      BY <2>3, <3>3
    <3> QED BY <3>1, <3>4, <3>5 DEF CleanMerge
  <2>5. n \in 1..Len(commits')
    BY <1>0, <1>4, <1>5
  <2>6. ~Open' /\ deployments' # << >>
    BY <1>9, <1>10, <2>2 DEF Open, None
  <2>7. \A j \in 1..Len(deployments') : deployments'[j].commit \in 1..Len(commits')
    BY <1>9, <1>10, <1>11, <2>5
  <2>8. deployments'[1].commit = n
    BY <1>9, <1>10, <1>11
  <2> QED BY <2>1, <2>2, <2>3, <2>4, <2>5, <2>6, <2>7, <2>8 DEF MergedInv
<1>15. ChecksInv'
  <2>1. Fixed(Nothing)
    <3>1. Nothing # "publication"
      BY DEF Nothing
    <3> QED BY <1>0, <1>1, <3>1 DEF Fixed, GraphInv
  <2>2. \A c \in (Len(commits) + 1)..Len(commits') : commits'[c].adds = "publication" =>
          Nothing = "publication"
    <3>1. \A c \in (Len(commits) + 1)..Len(commits') : c = n
      BY <1>0, <1>4, <1>5
    <3> QED BY <1>3, <1>5, <3>1
  <2> QED BY <1>0, <1>1, <1>6, <2>1, <2>2, ChecksGrow
<1>16. RunsInv'
  BY <1>0, <1>1, <1>6, RunsKept
<1>17. RecordsInv'
  BY <1>0, <1>1, <1>6, RecordsKept
<1>18. DeployInv'
  <2>1. deployments = << >> /\ Len(<< >>) = 0
    BY <1>0 DEF MergedInv, MergeRequest
  <2>2. Len(sent) = 0
    <3>1. \A i \in 1..Len(sent) : sent[i] \in 1..0
      BY <1>0, <2>1 DEF DeployInv
    <3>2. ~ (1 \in 1..Len(sent))
      BY <3>1
    <3> QED BY <1>0, <3>2
  <2>3. \A j : ~IsSent(j)'
    BY <1>1, <2>2 DEF IsSent
  <2>4. Len(sent') = 0
    BY <1>1, <2>2
  <2>5. /\ Len(deployments') = 1 /\ deployments'[1].attempt = 1 /\ deployments'[1].passed = 0
    BY <1>9, <1>10, <1>11
  <2> QED BY <2>3, <2>4, <2>5 DEF DeployInv
<1> QED BY <1>6, <1>13, <1>14, <1>15, <1>16, <1>17, <1>18 DEF IInv

LEMMA GitKeeps ==
  ASSUME IInv, Git
  PROVE  IInv'
BY MergeReviewKeeps, MergeUnreviewedKeeps, UpdateBranchKeeps, MergeRequestKeeps DEF Git
-----------------------------------------------------------------------------
(* The deployments.                                                        *)
LEMMA NewestPassed ==
  ASSUME Len(tests) \in Nat, NEW c, Passed(Newest(c))
  PROVE  \E t \in 1..Len(tests) : tests[t].commit = c /\ tests[t].status = "success"
<1>1. PICK of : of = {i \in 1..Len(tests) : tests[i].commit = c}
  OBVIOUS
<1>2. Newest(c) = IF of = {} THEN None ELSE CHOOSE i \in of : \A j \in of : j <= i
  BY <1>1 DEF Newest
<1>3. Newest(c) # None /\ tests[Newest(c)].status = "success"
  BY DEF Passed
<1>4. of # {} /\ Newest(c) = CHOOSE i \in of : \A j \in of : j <= i
  BY <1>2, <1>3, Zenon
<1>5. of \in SUBSET (0..Len(tests))
  BY <1>1
<1>6. \E i \in of : \A j \in of : j <= i
  BY <1>4, <1>5, MaxExists
<1>7. Newest(c) \in of
  BY <1>4, <1>6, Zenon
<1> QED BY <1>1, <1>3, <1>7

LEMMA OneIsThere ==
  ASSUME NEW kind, Cardinality(Live(kind)) = 1
  PROVE  ReadyComment(kind) \in Live(kind)
<1>1. Live(kind) # {}
  BY FS_EmptySet
<1> QED BY <1>1 DEF ReadyComment

(* What the first record approves.                                         *)
LEMMA FirstApproves ==
  ASSUME IInv, NEW m \in 1..Len(commits), request.merge = m, Len(Parents(m)) = 2, CleanMerge(m),
         Parents(m)[2] = Release, FirstRecord(m)
  PROVE  Approves(m) /\ main = m
<1>0. Types /\ GraphInv /\ RecordsInv /\ Len(commits) \in Nat
  BY Counts DEF IInv
<1>1. PICK i : i = ReadyComment("v1")
  OBVIOUS
<1>2. PICK record : record = comments[i].record
  OBVIOUS
<1>3. /\ OneReady /\ comments[i].bot
      /\ commits[m].marker = [kind |-> "v1", record |-> record]
      /\ ApprovedMerge(m, record, m)
  BY <1>1, <1>2 DEF FirstRecord
<1>4. i \in 1..Len(comments) /\ comments[i].kind = "v1"
  BY <1>1, <1>3, OneIsThere DEF OneReady, Live
<1>5. ReadyAt(record)
  BY <1>0, <1>2, <1>3, <1>4 DEF RecordsInv
<1>6. PICK b \in 1..Len(commits) : record.base = b /\ PublicationRepairMerge(b)
  BY <1>5 DEF ReadyAt
<1>7. main = m /\ Parents(m) = <<b, record.head>>
  BY <1>3, <1>6 DEF ApprovedMerge
<1>8. Parents(m)[1] = b
  BY <1>7, Pair
<1>9. Tree(m) = Tree(b) \cup Tree(Release)
  BY <1>8 DEF CleanMerge
<1>10. Chain(b)
  BY <1>0, <1>6, ChainHolds
<1>11. Adds(Tree(m)) \subseteq Approvable
  <2>1. Adds(Tree(b)) \subseteq Approvable
    BY <1>10 DEF Chain, Approvable
  <2>2. Adds(Tree(Release)) \subseteq Approvable
    BY <1>0 DEF GraphInv, Adds, Approvable
  <2>3. Adds(Tree(m)) \subseteq Adds(Tree(b)) \cup Adds(Tree(Release))
    BY <1>9 DEF Adds
  <2> QED BY <2>1, <2>2, <2>3
<1>12. commits[m].marker.kind # "v2"
  BY <1>3
<1> QED BY <1>7, <1>11, <1>12 DEF Approves

(* What the record of the updated branch approves, for its merge and for   *)
(* the continuation.                                                       *)
LEMMA CurrentApproves ==
  ASSUME IInv, NEW m \in 1..Len(commits), request.merge = m, Len(Parents(m)) = 2, CleanMerge(m),
         NEW tip \in 1..Len(commits), CurrentRecord(m, tip),
         tip = m \/ (DirectMerge(tip, "deployment") /\ Parents(tip)[1] = m)
  PROVE  Approves(tip)
<1>0. Types /\ GraphInv /\ RecordsInv /\ Len(commits) \in Nat /\ Len(tests) \in Nat
  BY Counts DEF IInv
<1>1. PICK i : i = ReadyComment("v2")
  OBVIOUS
<1>2. PICK record : record = comments[i].record
  OBVIOUS
<1>3. /\ OneCurrent /\ UpdateRemote(record) /\ ApprovedMerge(m, record, tip)
      /\ NativeCheck(record)
  BY <1>1, <1>2 DEF CurrentRecord
<1>4. i \in 1..Len(comments) /\ comments[i].kind = "v2" /\ comments[i].bot
  BY <1>1, <1>3, OneIsThere DEF OneCurrent, Live
<1>5. SyncedAt(record)
  BY <1>0, <1>2, <1>4 DEF RecordsInv
<1>6. PICK h \in 1..Len(commits), b \in 1..Len(commits) :
        record.head = h /\ record.base = b /\ Synced(h, b)
  BY <1>5 DEF SyncedAt
<1>7. Parents(m) = <<b, h>>
  BY <1>3, <1>6 DEF ApprovedMerge
<1>8. Parents(m)[1] = b /\ Parents(m)[2] = h
  BY <1>7, Pair
<1>9. Tree(m) = Tree(b) \cup Tree(h)
  BY <1>8 DEF CleanMerge
<1>10. Adds(Tree(m)) \subseteq Approvable
  <2>1. Adds(Tree(h)) \subseteq Approvable /\ Adds(Tree(b)) \subseteq Approvable
    BY <1>0, <1>6, SyncedHoldsReviewed
  <2>2. Adds(Tree(m)) \subseteq Adds(Tree(b)) \cup Adds(Tree(h))
    BY <1>9 DEF Adds
  <2> QED BY <2>1, <2>2
<1>11. Adds(Tree(tip)) \subseteq Approvable
  <2>1. CASE tip = m
    BY <1>10, <2>1
  <2>2. CASE DirectMerge(tip, "deployment") /\ Parents(tip)[1] = m
    <3>1. Adds(Tree(tip)) \subseteq Adds(Tree(m)) \cup {"deployment"}
      BY <1>0, <2>2, DirectAdds
    <3> QED BY <1>10, <3>1 DEF Approvable
  <2> QED BY <2>1, <2>2
<1>12. \E t \in 1..Len(tests) : tests[t].commit = h /\ tests[t].status = "success"
  <2>1. Passed(Newest(h))
    BY <1>3, <1>6 DEF NativeCheck
  <2> QED BY <1>0, <2>1, NewestPassed
<1>13. SyncMerge(m)
  <2>1. PICK k \in 1..Len(commits) :
          /\ Parents(k) = <<Release, Parents(b)[1]>> /\ CleanMerge(k)
          /\ Parents(h) = <<k, b>> /\ CleanMerge(h)
    BY <1>6 DEF Synced
  <2>2. Parents(h) = <<contract.prior, b>>
    BY <1>3, <1>6 DEF UpdateRemote
  <2>3. k = contract.prior
    BY <2>1, <2>2, Pair
  <2>4. AssociationRepairMerge(b) /\ k # None
    BY <1>6 DEF Synced, None
  <2>5. SyncUpdate(h, b)
    BY <2>1, <2>2, <2>3, <2>4 DEF SyncUpdate
  <2> QED BY <1>8, <2>5 DEF SyncMerge
<1> QED BY <1>8, <1>11, <1>12, <1>13 DEF Approves

LEMMA AuthorizedApproves ==
  ASSUME IInv, NEW d \in 1..Len(deployments), Authorized(d), deployments[d].passed = 0
  PROVE  /\ deployments[d].attempt = 1 /\ ApprovedAt(d)
         /\ d = 1 \/ (d = 2 /\ StoppedBeforeServer /\ Len(deployments) = 2)
<1>0. /\ Types /\ GraphInv /\ MergedInv /\ RecordsInv /\ Len(commits) \in Nat
      /\ Len(deployments) \in Nat
  BY Counts DEF IInv
<1>1. ~Open
  BY <1>0 DEF MergedInv
<1>2. PICK m \in 1..Len(commits) :
        /\ request.merge = m /\ Len(Parents(m)) = 2 /\ CleanMerge(m)
        /\ deployments[1].commit = m
  BY <1>0, <1>1 DEF MergedInv
<1>3. PICK tip \in 1..Len(commits) : tip = deployments[d].commit
  BY <1>0 DEF MergedInv
<1>4. deployments[d].passed % 2 # 1
  BY SMT
<1>5. FirstAttempt(d) /\ IF Parents(m)[2] = Release THEN FirstRecord(m) ELSE CurrentRecord(m, tip)
  BY <1>2, <1>3, <1>4 DEF Authorized
<1>6. /\ deployments[d].attempt = 1
      /\ d # 1 => /\ main = tip /\ DirectMerge(tip, "deployment") /\ Parents(tip)[1] = m
                  /\ StoppedBeforeServer /\ Len(deployments) = 2
  BY <1>2, <1>3, <1>5 DEF FirstAttempt, Continuation, OnlyContinuation
<1>7. d = 1 \/ (d = 2 /\ StoppedBeforeServer /\ Len(deployments) = 2)
  BY <1>0, <1>6
<1>8. d = 1 => tip = m
  BY <1>2, <1>3
<1>9. ApprovedAt(d)
  <2>1. CASE Parents(m)[2] = Release
    <3>1. FirstRecord(m)
      BY <1>5, <2>1
    <3>2. Approves(m) /\ main = m
      BY <1>2, <2>1, <3>1, FirstApproves
    <3>3. tip = m
      <4>1. SUFFICES ASSUME d # 1 PROVE FALSE
        BY <1>8
      <4>2. tip = m /\ Parents(m)[1] = m
        BY <1>6, <3>2, <4>1
      <4>3. Parents(m)[1] \in 1..(m - 1)
        BY <1>0, <1>2, TwoParents
      <4> QED BY <4>2, <4>3
    <3> QED BY <1>3, <3>2, <3>3 DEF ApprovedAt
  <2>2. CASE Parents(m)[2] # Release
    <3>1. CurrentRecord(m, tip)
      BY <1>5, <2>2
    <3>2. tip = m \/ (DirectMerge(tip, "deployment") /\ Parents(tip)[1] = m)
      BY <1>6, <1>8
    <3>3. Approves(tip)
      BY <1>2, <3>1, <3>2, CurrentApproves
    <3> QED BY <1>3, <3>3 DEF ApprovedAt
  <2> QED BY <2>1, <2>2
<1> QED BY <1>6, <1>7, <1>9
(* A step that only the deployments take.                                  *)
DeploysOnly == commits' = commits /\ main' = main /\ sync' = sync /\ request' = request
               /\ checks' = checks /\ tests' = tests /\ comments' = comments
               /\ contract' = contract /\ runs' = runs
LEMMA DeploysKeep ==
  ASSUME IInv, DeploysOnly, Typed(deployments, DeploymentFields)', IsSequence(sent'), DeployInv',
         deployments # << >>, Len(deployments) <= Len(deployments'), deployments' # << >>,
         \A d \in 1..Len(deployments') :
           \/ d \in 1..Len(deployments) /\ deployments'[d].commit = deployments[d].commit
           \/ d > 1 /\ deployments'[d].commit \in 1..Len(commits)
  PROVE  IInv'
<1>0. /\ Types /\ GraphInv /\ MergedInv /\ ChecksInv /\ RunsInv /\ RecordsInv
      /\ Len(runs) \in Nat /\ Len(commits) \in Nat /\ Len(deployments) \in Nat
  BY Counts DEF IInv
<1>1. Grows
  BY <1>0, SameHistory DEF DeploysOnly
<1>2. Types'
  BY <1>0 DEF Types, DeploysOnly, Typed, CheckFields, TestFields, CommentFields, RunFields,
              DeploymentFields, ContractFields
<1>3. GraphInv'
  BY <1>0, GraphKept DEF DeploysOnly
<1>4. MergedInv'
  <2>1. ~Open /\ ~Open'
    BY <1>0 DEF MergedInv, DeploysOnly, Open
  <2>2. PICK m \in 1..Len(commits) :
          /\ request.merge = m /\ Len(Parents(m)) = 2 /\ CleanMerge(m)
          /\ deployments[1].commit = m
    BY <1>0, <2>1 DEF MergedInv
  <2>3. CleanMerge(m)' /\ Parents(m)' = Parents(m) /\ Len(commits') = Len(commits)
    BY <1>0, <1>1, <2>2, SameClean, SameCommit DEF DeploysOnly
  <2>4. 1 \in 1..Len(deployments')
    <3>1. IsSequence(deployments)
      BY <1>0 DEF Types, Typed
    <3>2. Len(deployments) # 0
      BY <3>1 DEF IsSequence
    <3>3. Len(deployments') \in Nat
      BY <1>2, Lengths DEF Types, Typed
    <3> QED BY <1>0, <3>2, <3>3
  <2>5. deployments'[1].commit = m
    BY <2>2, <2>4
  <2>6. \A d \in 1..Len(deployments') : deployments'[d].commit \in 1..Len(commits')
    BY <1>0, <2>3 DEF MergedInv
  <2>7. Release \in Tree(main)'
    BY <1>0, <2>1 DEF MergedInv, DeploysOnly, Tree
  <2>8. request'.merge = m /\ m \in 1..Len(commits')
    BY <2>2, <2>3 DEF DeploysOnly
  <2> QED BY <2>1, <2>3, <2>2, <2>5, <2>6, <2>7, <2>8 DEF MergedInv
<1>5. NoNewPartial
  BY <1>0 DEF NoNewPartial, DeploysOnly
<1>6. ChecksInv'
  BY <1>0, <1>5, ChecksKept DEF DeploysOnly
<1>7. RunsInv'
  BY <1>0, <1>1, RunsKept DEF DeploysOnly
<1>8. RecordsInv'
  BY <1>0, <1>1, RecordsKept DEF DeploysOnly
<1> QED BY <1>2, <1>3, <1>4, <1>6, <1>7, <1>8 DEF IInv

(* What was approved stays so.                                             *)
LEMMA ApprovedStands ==
  ASSUME IInv, DeploysOnly, NEW d \in 1..Len(deployments),
         deployments'[d].commit = deployments[d].commit, ApprovedAt(d)
  PROVE  ApprovedAt(d)'
<1>0. /\ Types /\ GraphInv /\ MergedInv /\ Len(commits) \in Nat
  BY Counts DEF IInv
<1>1. Grows /\ TestsKept
  BY <1>0, SameHistory, EvidenceStands DEF DeploysOnly
<1>2. ~Open
  BY <1>0 DEF MergedInv
<1> QED BY <1>0, <1>1, <1>2, ApprovedAtStays DEF DeploysOnly

LEMMA DeploymentsThere ==
  ASSUME Types, NEW d \in 1..Len(deployments)
  PROVE  deployments # << >> /\ Len(deployments) \in Nat
BY Counts

(* One deployment changes.                                                 *)
LEMMA OneDeploys ==
  ASSUME IInv, DeploysOnly, NEW d \in 1..Len(deployments),
         Replaces(deployments, deployments', d, DeploymentFields),
         Typed(deployments, DeploymentFields)', IsSequence(sent'), DeployInv',
         deployments'[d].commit = deployments[d].commit
  PROVE  IInv'
<1>0. Types /\ MergedInv
  BY DEF IInv
<1>1. Len(deployments') = Len(deployments) /\ deployments # << >> /\ Len(deployments) \in Nat
  BY <1>0, DeploymentsThere DEF Replaces
<1>2. \A e \in 1..Len(deployments') : deployments'[e].commit = deployments[e].commit
  BY DEF Replaces
<1>3. deployments' # << >>
  BY <1>1
<1> QED BY <1>1, <1>2, <1>3, DeploysKeep

LEMMA StatusSet ==
  ASSUME Types, NEW d \in 1..Len(deployments), NEW status,
         deployments' = [deployments EXCEPT ![d].status = status]
  PROVE  /\ Replaces(deployments, deployments', d, DeploymentFields)
         /\ Typed(deployments, DeploymentFields)' /\ Len(deployments') = Len(deployments)
         /\ deployments'[d].status = status
         /\ \A e \in 1..Len(deployments) :
              /\ deployments'[e].commit = deployments[e].commit
              /\ deployments'[e].attempt = deployments[e].attempt
              /\ deployments'[e].passed = deployments[e].passed
              /\ e # d => deployments'[e].status = deployments[e].status
<1>1. /\ deployments' = [deployments EXCEPT ![d].status = status]
      /\ Typed(deployments, DeploymentFields) /\ d \in 1..Len(deployments)
  BY DEF Types
<1>2. Replaces(deployments, deployments', d, DeploymentFields) /\ Typed(deployments, DeploymentFields)'
  BY ONLY <1>1, DeploymentEnds, Zenon
<1>3. /\ deployments'[d].commit \in {deployments[d].commit}
      /\ deployments'[d].attempt \in {deployments[d].attempt}
      /\ deployments'[d].passed \in {deployments[d].passed}
      /\ deployments'[d].status \in {status}
  BY ONLY <1>1, DeploymentEnds, Zenon
<1>4. \A e \in 1..Len(deployments) : e # d => deployments'[e] = deployments[e]
  BY <1>2 DEF Replaces
<1>5. Len(deployments') = Len(deployments)
  BY <1>2 DEF Replaces
<1> QED BY ONLY <1>2, <1>3, <1>4, <1>5

LEMMA FailureKeeps ==
  ASSUME IInv, DeploysOnly, NEW d \in 1..Len(deployments), Running(d), sent' = sent,
         deployments' = [deployments EXCEPT ![d].status = "failed"]
  PROVE  IInv'
<1>0. /\ Types /\ DeployInv /\ Len(deployments) \in Nat /\ IsSequence(sent)
  BY Counts DEF IInv, Types
<1>1. /\ Replaces(deployments, deployments', d, DeploymentFields)
      /\ Typed(deployments, DeploymentFields)' /\ Len(deployments') = Len(deployments)
      /\ deployments'[d].status = "failed"
      /\ \A e \in 1..Len(deployments) :
           /\ deployments'[e].commit = deployments[e].commit
           /\ deployments'[e].attempt = deployments[e].attempt
           /\ deployments'[e].passed = deployments[e].passed
           /\ e # d => deployments'[e].status = deployments[e].status
  BY <1>0, StatusSet
<1>2. deployments[d].status = "running"
  BY DEF Running
<1>3. \A e : IsSent(e)' <=> IsSent(e)
  BY DEF IsSent
<1>4. \A e \in 1..Len(deployments) : Over(e) => Over(e)'
  BY <1>1 DEF Over
<1>5. \A e \in 1..Len(deployments) : ApprovedAt(e) => ApprovedAt(e)'
  BY <1>1, ApprovedStands
<1>6. 1 \in 1..Len(deployments)
  BY <1>0
<1>7. /\ \A e \in 1..Len(deployments) :
           /\ deployments[e].attempt \in Nat \ {0} /\ deployments[e].passed \in Nat
           /\ deployments[e].passed > 0 => deployments[e].attempt = 1 /\ e < 3 /\ ApprovedAt(e)
           /\ IsSent(e) => e < 3 /\ Over(e) /\ ApprovedAt(e)
      /\ 1 < Len(deployments) /\ deployments[2].passed > 0 => Over(1) /\ ~IsSent(1)
      /\ Len(sent) < 2 /\ \A i \in 1..Len(sent) : sent[i] \in 1..Len(deployments)
      /\ IsSent(1) => deployments[1].attempt > 1 \/ deployments[1].status = "sent"
      /\ IsSent(2) => Over(1)
  BY <1>0 DEF DeployInv
<1>8. \A e \in 1..Len(deployments) :
        /\ deployments'[e].attempt \in Nat \ {0} /\ deployments'[e].passed \in Nat
        /\ deployments'[e].passed > 0 => deployments'[e].attempt = 1 /\ e < 3 /\ ApprovedAt(e)'
        /\ IsSent(e)' => e < 3 /\ Over(e)' /\ ApprovedAt(e)'
  BY <1>1, <1>3, <1>4, <1>5, <1>7
<1>9. 1 < Len(deployments') /\ deployments'[2].passed > 0 => Over(1)' /\ ~IsSent(1)'
  <2>1. 1 < Len(deployments) => 2 \in 1..Len(deployments)
    BY <1>0
  <2> QED BY <1>1, <1>3, <1>4, <1>6, <1>7, <2>1
<1>10. IsSent(1)' => deployments'[1].attempt > 1 \/ deployments'[1].status = "sent"
  <2>1. CASE d = 1
    BY <1>1, <1>2, <1>3, <1>6, <1>7, <2>1
  <2>2. CASE d # 1
    BY <1>1, <1>3, <1>6, <1>7, <2>2
  <2> QED BY <2>1, <2>2
<1>11. DeployInv'
  BY <1>1, <1>3, <1>4, <1>6, <1>7, <1>8, <1>9, <1>10 DEF DeployInv
<1> QED BY <1>0, <1>1, <1>11, OneDeploys

LEMMA AuthorizeKeeps ==
  ASSUME IInv, NEW d \in 1..Len(deployments), Authorize(d)
  PROVE  IInv'
<1>0. /\ Types /\ DeployInv /\ Len(deployments) \in Nat /\ Typed(deployments, DeploymentFields)
      /\ Len(sent) \in Nat /\ IsSequence(sent)
  BY Counts DEF IInv, Types
<1>1. DeploysOnly /\ sent' = sent
  BY DEF DeploysOnly, Authorize, repository, evidence
<1>2. d \in 1..Len(deployments) /\ Running(d) /\ deployments[d].status = "running"
  BY DEF Authorize, Turn, Running
<1>3. \A e : IsSent(e)' <=> IsSent(e)
  BY <1>1 DEF IsSent
<1>4. CASE Authorized(d) /\ deployments' = [deployments EXCEPT ![d].passed = @ + 1]
  <2>0. deployments' = [deployments EXCEPT ![d].passed = @ + 1]
    BY <1>4
  <2>1. Replaces(deployments, deployments', d, DeploymentFields) /\ Typed(deployments, DeploymentFields)'
    BY ONLY <1>0, <1>2, <2>0, DeploymentPasses, Zenon
  <2>2. /\ deployments'[d].commit \in {deployments[d].commit}
        /\ deployments'[d].attempt \in {deployments[d].attempt}
        /\ deployments'[d].status \in {deployments[d].status}
        /\ deployments'[d].passed \in {deployments[d].passed + 1}
    BY ONLY <1>0, <1>2, <2>0, DeploymentPasses, Zenon
  <2>3. \A e \in 1..Len(deployments) :
          /\ deployments'[e].commit = deployments[e].commit
          /\ deployments'[e].attempt = deployments[e].attempt
          /\ deployments'[e].status = deployments[e].status
          /\ e # d => deployments'[e].passed = deployments[e].passed
    <3>1. ASSUME NEW e \in 1..Len(deployments), e # d PROVE deployments'[e] = deployments[e]
      BY <2>1, <3>1 DEF Replaces
    <3> QED BY <2>2, <3>1
  <2>4. Len(deployments') = Len(deployments)
    BY <2>1 DEF Replaces
  <2>5. \A e \in 1..Len(deployments) : Over(e)' <=> Over(e)
    BY <2>3 DEF Over
  <2>6. \A e \in 1..Len(deployments) : ApprovedAt(e) => ApprovedAt(e)'
    BY <1>1, <2>3, ApprovedStands
  <2>7. /\ deployments[d].attempt = 1 /\ ApprovedAt(d)
        /\ d = 1 \/ (d = 2 /\ Over(1) /\ ~IsSent(1))
    <3>1. CASE deployments[d].passed = 0
      <4>1. /\ deployments[d].attempt = 1 /\ ApprovedAt(d)
            /\ d = 1 \/ (d = 2 /\ StoppedBeforeServer /\ Len(deployments) = 2)
        BY <1>4, <3>1, AuthorizedApproves
      <4>2. ASSUME StoppedBeforeServer PROVE Over(1) /\ ~IsSent(1)
        <5>1. deployments[1].attempt = 1 /\ deployments[1].status = "failed"
          BY <4>2 DEF StoppedBeforeServer
        <5> QED BY <1>0, <5>1 DEF Over, DeployInv
      <4> QED BY <4>1, <4>2
    <3>2. CASE deployments[d].passed # 0
      <4>1. deployments[d].passed > 0
        BY <1>0, <3>2 DEF DeployInv
      <4>2. deployments[d].attempt = 1 /\ ApprovedAt(d) /\ d < 3
        BY <1>0, <4>1 DEF DeployInv
      <4>3. d = 1 \/ d = 2
        BY <1>0, <4>2
      <4>4. d = 2 => 1 < Len(deployments) /\ deployments[2].passed > 0
        BY <1>0, <4>1
      <4>5. d = 2 => Over(1) /\ ~IsSent(1)
        BY <1>0, <4>4 DEF DeployInv
      <4> QED BY <4>2, <4>3, <4>5
    <3> QED BY <3>1, <3>2
  <2>8. ASSUME NEW e \in 1..Len(deployments)
        PROVE  /\ deployments'[e].attempt \in Nat \ {0} /\ deployments'[e].passed \in Nat
               /\ deployments'[e].passed > 0 =>
                    deployments'[e].attempt = 1 /\ e < 3 /\ ApprovedAt(e)'
               /\ IsSent(e)' => e < 3 /\ Over(e)' /\ ApprovedAt(e)'
    <3>1. /\ deployments[e].attempt \in Nat \ {0} /\ deployments[e].passed \in Nat
          /\ deployments[e].passed > 0 => deployments[e].attempt = 1 /\ e < 3 /\ ApprovedAt(e)
          /\ IsSent(e) => e < 3 /\ Over(e) /\ ApprovedAt(e)
      BY <1>0 DEF DeployInv
    <3>2. CASE e = d
      BY <1>3, <2>2, <2>3, <2>5, <2>6, <2>7, <3>1, <3>2
    <3>3. CASE e # d
      BY <1>3, <2>3, <2>5, <2>6, <3>1, <3>3
    <3> QED BY <3>2, <3>3
  <2>9. ASSUME 1 < Len(deployments), deployments'[2].passed > 0 PROVE Over(1)' /\ ~IsSent(1)'
    <3>1. 1 \in 1..Len(deployments) /\ 2 \in 1..Len(deployments)
      BY <1>0, <2>9
    <3>2. CASE d = 2
      BY <1>3, <2>5, <2>7, <3>1, <3>2
    <3>3. CASE d # 2
      <4>1. deployments[2].passed > 0
        BY <2>3, <2>9, <3>1, <3>3
      <4> QED BY <1>0, <1>3, <2>5, <2>9, <3>1, <4>1 DEF DeployInv
    <3> QED BY <3>2, <3>3
  <2>10. 1 \in 1..Len(deployments)
    BY <1>0, <1>2
  <2>11. /\ Len(sent) < 2 /\ \A i \in 1..Len(sent) : sent[i] \in 1..Len(deployments)
         /\ IsSent(1) => deployments[1].attempt > 1 \/ deployments[1].status = "sent"
         /\ IsSent(2) => Over(1)
    BY <1>0 DEF DeployInv
  <2>12. DeployInv'
    BY <1>1, <1>3, <2>3, <2>4, <2>5, <2>8, <2>9, <2>10, <2>11 DEF DeployInv
  <2> QED BY <1>0, <1>1, <2>1, <2>3, <2>12, OneDeploys
<1>5. CASE deployments' = [deployments EXCEPT ![d].status = "failed"]
  BY <1>1, <1>2, <1>5, FailureKeeps
<1> QED BY <1>4, <1>5, Zenon DEF Authorize
LEMMA SendKeeps ==
  ASSUME IInv, NEW d \in 1..Len(deployments), Send(d)
  PROVE  IInv'
<1>0. /\ Types /\ DeployInv /\ Len(deployments) \in Nat /\ Len(sent) \in Nat /\ IsSequence(sent)
  BY Counts DEF IInv, Types
<1>1. DeploysOnly
  BY DEF DeploysOnly, Send, repository, evidence
<1>2. /\ deployments' = [deployments EXCEPT ![d].status = "sent"] /\ sent' = Append(sent, d)
      /\ deployments[d].passed = 8 /\ deployments[d].status = "running"
      /\ \A e \in 1..Len(deployments) :
           e # d /\ deployments[e].status = "running" => deployments[e].passed = 0
  BY DEF Send, Turn, Running, Reads
<1>3. /\ Replaces(deployments, deployments', d, DeploymentFields)
      /\ Typed(deployments, DeploymentFields)' /\ Len(deployments') = Len(deployments)
      /\ deployments'[d].status = "sent"
      /\ \A e \in 1..Len(deployments) :
           /\ deployments'[e].commit = deployments[e].commit
           /\ deployments'[e].attempt = deployments[e].attempt
           /\ deployments'[e].passed = deployments[e].passed
           /\ e # d => deployments'[e].status = deployments[e].status
  BY <1>0, <1>2, StatusSet
<1>4. /\ \A e \in 1..Len(deployments) :
           /\ deployments[e].attempt \in Nat \ {0} /\ deployments[e].passed \in Nat
           /\ deployments[e].passed > 0 => deployments[e].attempt = 1 /\ e < 3 /\ ApprovedAt(e)
           /\ IsSent(e) => e < 3 /\ Over(e) /\ ApprovedAt(e)
      /\ 1 < Len(deployments) /\ deployments[2].passed > 0 => Over(1) /\ ~IsSent(1)
      /\ \A i \in 1..Len(sent) : sent[i] \in 1..Len(deployments)
      /\ IsSent(1) => deployments[1].attempt > 1 \/ deployments[1].status = "sent"
      /\ IsSent(2) => Over(1)
  BY <1>0 DEF DeployInv
<1>5. deployments[d].attempt = 1 /\ ApprovedAt(d) /\ d < 3 /\ ~Over(d) /\ 1 \in 1..Len(deployments)
  BY <1>0, <1>2, <1>4 DEF Over
<1>6. d = 1 \/ d = 2
  BY <1>0, <1>5
<1>7. d = 2 => Over(1) /\ ~IsSent(1)
  BY <1>0, <1>2, <1>4
<1>8. ~IsSent(1) /\ ~IsSent(2)
  <2>1. CASE d = 1
    BY <1>2, <1>4, <1>5, <2>1
  <2>2. CASE d = 2
    <3>1. ~IsSent(2)
      BY <1>4, <1>5, <2>2
    <3> QED BY <1>7, <2>2, <3>1
  <2> QED BY <1>6, <2>1, <2>2
<1>9. Len(sent) = 0
  <2>1. SUFFICES ASSUME Len(sent) # 0 PROVE FALSE
    OBVIOUS
  <2>2. 1 \in 1..Len(sent)
    BY <1>0, <2>1
  <2>3. IsSent(sent[1]) /\ sent[1] \in 1..Len(deployments)
    BY <1>4, <2>2 DEF IsSent
  <2>4. sent[1] < 3
    BY <1>4, <2>3
  <2>5. sent[1] = 1 \/ sent[1] = 2
    BY <1>0, <2>3, <2>4
  <2> QED BY <1>8, <2>3, <2>5
<1>10. IsSequence(sent') /\ Len(sent') = 1 /\ sent'[1] = d
  <2>1. /\ IsSequence(Append(sent, d)) /\ Len(Append(sent, d)) = Len(sent) + 1
        /\ Append(sent, d)[Len(sent) + 1] = d
    BY <1>0, Appended
  <2> QED BY <1>2, <1>9, <2>1
<1>11. \A e : IsSent(e)' <=> e = d
  BY <1>10 DEF IsSent
<1>12. Over(d)' /\ \A e \in 1..Len(deployments) : Over(e) => Over(e)'
  BY <1>3 DEF Over
<1>13. \A e \in 1..Len(deployments) : ApprovedAt(e) => ApprovedAt(e)'
  BY <1>1, <1>3, ApprovedStands
<1>14. \A e \in 1..Len(deployments) :
         /\ deployments'[e].attempt \in Nat \ {0} /\ deployments'[e].passed \in Nat
         /\ deployments'[e].passed > 0 => deployments'[e].attempt = 1 /\ e < 3 /\ ApprovedAt(e)'
         /\ IsSent(e)' => e < 3 /\ Over(e)' /\ ApprovedAt(e)'
  BY <1>3, <1>4, <1>5, <1>11, <1>12, <1>13
<1>15. 1 < Len(deployments') /\ deployments'[2].passed > 0 => Over(1)' /\ ~IsSent(1)'
  <2>1. 1 < Len(deployments) => 2 \in 1..Len(deployments)
    BY <1>0
  <2>2. CASE d = 2
    BY <1>5, <1>7, <1>11, <1>12, <2>2
  <2>3. CASE d = 1
    <3>1. SUFFICES ASSUME 1 < Len(deployments), deployments[2].passed > 0 PROVE FALSE
      BY <1>3, <2>1
    <3>2. Over(1)
      BY <1>4, <3>1
    <3> QED BY <1>5, <2>3, <3>2
  <2> QED BY <1>6, <2>2, <2>3
<1>16. IsSent(1)' => deployments'[1].attempt > 1 \/ deployments'[1].status = "sent"
  BY <1>3, <1>11
<1>17. IsSent(2)' => Over(1)'
  BY <1>5, <1>7, <1>11, <1>12
<1>18. Len(sent') < 2 /\ \A i \in 1..Len(sent') : sent'[i] \in 1..Len(deployments')
  BY <1>3, <1>10
<1>19. DeployInv'
  BY <1>3, <1>14, <1>15, <1>16, <1>17, <1>18 DEF DeployInv
<1> QED BY <1>1, <1>3, <1>10, <1>19, OneDeploys

LEMMA DeploymentFailsKeeps ==
  ASSUME IInv, NEW d \in 1..Len(deployments), DeploymentFails(d)
  PROVE  IInv'
<1>1. /\ DeploysOnly /\ Running(d) /\ sent' = sent
      /\ deployments' = [deployments EXCEPT ![d].status = "failed"]
  BY DEF DeploymentFails, DeploysOnly, repository, evidence
<1> QED BY <1>1, FailureKeeps

LEMMA DeployAgainKeeps ==
  ASSUME IInv, NEW d \in 1..Len(deployments), DeployAgain(d)
  PROVE  IInv'
<1>0. /\ Types /\ DeployInv /\ Len(deployments) \in Nat /\ Len(sent) \in Nat /\ IsSequence(sent)
      /\ Typed(deployments, DeploymentFields)
  BY Counts DEF IInv, Types
<1>1. DeploysOnly /\ sent' = sent
  BY DEF DeploysOnly, DeployAgain, repository, evidence
<1>2. /\ deployments' = [deployments EXCEPT ![d].attempt = @ + 1, ![d].passed = 0,
                                            ![d].status = "running"]
      /\ d \in 1..Len(deployments)
  BY DEF DeployAgain
<1>3. Replaces(deployments, deployments', d, DeploymentFields) /\ Typed(deployments, DeploymentFields)'
  BY ONLY <1>0, <1>2, DeploymentAgain, Zenon
<1>4. /\ deployments'[d].commit \in {deployments[d].commit}
      /\ deployments'[d].attempt \in {deployments[d].attempt + 1}
      /\ deployments'[d].passed \in {0}
  BY ONLY <1>0, <1>2, DeploymentAgain, Zenon
<1>5. /\ \A e \in 1..Len(deployments) :
           /\ deployments[e].attempt \in Nat \ {0} /\ deployments[e].passed \in Nat
           /\ deployments[e].passed > 0 => deployments[e].attempt = 1 /\ e < 3 /\ ApprovedAt(e)
           /\ IsSent(e) => e < 3 /\ Over(e) /\ ApprovedAt(e)
      /\ 1 < Len(deployments) /\ deployments[2].passed > 0 => Over(1) /\ ~IsSent(1)
      /\ Len(sent) < 2 /\ \A i \in 1..Len(sent) : sent[i] \in 1..Len(deployments)
      /\ IsSent(1) => deployments[1].attempt > 1 \/ deployments[1].status = "sent"
      /\ IsSent(2) => Over(1)
  BY <1>0 DEF DeployInv
<1>6. deployments'[d].attempt \in Nat \ {0} /\ deployments'[d].attempt > 1
  <2>1. deployments[d].attempt \in Nat \ {0}
    BY <1>5
  <2>2. deployments'[d].attempt = deployments[d].attempt + 1
    BY <1>4
  <2> QED BY ONLY <2>1, <2>2
<1>7. /\ Len(deployments') = Len(deployments)
      /\ \A e \in 1..Len(deployments) : e # d => deployments'[e] = deployments[e]
  BY <1>3 DEF Replaces
<1>8. \A e : IsSent(e)' <=> IsSent(e)
  BY <1>1 DEF IsSent
<1>9. \A e \in 1..Len(deployments) : Over(e) => Over(e)'
  BY <1>6, <1>7 DEF Over
<1>10. \A e \in 1..Len(deployments) : deployments'[e].commit = deployments[e].commit
  BY <1>4, <1>7
<1>11. \A e \in 1..Len(deployments) : ApprovedAt(e) => ApprovedAt(e)'
  BY <1>1, <1>10, ApprovedStands
<1>12. ASSUME NEW e \in 1..Len(deployments)
       PROVE  /\ deployments'[e].attempt \in Nat \ {0} /\ deployments'[e].passed \in Nat
              /\ deployments'[e].passed > 0 =>
                   deployments[e].passed > 0 /\ deployments'[e].attempt = 1 /\ e < 3 /\ ApprovedAt(e)'
              /\ IsSent(e)' => e < 3 /\ Over(e)' /\ ApprovedAt(e)'
  <2>1. CASE e = d
    BY <1>4, <1>5, <1>6, <1>8, <1>9, <1>11, <2>1
  <2>2. CASE e # d
    BY <1>5, <1>7, <1>8, <1>9, <1>11, <2>2
  <2> QED BY <2>1, <2>2
<1>13. 1 < Len(deployments') /\ deployments'[2].passed > 0 => Over(1)' /\ ~IsSent(1)'
  <2>1. 1 < Len(deployments) => 1 \in 1..Len(deployments) /\ 2 \in 1..Len(deployments)
    BY <1>0
  <2> QED BY <1>5, <1>7, <1>8, <1>9, <1>12, <2>1
<1>14. 1 \in 1..Len(deployments)
  BY <1>0
<1>15. IsSent(1)' => deployments'[1].attempt > 1 \/ deployments'[1].status = "sent"
  BY <1>5, <1>6, <1>7, <1>8, <1>14
<1>16. DeployInv'
  BY <1>1, <1>5, <1>7, <1>8, <1>9, <1>12, <1>13, <1>14, <1>15 DEF DeployInv
<1> QED BY <1>0, <1>1, <1>3, <1>10, <1>16, OneDeploys

LEMMA DeployKeeps ==
  ASSUME IInv, NEW d \in 1..Len(deployments), Deploy(d)
  PROVE  IInv'
BY AuthorizeKeeps, SendKeeps, DeploymentFailsKeeps, DeployAgainKeeps DEF Deploy

LEMMA ContinueApprovedKeeps ==
  ASSUME IInv, ContinueApproved
  PROVE  IInv'
<1>0. /\ Types /\ DeployInv /\ GraphInv /\ Len(deployments) \in Nat /\ Len(sent) \in Nat
      /\ IsSequence(sent) /\ Typed(deployments, DeploymentFields)
  BY Counts DEF IInv, Types
<1>1. DeploysOnly /\ sent' = sent /\ deployments # << >>
  BY DEF DeploysOnly, ContinueApproved, repository, evidence
<1>2. PICK x : x = [commit |-> main, attempt |-> 1, passed |-> 0, status |-> "running"]
  OBVIOUS
<1>3. deployments' = Append(deployments, x) /\ DOMAIN x = DeploymentFields
  BY <1>2 DEF ContinueApproved, DeploymentFields
<1>4. x.commit = main /\ x.attempt = 1 /\ x.passed = 0 /\ x.status = "running"
  BY <1>2
<1>5. Typed(deployments', DeploymentFields) /\ Extends(deployments, deployments', x)
  BY ONLY <1>0, <1>3, OneAdded, Zenon
<1>6. Typed(deployments, DeploymentFields)'
  BY <1>5 DEF Typed, DeploymentFields
<1>7. PICK n : n = Len(deployments) + 1 /\ n \in Nat /\ n > 1
  <2>1. Len(deployments) # 0
    <3>1. IsSequence(deployments)
      BY <1>0 DEF Typed
    <3> QED BY <1>1, <3>1 DEF IsSequence
  <2> QED BY <1>0, <2>1
<1>8. /\ Len(deployments') = n /\ deployments'[n] = x
      /\ \A e \in 1..Len(deployments) : deployments'[e] = deployments[e]
  BY <1>5, <1>7 DEF Extends
<1>9. \A e \in 1..Len(deployments') : e = n \/ e \in 1..Len(deployments)
  BY <1>0, <1>7, <1>8
<1>10. \A e : IsSent(e)' <=> IsSent(e)
  BY <1>1 DEF IsSent
<1>11. ~IsSent(n)
  <2>1. \A i \in 1..Len(sent) : sent[i] \in 1..Len(deployments)
    BY <1>0 DEF DeployInv
  <2> QED BY <1>0, <1>7, <2>1 DEF IsSent
<1>12. \A e \in 1..Len(deployments) : Over(e)' <=> Over(e)
  BY <1>8 DEF Over
<1>13. \A e \in 1..Len(deployments) : ApprovedAt(e) => ApprovedAt(e)'
  BY <1>1, <1>8, ApprovedStands
<1>14. /\ \A e \in 1..Len(deployments) :
            /\ deployments[e].attempt \in Nat \ {0} /\ deployments[e].passed \in Nat
            /\ deployments[e].passed > 0 => deployments[e].attempt = 1 /\ e < 3 /\ ApprovedAt(e)
            /\ IsSent(e) => e < 3 /\ Over(e) /\ ApprovedAt(e)
       /\ 1 < Len(deployments) /\ deployments[2].passed > 0 => Over(1) /\ ~IsSent(1)
       /\ Len(sent) < 2 /\ \A i \in 1..Len(sent) : sent[i] \in 1..Len(deployments)
       /\ IsSent(1) => deployments[1].attempt > 1 \/ deployments[1].status = "sent"
       /\ IsSent(2) => Over(1)
  BY <1>0 DEF DeployInv
<1>15. ASSUME NEW e \in 1..Len(deployments)
       PROVE  /\ deployments'[e].attempt = deployments[e].attempt
              /\ deployments'[e].passed = deployments[e].passed
              /\ deployments'[e].status = deployments[e].status
  BY <1>8
<1>16. ASSUME NEW e \in 1..Len(deployments')
       PROVE  /\ deployments'[e].attempt \in Nat \ {0} /\ deployments'[e].passed \in Nat
              /\ deployments'[e].passed > 0 => deployments'[e].attempt = 1 /\ e < 3 /\ ApprovedAt(e)'
              /\ IsSent(e)' => e < 3 /\ Over(e)' /\ ApprovedAt(e)'
  <2>1. CASE e = n
    BY <1>4, <1>8, <1>10, <1>11, <2>1
  <2>2. CASE e \in 1..Len(deployments)
    <3>1. /\ deployments[e].attempt \in Nat \ {0} /\ deployments[e].passed \in Nat
          /\ deployments[e].passed > 0 => deployments[e].attempt = 1 /\ e < 3 /\ ApprovedAt(e)
          /\ IsSent(e) => e < 3 /\ Over(e) /\ ApprovedAt(e)
      BY <1>14, <2>2
    <3>2. /\ IsSent(e)' => IsSent(e)
          /\ Over(e) => Over(e)'
          /\ ApprovedAt(e) => ApprovedAt(e)'
      BY <1>10, <1>12, <1>13, <2>2
    <3>3. /\ deployments'[e].attempt = deployments[e].attempt
          /\ deployments'[e].passed = deployments[e].passed
      BY <1>15, <2>2
    <3> QED BY ONLY <3>1, <3>2, <3>3
  <2> QED BY <1>9, <2>1, <2>2
<1>17. 1 \in 1..Len(deployments)
  BY <1>0, <1>7
<1>18. 1 < Len(deployments') /\ deployments'[2].passed > 0 => Over(1)' /\ ~IsSent(1)'
  <2>1. CASE n = 2
    BY <1>4, <1>8, <2>1
  <2>2. CASE n # 2
    <3>1. 2 \in 1..Len(deployments) /\ 1 < Len(deployments)
      BY <1>0, <1>7, <2>2
    <3>2. deployments[2].passed > 0 => Over(1) /\ ~IsSent(1)
      BY <1>14, <3>1
    <3>3. deployments'[2].passed = deployments[2].passed
      BY <1>15, <3>1
    <3>4. (Over(1) => Over(1)') /\ (IsSent(1)' => IsSent(1))
      BY <1>10, <1>12, <1>17
    <3> QED BY ONLY <3>2, <3>3, <3>4
  <2> QED BY <2>1, <2>2
<1>19. \A i \in 1..Len(sent') : sent'[i] \in 1..Len(deployments')
  <2>1. \A i \in 1..Len(sent) : sent[i] \in 1..Len(deployments)
    BY <1>14
  <2>2. Len(deployments') = Len(deployments) + 1
    BY <1>7, <1>8
  <2> QED BY ONLY <1>0, <1>1, <2>1, <2>2
<1>20. /\ Len(sent') < 2
       /\ IsSent(1)' => deployments'[1].attempt > 1 \/ deployments'[1].status = "sent"
       /\ IsSent(2)' => Over(1)'
  <2>1. /\ Len(sent) < 2
        /\ IsSent(1) => deployments[1].attempt > 1 \/ deployments[1].status = "sent"
        /\ IsSent(2) => Over(1)
    BY <1>14
  <2>2. /\ deployments'[1].attempt = deployments[1].attempt
        /\ deployments'[1].status = deployments[1].status
    BY <1>17, <1>15
  <2>3. (Over(1) => Over(1)') /\ (IsSent(1)' => IsSent(1)) /\ (IsSent(2)' => IsSent(2))
    BY <1>10, <1>12, <1>17
  <2> QED BY ONLY <1>1, <2>1, <2>2, <2>3
<1>21. DeployInv'
  BY ONLY <1>16, <1>18, <1>19, <1>20 DEF DeployInv
<1>22. \A d \in 1..Len(deployments') :
         \/ d \in 1..Len(deployments) /\ deployments'[d].commit = deployments[d].commit
         \/ d > 1 /\ deployments'[d].commit \in 1..Len(commits)
  <2>1. main \in 1..Len(commits)
    BY <1>0 DEF GraphInv
  <2> QED BY <1>4, <1>7, <1>8, <1>9, <2>1
<1>23. Len(deployments) <= Len(deployments') /\ deployments' # << >> /\ IsSequence(sent')
  BY <1>0, <1>1, <1>7, <1>8
<1> QED BY <1>1, <1>6, <1>21, <1>22, <1>23, DeploysKeep
-----------------------------------------------------------------------------
LEMMA StutterKeeps ==
  ASSUME IInv, UNCHANGED vars
  PROVE  IInv'
<1>0. /\ Types /\ GraphInv /\ MergedInv /\ ChecksInv /\ RunsInv /\ RecordsInv /\ DeployInv
      /\ Len(runs) \in Nat /\ Len(commits) \in Nat /\ Len(tests) \in Nat /\ Len(sent) \in Nat
  BY Counts DEF IInv
<1>1. /\ commits' = commits /\ main' = main /\ sync' = sync /\ request' = request
      /\ checks' = checks /\ tests' = tests /\ comments' = comments /\ contract' = contract
      /\ runs' = runs /\ deployments' = deployments /\ sent' = sent
  BY DEF vars, repository, evidence
<1>2. Grows /\ NoNewPartial /\ TestsKept
  BY <1>0, <1>1, SameHistory DEF NoNewPartial, TestsKept
<1>3. Types'
  BY <1>0, <1>1 DEF Types, Typed, CheckFields, TestFields, CommentFields, RunFields,
                    DeploymentFields, ContractFields
<1>4. GraphInv' /\ MergedInv' /\ ChecksInv'
  BY <1>0, <1>1, <1>2, GraphKept, MergedKept, ChecksKept
<1>5. RunsInv' /\ RecordsInv'
  BY <1>0, <1>1, <1>2, RunsKept, RecordsKept
<1>6. DeployInv'
  BY <1>0, <1>1, <1>2, DeployKept
<1> QED BY <1>3, <1>4, <1>5, <1>6 DEF IInv

LEMMA NextKeeps ==
  ASSUME IInv, [Next]_vars
  PROVE  IInv'
<1>1. CASE Git
  BY <1>1, GitKeeps
<1>2. CASE GitHub
  BY <1>2, GitHubKeeps
<1>3. CASE \E kind \in {"validate", "ready", "update"} : Dispatch(kind)
  BY <1>3, DispatchKeeps
<1>4. CASE \E r \in 1..Len(runs) : Recovery(r)
  BY <1>4, RecoveryKeeps
<1>5. CASE \E d \in 1..Len(deployments) : Deploy(d)
  BY <1>5, DeployKeeps
<1>6. CASE ContinueApproved
  BY <1>6, ContinueApprovedKeeps
<1>7. CASE UNCHANGED vars
  BY <1>7, StutterKeeps
<1> QED BY <1>1, <1>2, <1>3, <1>4, <1>5, <1>6, <1>7 DEF Next

LEMMA InitIInv ==
  ASSUME Init
  PROVE  IInv
<1>1. /\ Len(commits) = 6
      /\ commits[1] = NewCommit("source", << >>, {1}, NoMarker)
      /\ commits[2] = NewCommit("release", <<1>>, {1, 2}, NoMarker)
      /\ commits[3] = NewCommit("activation", <<1>>, {1, 3}, NoMarker)
      /\ commits[4] = NewCommit(Nothing, <<1, 3>>, {1, 3}, NoMarker)
      /\ commits[5] = NewCommit("continuation", <<4>>, {1, 3, 5}, NoMarker)
      /\ commits[6] = NewCommit(Nothing, <<4, 5>>, {1, 3, 5}, NoMarker)
  BY DEF Init
<1>2. IsSequence(commits)
  <2>1. PICK S : S = {NewCommit("source", << >>, {1}, NoMarker),
                  NewCommit("release", <<1>>, {1, 2}, NoMarker),
                  NewCommit("activation", <<1>>, {1, 3}, NoMarker),
                  NewCommit(Nothing, <<1, 3>>, {1, 3}, NoMarker),
                  NewCommit("continuation", <<4>>, {1, 3, 5}, NoMarker),
                  NewCommit(Nothing, <<4, 5>>, {1, 3, 5}, NoMarker)}
    OBVIOUS
  <2>2. commits \in Seq(S)
    BY <2>1 DEF Init
  <2> QED BY <2>2 DEF IsSequence
<1>3. /\ main = 6 /\ sync = 2 /\ request.merge = None
      /\ checks = <<[suite |-> 1, status |-> "failure", done |-> 1]>>
      /\ tests = << >> /\ comments = << >> /\ runs = << >> /\ deployments = << >> /\ sent = << >>
      /\ contract.check = None /\ contract.prior = None
      /\ DOMAIN contract = ContractFields
  BY DEF Init, ContractFields, Release
<1>4. /\ Len(checks) = 1 /\ Len(tests) = 0 /\ Len(comments) = 0 /\ Len(runs) = 0
      /\ Len(deployments) = 0 /\ Len(sent) = 0
      /\ checks[1] = [suite |-> 1, status |-> "failure", done |-> 1]
  BY <1>3
<1>5. Types
  <2>1. << >> \in Seq({}) /\ IsSequence(<< >>)
    BY DEF IsSequence
  <2>2. IsSequence(checks)
    <3>1. PICK x : x = [suite |-> 1, status |-> "failure", done |-> 1]
      OBVIOUS
    <3>2. checks = <<x>>
      BY <1>3, <3>1
    <3>3. checks \in Seq({x})
      BY ONLY <3>2
    <3> QED BY <3>3 DEF IsSequence
  <2>3. DOMAIN checks[1] = CheckFields
    BY <1>4 DEF CheckFields
  <2>4. Typed(checks, CheckFields)
    <3>1. \A i \in 1..Len(checks) : DOMAIN checks[i] = CheckFields
      BY <1>4, <2>3
    <3> QED BY <2>2, <3>1 DEF Typed
  <2>5. \A fields : Typed(<< >>, fields)
    BY <2>1 DEF Typed
  <2> QED BY <1>2, <1>3, <2>1, <2>4, <2>5 DEF Types
<1>6. /\ Parents(1) = << >> /\ Parents(2) = <<1>> /\ Parents(3) = <<1>> /\ Parents(4) = <<1, 3>>
      /\ Parents(5) = <<4>> /\ Parents(6) = <<4, 5>>
      /\ Tree(1) = {1} /\ Tree(2) = {1, 2} /\ Tree(3) = {1, 3} /\ Tree(4) = {1, 3}
      /\ Tree(5) = {1, 3, 5} /\ Tree(6) = {1, 3, 5}
      /\ commits[1].adds = "source" /\ commits[2].adds = "release"
      /\ commits[3].adds = "activation" /\ commits[4].adds = Nothing
      /\ commits[5].adds = "continuation" /\ commits[6].adds = Nothing
  BY <1>1 DEF NewCommit, Parents, Tree
<1>7. GraphInv
  <2>1. ASSUME NEW c \in 1..6
        PROVE  /\ \A i \in 1..Len(Parents(c)) : Parents(c)[i] \in 1..(c - 1)
               /\ Tree(c) \subseteq 1..c
    <3>1. c = 1 \/ c = 2 \/ c = 3 \/ c = 4 \/ c = 5 \/ c = 6
      OBVIOUS
    <3> QED BY <1>6, <3>1
  <2> QED BY <1>1, <1>3, <1>6, <2>1 DEF GraphInv, Source, Release, None
<1>8. MergedInv
  BY <1>3, <1>4 DEF MergedInv, Open
<1>9. ~Recovered
  BY <1>3, <1>4 DEF Recovered, None
<1>10. ChecksInv
  <2>1. \A c \in 1..6 : commits[c].adds # "publication"
    <3>1. ASSUME NEW c \in 1..6 PROVE commits[c].adds # "publication"
      <4>1. c = 1 \/ c = 2 \/ c = 3 \/ c = 4 \/ c = 5 \/ c = 6
        OBVIOUS
      <4>2. Nothing # "publication"
        BY DEF Nothing
      <4> QED BY <1>6, <4>1, <4>2
    <3> QED BY <3>1
  <2>2. checks[1].done = 1
    BY <1>4
  <2> QED BY <1>1, <1>3, <1>4, <1>9, <2>1, <2>2 DEF ChecksInv
<1>11. RunsInv /\ RecordsInv
  BY <1>4 DEF RunsInv, RecordsInv
<1>12. DeployInv
  BY <1>4 DEF DeployInv, IsSent
<1> QED BY <1>5, <1>7, <1>8, <1>10, <1>11, <1>12 DEF IInv

LEMMA SpecIInv == Spec => []IInv
<1>1. Init => IInv
  BY InitIInv
<1>2. IInv /\ [Next]_vars => IInv'
  BY NextKeeps
<1> QED BY <1>1, <1>2, PTL DEF Spec
-----------------------------------------------------------------------------
(* The hold of main: a recursion from a commit to the one before.          *)
HeldBy(held, d) ==
  \/ AssociationRepairMerge(d) \/ SyncMerge(d)
  \/ \E review \in Later :
       DirectMerge(d, review) /\ Follows(review, Parents(d)[1]) /\ held[Parents(d)[1]]
LEMMA HeldByEarlier ==
  ASSUME GraphInv, Len(commits) \in Nat, NEW d \in 1..Len(commits), NEW f, NEW g,
         \A c \in 1..(d - 1) : f[c] = g[c]
  PROVE  HeldBy(f, d) = HeldBy(g, d)
<1>1. \A review : DirectMerge(d, review) => f[Parents(d)[1]] = g[Parents(d)[1]]
  BY TwoParents DEF DirectMerge
<1> QED BY <1>1, Zenon DEF HeldBy

LEMMA HeldExists ==
  ASSUME GraphInv, Len(commits) \in Nat
  PROVE  \E f : f = [d \in 1..Len(commits) |-> HeldBy(f, d)]
<1> DEFINE n == Len(commits)
           Holds(f, m) == f = [d \in 1..m |-> HeldBy(f, d)]
           T == {m \in Nat : m <= n => \E f : Holds(f, m)}
<1>1. 0 \in T
  <2>1. Holds([d \in 1..0 |-> {}], 0)
    OBVIOUS
  <2> QED BY <2>1
<1>2. ASSUME NEW m \in Nat, m \in T
      PROVE  m + 1 \in T
  <2> SUFFICES ASSUME m + 1 <= n PROVE \E f : Holds(f, m + 1)
    OBVIOUS
  <2>1. PICK f : Holds(f, m)
    BY <1>2
  <2>2. PICK g : g = [d \in 1..(m + 1) |-> IF d = m + 1 THEN HeldBy(f, d) ELSE f[d]]
    OBVIOUS
  <2>3. \A d \in 1..m : g[d] = f[d]
    BY <2>2
  <2>4. ASSUME NEW d \in 1..(m + 1)
        PROVE  g[d] = HeldBy(g, d)
    <3>1. \A c \in 1..(d - 1) : f[c] = g[c]
      BY <2>3
    <3>2. HeldBy(f, d) = HeldBy(g, d)
      <4>1. d \in 1..Len(commits)
        OBVIOUS
      <4> QED BY <3>1, <4>1, HeldByEarlier
    <3>3. CASE d = m + 1
      <4>1. g[d] = HeldBy(f, d)
        BY <2>2, <3>3, Zenon
      <4> QED BY <3>2, <4>1, Zenon
    <3>4. CASE d # m + 1
      <4>1. d \in 1..m
        BY <3>4
      <4>2. g[d] = f[d]
        BY <2>3, <4>1
      <4>3. f[d] = HeldBy(f, d)
        BY <2>1, <4>1, Zenon
      <4> QED BY <3>2, <4>2, <4>3, Zenon
    <3> QED BY <3>3, <3>4
  <2>5. g = [d \in 1..(m + 1) |-> g[d]]
    BY <2>2
  <2>6. Holds(g, m + 1)
    BY <2>4, <2>5, Zenon
  <2> QED BY <2>6, Zenon
<1>3. n \in T
  <2> HIDE DEF T
  <2> QED BY <1>1, <1>2, NatSetInduction
<1> QED BY <1>3

LEMMA HoldIs ==
  ASSUME GraphInv, Len(commits) \in Nat
  PROVE  \E f : /\ \A d \in 1..Len(commits) : f[d] = HeldBy(f, d)
                /\ \A c : Hold(c) = f[c]
<1>1. PICK f : f = [d \in 1..Len(commits) |-> HeldBy(f, d)]
  BY HeldExists
<1>2. PICK held : held = CHOOSE h : h = [d \in 1..Len(commits) |-> HeldBy(h, d)]
  OBVIOUS
<1>3. held = [d \in 1..Len(commits) |-> HeldBy(held, d)]
  BY <1>1, <1>2, Zenon
<1>4. \A d \in 1..Len(commits) : held[d] = HeldBy(held, d)
  BY <1>3, Zenon
<1>5. \A c : Hold(c) = held[c]
  BY <1>2, Zenon DEF Hold, HeldBy
<1> QED BY <1>4, <1>5

(* The approved merge of the updated branch is held, and so is a reviewed  *)
(* repair of the deployment on it.                                         *)
LEMMA ApprovedIsHeld ==
  ASSUME GraphInv, Len(commits) \in Nat, NEW c \in 1..Len(commits), NEW m, SyncMerge(m),
         c = m \/ (DirectMerge(c, "deployment") /\ Parents(c)[1] = m)
  PROVE  Hold(c)
<1>1. PICK f : /\ \A d \in 1..Len(commits) : f[d] = HeldBy(f, d)
               /\ \A d : Hold(d) = f[d]
  BY HoldIs
<1>2. m \in 1..Len(commits)
  BY TwoParents DEF DirectMerge
<1>3. f[m]
  <2>1. HeldBy(f, m)
    BY DEF HeldBy
  <2> QED BY <1>1, <1>2, <2>1, Zenon
<1>4. f[c]
  <2>1. CASE c = m
    BY <1>3, <2>1
  <2>2. CASE DirectMerge(c, "deployment") /\ Parents(c)[1] = m
    <3>1. Follows("deployment", m) /\ "deployment" \in Later
      BY DEF Follows, Later
    <3>2. HeldBy(f, c)
      BY <1>3, <2>2, <3>1, Zenon DEF HeldBy
    <3> QED BY <1>1, <3>2, Zenon
  <2> QED BY <2>1, <2>2
<1> QED BY <1>1, <1>4, Zenon
-----------------------------------------------------------------------------
LEMMA OneOfAKind ==
  ASSUME IInv
  PROVE  OneRecordOfAKind
<1>1. ASSUME NEW kind
      PROVE  Cardinality({i \in Live(kind) : comments[i].bot}) <= 1
  <2>1. PICK S : S = {i \in Live(kind) : comments[i].bot}
    OBVIOUS
  <2>2. \A i, j \in S : i = j
    BY <2>1 DEF IInv, RecordsInv, Live, Standing
  <2>3. CASE S = {}
    <3>1. Cardinality(S) = 0
      BY <2>3, FS_EmptySet
    <3> QED BY <2>1, <3>1
  <2>4. CASE S # {}
    <3>1. PICK i : S = {i}
      BY <2>2, <2>4
    <3>2. Cardinality(S) = 1
      BY <3>1, FS_Singleton
    <3> QED BY <2>1, <3>2
  <2> QED BY <2>3, <2>4
<1> QED BY <1>1 DEF OneRecordOfAKind

LEMMA SpentOnce ==
  ASSUME IInv
  PROVE  ApprovalIsSpentOnce
<1>1. Len(sent) \in Nat /\ Len(sent) < 2
  BY Counts DEF IInv, DeployInv
<1> QED BY <1>1, OneOfAKind DEF ApprovalIsSpentOnce, OneDeployment

LEMMA Reviewing ==
  ASSUME IInv
  PROVE  ReviewedIsDeployed
<1>0. GraphInv /\ MergedInv /\ DeployInv /\ Len(commits) \in Nat
  BY Counts DEF IInv
<1>1. ASSUME NEW i \in 1..Len(sent)
      PROVE  \E c \in 1..Len(commits) : deployments[sent[i]].commit = c /\ Approves(c)
  <2>1. PICK d \in 1..Len(deployments) : sent[i] = d
    BY <1>0 DEF DeployInv
  <2>2. IsSent(d)
    BY <2>1 DEF IsSent
  <2>3. ApprovedAt(d)
    BY <1>0, <2>2 DEF DeployInv
  <2> QED BY <2>1, <2>3 DEF ApprovedAt
<1>2. DeployedAsReviewed
  <2> SUFFICES ASSUME NEW i \in 1..Len(sent)
      PROVE  LET commit == deployments[sent[i]].commit
                 head == Parents(request.merge)[2]
             IN /\ {commits[c].adds : c \in Tree(commit)}
                     \subseteq {"source", "release", "deployment"} \cup Reviewed
                /\ head # Release =>
                     \E t \in 1..Len(tests) : tests[t].commit = head /\ tests[t].status = "success"
    BY DEF DeployedAsReviewed
  <2>1. PICK c \in 1..Len(commits) : deployments[sent[i]].commit = c /\ Approves(c)
    BY <1>1
  <2> QED BY <2>1 DEF Approves, Adds, Approvable
<1>3. DeployedUnderHold
  <2> SUFFICES ASSUME NEW i \in 1..Len(sent), commits[request.merge].marker.kind = "v2"
      PROVE  Hold(deployments[sent[i]].commit)
    BY DEF DeployedUnderHold
  <2>1. PICK c \in 1..Len(commits) : deployments[sent[i]].commit = c /\ Approves(c)
    BY <1>1
  <2>2. PICK m : m = request.merge
    OBVIOUS
  <2>3. SyncMerge(m) /\ (c = m \/ (DirectMerge(c, "deployment") /\ Parents(c)[1] = m))
    BY <2>1, <2>2 DEF Approves
  <2>4. Hold(c)
    BY <1>0, <2>3, ApprovedIsHeld
  <2> QED BY <2>1, <2>4
<1> QED BY <1>2, <1>3 DEF ReviewedIsDeployed

LEMMA OnlyAuthorizePasses ==
  ASSUME IInv, [Next]_vars, NEW d \in 1..Len(deployments),
         deployments'[d].passed = deployments[d].passed + 1
  PROVE  Authorized(d)
<1>0. /\ Types /\ MergedInv /\ DeployInv /\ Typed(deployments, DeploymentFields)
      /\ Len(deployments) \in Nat /\ deployments[d].passed \in Nat
  BY Counts DEF IInv, Types, DeployInv
<1>1. deployments'[d].passed # deployments[d].passed /\ deployments'[d].passed # 0
  BY <1>0
<1>2. ~Open
  BY <1>0 DEF MergedInv
<1>3. deployments' # deployments
  BY <1>1
<1>4. ~Git
  BY <1>2, <1>3 DEF Git, MergeReview, MergeUnreviewed, UpdateBranch, MergeRequest
<1>5. ~GitHub
  <2>1. ~CheckAgain /\ ~CommentsChange /\ ~Expire
    BY <1>3, Zenon DEF CheckAgain, CommentsChange, Expire
  <2>2. \A i : ~CheckEnds(i) /\ ~TestAgain(i) /\ ~TestEnds(i)
    BY <1>3, Zenon DEF CheckEnds, TestAgain, TestEnds
  <2> QED BY <2>1, <2>2 DEF GitHub
<1>6. \A kind : ~Dispatch(kind)
  BY <1>2 DEF Dispatch
<1>7. \A r : ~Recovery(r)
  BY <1>3 DEF Recovery, RunTests, Attest, PublishCheck, ReadReady, ReadReadyAgain, ReadUpdate,
              ReadUpdateAgain, PostReady, RunFails
<1>8. ~UNCHANGED vars
  BY <1>3 DEF vars
<1>9. ~ContinueApproved
  <2> SUFFICES ASSUME ContinueApproved PROVE FALSE
    OBVIOUS
  <2>1. PICK x : x = [commit |-> main, attempt |-> 1, passed |-> 0, status |-> "running"]
    OBVIOUS
  <2>2. deployments' = Append(deployments, x) /\ DOMAIN x = DeploymentFields
    BY <2>1 DEF ContinueApproved, DeploymentFields
  <2>3. Extends(deployments, deployments', x)
    BY ONLY <1>0, <2>2, OneAdded, Zenon
  <2>4. deployments'[d] = deployments[d]
    BY <2>3 DEF Extends
  <2> QED BY <1>1, <2>4
<1>10. PICK e \in 1..Len(deployments) : Deploy(e)
  BY <1>4, <1>5, <1>6, <1>7, <1>8, <1>9 DEF Next
<1>11. ASSUME NEW status, deployments' = [deployments EXCEPT ![e].status = status]
       PROVE  FALSE
  <2>1. /\ Replaces(deployments, deployments', e, DeploymentFields)
        /\ deployments'[e].passed = deployments[e].passed
    BY <1>0, <1>11, DeploymentEnds
  <2> QED BY <1>1, <2>1 DEF Replaces
<1>12. ASSUME DeployAgain(e) PROVE FALSE
  <2>1. deployments' = [deployments EXCEPT ![e].attempt = @ + 1, ![e].passed = 0,
                                            ![e].status = "running"]
    BY <1>12 DEF DeployAgain
  <2>2. Replaces(deployments, deployments', e, DeploymentFields) /\ deployments'[e].passed \in {0}
    BY ONLY <1>0, <1>10, <2>1, DeploymentAgain, Zenon
  <2> QED BY <1>1, <2>2 DEF Replaces
<1>13. Authorized(e) /\ deployments' = [deployments EXCEPT ![e].passed = @ + 1]
  BY <1>10, <1>11, <1>12, Zenon DEF Deploy, Authorize, Send, DeploymentFails
<1>14. Replaces(deployments, deployments', e, DeploymentFields)
  BY ONLY <1>0, <1>10, <1>13, DeploymentPasses, Zenon
<1>15. d = e
  BY <1>1, <1>14 DEF Replaces
<1> QED BY <1>13, <1>15

LEMMA PublishedAlone ==
  ASSUME ChecksInv, Types, contract.check = 2, PublishedCheckStands
  PROVE  NotSuperseded
<1>1. /\ Len(checks) \in Nat /\ 1 < Len(checks)
      /\ checks[2].done > 1 /\ checks[2].done \in Nat
      /\ \A i \in 3..Len(checks) :
           checks[i].status = "pending" \/ checks[i].done >= checks[2].done
  BY Counts DEF ChecksInv, Recovered
<1>2. \A i \in 1..Len(checks) : Latest(i) /\ i # 2 => Before(i, 2)
  BY DEF PublishedCheckStands, PublishedIsCurrent
<1>3. Len(checks) = 2
  <2>1. SUFFICES ASSUME Len(checks) # 2 PROVE FALSE
    OBVIOUS
  <2>2. Len(checks) \in 3..Len(checks) /\ Len(checks) \in 1..Len(checks)
    <3>1. Len(checks) \in Nat /\ 1 < Len(checks)
      BY <1>1
    <3>2. PICK n : n = Len(checks)
      OBVIOUS
    <3>3. n \in 3..n /\ n \in 1..n
      BY ONLY <2>1, <3>1, <3>2
    <3> QED BY ONLY <3>2, <3>3
  <2>3. Before(Len(checks), 2)
    BY <1>1, <1>2, <2>1, <2>2, LastIsLatest
  <2>4. checks[Len(checks)].status # "pending" /\ checks[Len(checks)].done < checks[2].done
    BY <2>3 DEF Before, Completed
  <2>5. checks[Len(checks)].done >= checks[2].done /\ checks[Len(checks)].done \in Nat
    BY <1>1, <2>2, <2>4 DEF ChecksInv
  <2> QED BY <1>1, <2>4, <2>5
<1>4. checks[1].status = "failure" /\ checks[1].done = 1
  BY DEF ChecksInv
<1>5. \A i \in 1..Len(checks) : i = 1 \/ i = 2
  BY <1>3
<1> QED BY <1>1, <1>4, <1>5 DEF NotSuperseded

LEMMA Superseded ==
  ASSUME IInv, [Next]_vars, NEW d \in 1..Len(deployments),
         deployments[d].passed % 2 = 0, deployments'[d].passed = deployments[d].passed + 1
  PROVE  NotSuperseded
<1>0. Types /\ ChecksInv /\ RecordsInv
  BY DEF IInv
<1>1. Authorized(d)
  BY OnlyAuthorizePasses
<1>2. PICK m, tip : m = request.merge /\ tip = deployments[d].commit
  OBVIOUS
<1>3. FirstRecord(m) \/ CurrentRecord(m, tip)
  BY <1>1, <1>2 DEF Authorized
<1>4. CASE FirstRecord(m)
  <2>1. PICK i : i = ReadyComment("v1")
    OBVIOUS
  <2>2. /\ OneReady /\ comments[i].bot /\ PartialPublicationStands
    BY <1>4, <2>1 DEF FirstRecord
  <2>3. i \in 1..Len(comments)
    BY <2>1, <2>2, OneIsThere DEF OneReady, Live
  <2>4. contract.check = 2
    BY <1>0, <2>2, <2>3 DEF RecordsInv
  <2> QED BY <1>0, <2>2, <2>4, PublishedAlone DEF PartialPublicationStands
<1>5. CASE CurrentRecord(m, tip)
  <2>1. PICK i : i = ReadyComment("v2")
    OBVIOUS
  <2>2. /\ OneCurrent /\ HistoricalEvidence
    BY <1>5 DEF CurrentRecord
  <2>3. i \in 1..Len(comments) /\ comments[i].bot
    BY <2>1, <2>2, OneIsThere DEF OneCurrent, Live
  <2>4. contract.check = 2
    BY <1>0, <2>3 DEF RecordsInv
  <2> QED BY <1>0, <2>2, <2>4, PublishedAlone DEF HistoricalEvidence, PartialPublicationStands
<1> QED BY <1>3, <1>4, <1>5

(* The recovery of the published release: whatever answers are lost and    *)
(* however often a workflow, a check or a deployment is run again, at most *)
(* one readiness record of a kind is live and at most one deployment is    *)
(* sent (_post_ready_comment, authorize, approved_deployment_continuation). *)
THEOREM AnApprovalIsSpentOnce == Spec => []ApprovalIsSpentOnce
<1>1. IInv => ApprovalIsSpentOnce
  BY SpentOnce
<1> QED BY <1>1, SpecIInv, PTL

(* What is deployed holds content of the source, the release and the       *)
(* reviewed repairs alone, its head passed its own tests or is the release *)
(* whose check was recovered, and the approval of an updated branch is     *)
(* under the recovery hold of main (authorize, validate_hold).             *)
THEOREM WhatWasReviewedIsDeployed == Spec => []ReviewedIsDeployed
<1>1. IInv => ReviewedIsDeployed
  BY Reviewing
<1> QED BY <1>1, SpecIInv, PTL

(* No boundary of a deployment passes its first read once another required *)
(* check of the release commit runs or has completed at or after the       *)
(* recovered one (authorize, _published_check_is_current).                 *)
THEOREM ASupersededCheckNeverPasses == Spec => SupersededNeverPasses
<1>1. IInv /\ [Next]_vars =>
        [\A d \in 1..Len(deployments) :
           /\ deployments[d].passed % 2 = 0 /\ deployments'[d].passed = deployments[d].passed + 1
           => NotSuperseded]_vars
  BY Superseded
<1> QED BY <1>1, SpecIInv, PTL DEF Spec, SupersededNeverPasses
=============================================================================
