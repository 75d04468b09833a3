-------------------------- MODULE ApplicationProofs --------------------------
(***************************************************************************)
(* Proofs about the applications: the public archive mirror, for any       *)
(* number of workers, jobs, files, payloads, kills and lost sessions, and  *)
(* the accounts of Moon Tax, for any users, characters, extractions,       *)
(* payments, directors and audits.                                         *)
(*                                                                         *)
(* The argument for the single writer of the mirror: a worker past the     *)
(* lock whose session is alive holds the lock, so there is at most one.    *)
(* From its recovery on no other job is RUNNING, and from its reset on no  *)
(* file but the one it works on is DOWNLOADING, because only statements on *)
(* a live session change these rows.  Nothing here depends on which        *)
(* failures happen.                                                        *)
(*                                                                         *)
(* The argument for the accounts: what a transaction sees, the committed   *)
(* rows under its own writes, adds up at every step of it, and goes on     *)
(* adding up when another one commits.  A transaction either writes no     *)
(* payment or has locked every bill and period, and one that gives money   *)
(* of a payment to a bill, or takes it back, has locked that bill: another *)
(* commit changes no row that is locked and no charge on a bill that is.   *)
(* The sums are taken over finite sets, one member at a time (Total), and  *)
(* every accounting rule is shown to be a revision of the rows it locks.   *)
(***************************************************************************)
EXTENDS MirrorProperties, MoonTaxProperties, TLAPS, FiniteSetTheorems,
        SequenceTheorems, WellFoundedInduction

(* Where a worker holds the lock, and how far its rows are its own.        *)
Working == Steps \ {"idle", "start", "refused"}
Recovered == Working \ {"recover"}
Running == Recovered \ {"claim"}
Batch == {"catalog", "verify", "choose", "unlink"}
Downloading == {"open", "head", "tail", "assert", "retainOld", "recordOld", "link",
                "record", "replace", "store", "cleanup", "failed"}

(* The row of an old payload is written about a current path that exists.  *)
OldExists == \A w \in Workers : At(w, "recordOld") => target[file[w]] # None
TypeInv == TypeOK /\ OldExists

(* A live session past the lock holds it, and the worker has a job.        *)
HolderInv ==
  \A w \in Workers :
    /\ pc[w] # "idle" => mine[w] \in Jobs
    /\ pc[w] \in Working /\ session[w] => lock = w

(* At most one job is RUNNING; past its recovery, the holder's or none.    *)
JobInv ==
  /\ \A i, j \in Jobs : job[i] = "RUNNING" /\ job[j] = "RUNNING" => i = j
  /\ \A w \in Workers : pc[w] \in Recovered /\ session[w] =>
       \A j \in Jobs : job[j] = "RUNNING" => j = mine[w]

(* Past its reset, only the holder's file is DOWNLOADING.                  *)
FileInv ==
  \A w \in Workers : session[w] =>
    /\ pc[w] \in Batch => \A f \in Files : status[f] # "DOWNLOADING"
    /\ pc[w] \in Downloading => \A f \in Files : status[f] = "DOWNLOADING" => f = file[w]

IInv == TypeInv /\ HolderInv /\ JobInv /\ FileInv

-----------------------------------------------------------------------------
(* Type correctness.                                                       *)

LEMMA Bounds == /\ MaxAttempts \in Nat /\ MaxRequests \in Nat /\ MaxDeliveries \in Nat
                /\ MaxKills \in Nat /\ MaxLosses \in Nat /\ MaxFaults \in Nat
                /\ MaxInodes \in Nat /\ MaxVersion \in Nat
BY BoundsAssumption

(* Payloads and what is written of them are contents.                      *)
LEMMA PayloadTypes ==
  /\ 1 \in Versions /\ NoFile \in Files /\ Payload(Hole) \in Contents
  /\ \A v \in Versions : Payload(v) \in Contents
BY BoundsAssumption, VersionAssumption, FilesAssumption
   DEF Versions, NoFile, Payload, Hole, Contents

LEMMA WrittenType ==
  ASSUME NEW c \in Contents, NEW v \in Versions, NEW chunk
  PROVE  Written(c, chunk, v) \in Contents
BY DEF Written, Contents

(* A worker that ends forgets its locals. *)
LEMMA ReturnTypes ==
  ASSUME TypeOK, NEW w \in Workers, Return(w)
  PROVE  /\ pc' \in [Workers -> Steps] /\ pc' = [pc EXCEPT ![w] = "idle"]
         /\ mine' \in [Workers -> Jobs \cup {Nobody}]
         /\ file' \in [Workers -> Files] /\ handle' \in [Workers -> Inodes \cup {None}]
         /\ version' \in [Workers -> Versions]
         /\ attempts' \in [Workers -> 0..MaxAttempts] /\ errors' \in [Workers -> BOOLEAN]
         /\ \A u \in Workers : u # w => file'[u] = file[u] /\ mine'[u] = mine[u]
<1>1. 0 \in 0..MaxAttempts /\ 1 \in Versions /\ NoFile \in Files
  BY PayloadTypes, BoundsAssumption
<1> QED BY <1>1 DEF Return, Goto, TypeOK, Steps

LEMMA TypeInit == Init => TypeInv
<1> SUFFICES ASSUME Init PROVE TypeInv
  OBVIOUS
<1> USE PayloadTypes, BoundsAssumption
<1>1. target \in [Files -> Inodes \cup {None}]
  BY DEF Init
<1>2. digest \in [Files -> Contents] /\ content \in [Inodes -> Contents]
  BY DEF Init
<1>3. revisions \in [Files -> Seq(Contents)]
  BY DEF Init
<1>4. retained \in [Files -> [Contents -> Inodes \cup {None}]]
  BY DEF Init
<1>5. OldExists
  BY DEF Init, OldExists, At
<1> QED BY <1>1, <1>2, <1>3, <1>4, <1>5 DEF Init, TypeOK, TypeInv, Steps, Terminal

(* What retention does to the names and where it leads. *)
LEMMA RetainTypes ==
  ASSUME TypeOK, NEW w \in Workers, NEW f \in Files, NEW i \in Inodes, NEW d \in Contents,
         NEW next \in Steps, Retain(w, f, i, d, next)
  PROVE  /\ retained' \in [Files -> [Contents -> Inodes \cup {None}]]
         /\ pc' \in [Workers -> Steps]
         /\ \E step \in {next, "cleanup"} : pc' = [pc EXCEPT ![w] = step]
<1>1. ASSUME NEW step \in {next, "cleanup"}, pc' = [pc EXCEPT ![w] = step]
      PROVE  pc' \in [Workers -> Steps]
  BY <1>1 DEF TypeOK, Steps
<1>2. CASE retained' = [retained EXCEPT ![f][d] = i] /\ Goto(w, next)
  <2>1. retained[f] \in [Contents -> Inodes \cup {None}]
    BY DEF TypeOK
  <2>2. [retained[f] EXCEPT ![d] = i] \in [Contents -> Inodes \cup {None}]
    BY <2>1
  <2>3. retained' = [retained EXCEPT ![f] = [retained[f] EXCEPT ![d] = i]]
    BY <1>2
  <2>4. retained' \in [Files -> [Contents -> Inodes \cup {None}]]
    BY <2>2, <2>3 DEF TypeOK
  <2> QED BY <1>1, <1>2, <2>4 DEF Goto
<1>3. CASE UNCHANGED retained /\ \E step \in {next, "cleanup"} : Goto(w, step)
  <2>1. retained' \in [Files -> [Contents -> Inodes \cup {None}]]
    BY <1>3 DEF TypeOK
  <2> QED BY <1>1, <1>3, <2>1 DEF Goto
<1> QED BY <1>2, <1>3 DEF Retain

LEMMA ObservedType ==
  ASSUME TypeOK, NEW f \in Files, NEW d \in Contents
  PROVE  Observed(f, d) \in [Files -> Seq(Contents)]
<1>1. revisions[f] \in Seq(Contents)
  BY DEF TypeOK
<1>2. Append(revisions[f], d) \in Seq(Contents)
  BY <1>1
<1> QED BY <1>2 DEF Observed, TypeOK

(* Job steps write job rows and the lock, and move a worker. *)
LEMMA JobTypes ==
  ASSUME TypeInv, NEW w \in Workers, RunJob(w)
  PROVE  TypeInv'
<1> USE Bounds DEF TypeInv
<1>1. CASE AcquireLock(w)
  BY <1>1 DEF AcquireLock, OnDatabase, At, Goto, TypeOK, OldExists, Steps, rows, archive,
     names, jobs, broker, local, transfer, bounds
<1>2. CASE Refuse(w)
  <2>1. job' \in [Jobs -> {"none", "QUEUED", "RUNNING"} \cup Terminal]
    BY <1>2 DEF Refuse, TypeOK, Terminal
  <2> QED
    BY <1>2, <2>1, ReturnTypes DEF Refuse, TypeOK, OldExists, At, rows, archive, names,
       broker, locking, bounds
<1>3. CASE Recover(w)
  <2>1. job' \in [Jobs -> {"none", "QUEUED", "RUNNING"} \cup Terminal]
    BY <1>3 DEF Recover, TypeOK, Terminal
  <2> QED
    BY <1>3, <2>1 DEF Recover, OnDatabase, Goto, TypeOK, OldExists, At, Steps, rows,
       archive, names, broker, locking, local, transfer, bounds
<1>4. CASE Claim(w)
  BY <1>4 DEF Claim, OnDatabase, Goto, TypeOK, OldExists, At, Steps, rows,
     archive, names, broker, locking, local, transfer, bounds
<1>5. CASE Reset(w)
  BY <1>5 DEF Reset, OnDatabase, Goto, TypeOK, OldExists, At, Steps,
     archive, names, jobs, broker, locking, local, transfer, bounds
<1>6. CASE Catalog(w)
  <2>1. pc' \in [Workers -> Steps] /\ \E step \in {"catalog", "choose", "finish"} :
                                         pc' = [pc EXCEPT ![w] = step]
    <3>1. CASE UNCHANGED pc /\ pc[w] = "catalog"
      <4>1. pc' = [pc EXCEPT ![w] = "catalog"]
        BY <3>1 DEF TypeOK
      <4> QED BY <3>1, <4>1 DEF TypeOK
    <3>2. CASE \E next \in {"choose", "finish"} : pc' = [pc EXCEPT ![w] = next]
      BY <3>2 DEF TypeOK, Steps
    <3> QED BY <1>6, <3>1, <3>2 DEF Catalog, OnDatabase, Goto, At
  <2>2. status' \in [Files -> {"PENDING", "DOWNLOADING", "STORED", "FAILED"}]
    BY <1>6 DEF Catalog, TypeOK
  <2> QED
    BY <1>6, <2>1, <2>2 DEF Catalog, TypeOK, OldExists, At,
       archive, names, jobs, broker, locking, local, transfer, bounds
<1>7. CASE Verify(w)
  BY <1>7 DEF Verify, OnDatabase, Goto, TypeOK, OldExists, At, Steps,
     archive, names, jobs, broker, locking, local, transfer, bounds
<1>8. CASE Finish(w)
  <2>1. job' \in [Jobs -> {"none", "QUEUED", "RUNNING"} \cup Terminal]
    BY <1>8 DEF Finish, TypeOK, Terminal
  <2> QED
    BY <1>8, <2>1 DEF Finish, OnDatabase, Goto, TypeOK, OldExists, At, Steps, rows,
       archive, names, broker, locking, local, transfer, bounds
<1>9. CASE ReleaseLock(w)
  BY <1>9, ReturnTypes DEF ReleaseLock, TypeOK, OldExists, At, rows, archive, names,
     jobs, broker, bounds
<1> QED
  BY <1>1, <1>2, <1>3, <1>4, <1>5, <1>6, <1>7, <1>8, <1>9 DEF RunJob

(* The steps of a download write the file rows, the names and the bytes. *)
LEMMA DownloadTypes ==
  ASSUME TypeInv, NEW w \in Workers, Download(w)
  PROVE  TypeInv'
<1> USE Bounds, PayloadTypes DEF TypeInv
<1> DEFINE f == file[w]
<1>f. f \in Files /\ version[w] \in Versions /\ Payload(version[w]) \in Contents
  BY DEF TypeOK
<1>1. CASE Choose(w)
  <2>1. attempts' \in [Workers -> 0..MaxAttempts]
    <3>1. attempts[w] \in 0..MaxAttempts
      BY DEF TypeOK
    <3>2. CASE attempts[w] < MaxAttempts /\ attempts' = [attempts EXCEPT ![w] = attempts[w] + 1]
      <4>1. attempts[w] + 1 \in 0..MaxAttempts
        BY <3>1, <3>2
      <4> QED BY <3>2, <4>1 DEF TypeOK
    <3> QED BY <1>1, <3>2 DEF Choose, TypeOK
  <2>2. status' \in [Files -> {"PENDING", "DOWNLOADING", "STORED", "FAILED"}]
    BY <1>1 DEF Choose, TypeOK
  <2>3. /\ pc' \in [Workers -> Steps] /\ file' \in [Workers -> Files]
        /\ \A u \in Workers : u # w => file'[u] = file[u]
        /\ \E step \in {"open", "finish"} : pc' = [pc EXCEPT ![w] = step]
    <3>1. \/ file' = file /\ pc' = [pc EXCEPT ![w] = "finish"]
          \/ \E g \in Files : file' = [file EXCEPT ![w] = g] /\ pc' = [pc EXCEPT ![w] = "open"]
      BY <1>1 DEF Choose, Goto
    <3>2. CASE file' = file /\ pc' = [pc EXCEPT ![w] = "finish"]
      BY <3>2 DEF TypeOK, Steps
    <3>3. ASSUME NEW g \in Files, file' = [file EXCEPT ![w] = g],
                 pc' = [pc EXCEPT ![w] = "open"]
          PROVE  <2>3
      BY <3>3 DEF TypeOK, Steps
    <3> QED BY <3>1, <3>2, <3>3
  <2> QED
    BY <1>1, <2>1, <2>2, <2>3 DEF Choose, TypeOK, OldExists, At,
       archive, names, jobs, broker, locking, bounds
<1>2. CASE Open(w)
  <2>1. PICK i \in IF temp[f] # None THEN {temp[f]}
                   ELSE {k \in Free : \A l \in Free : k <= l} :
          /\ temp' = [temp EXCEPT ![f] = i]
          /\ content' = [content EXCEPT ![i] = Payload(Hole)]
          /\ handle' = [handle EXCEPT ![w] = i]
    BY <1>2 DEF Open
  <2>2. i \in Inodes
    BY <2>1, <1>f DEF Free, TypeOK
  <2>3. PICK v \in Versions : version' = [version EXCEPT ![w] = v]
    BY <1>2 DEF Open
  <2> QED
    BY <1>2, <1>f, <2>1, <2>2, <2>3 DEF Open, Goto, TypeOK, OldExists, At, Steps,
       rows, jobs, broker, locking, bounds
<1>3. ASSUME NEW chunk, NEW step, NEW next \in {"tail", "assert"}, Stream(w, step, chunk, next)
      PROVE  TypeInv'
  <2>1. content' = [content EXCEPT ![handle[w]] = Written(content[handle[w]], chunk, version[w])]
    BY <1>3 DEF Stream
  <2>2. content' \in [Inodes -> Contents]
    <3>1. CASE handle[w] \in Inodes
      BY <3>1, <2>1, <1>f, WrittenType DEF TypeOK
    <3>2. CASE handle[w] \notin Inodes
      BY <3>2, <2>1 DEF TypeOK
    <3> QED BY <3>1, <3>2
  <2> QED
    BY <1>3, <2>2 DEF Stream, Goto, TypeOK, OldExists, At, Steps,
       rows, names, jobs, broker, locking, local, transfer, bounds
<1>4. CASE AssertLock(w)
  BY <1>4 DEF AssertLock, OnDatabase, Goto, TypeOK, OldExists, At, Steps,
     rows, archive, names, jobs, broker, locking, bounds
<1>5. CASE RetainOld(w)
  <2>1. CASE revisions[f] # << >> /\ Goto(w, "link") /\ UNCHANGED retained
    BY <1>5, <2>1 DEF RetainOld, Goto, TypeOK, OldExists, At, Steps,
       rows, jobs, broker, locking, local, transfer, bounds
  <2>2. CASE /\ target[f] # None
             /\ Retain(w, f, target[f], content[target[f]], "recordOld")
    <3>1. target[f] \in Inodes /\ content[target[f]] \in Contents
      BY <1>f, <2>2 DEF TypeOK
    <3>2. /\ retained' \in [Files -> [Contents -> Inodes \cup {None}]]
          /\ pc' \in [Workers -> Steps]
          /\ \E step \in {"recordOld", "cleanup"} : pc' = [pc EXCEPT ![w] = step]
      BY <1>f, <2>2, <3>1, RetainTypes DEF Steps
    <3> QED
      BY <1>5, <2>2, <3>2 DEF RetainOld, TypeOK, OldExists, At,
         rows, jobs, broker, locking, local, transfer, bounds
  <2> QED BY <1>5, <2>1, <2>2 DEF RetainOld
<1>6. CASE RecordOld(w)
  <2>1. content[target[f]] \in Contents
    BY <1>6, <1>f DEF RecordOld, OnDatabase, OldExists, At, TypeOK
  <2>2. revisions' \in [Files -> Seq(Contents)]
    BY <1>6, <1>f, <2>1, ObservedType DEF RecordOld
  <2> QED
    BY <1>6, <2>2 DEF RecordOld, OnDatabase, Goto, TypeOK, OldExists, At, Steps,
       archive, names, jobs, broker, locking, local, transfer, bounds
<1>7. CASE Link(w)
  <2>1. CASE temp[f] = None /\ Goto(w, "replace") /\ UNCHANGED retained
    BY <1>7, <2>1 DEF Link, Goto, TypeOK, OldExists, At, Steps,
       rows, jobs, broker, locking, local, transfer, bounds
  <2>2. CASE temp[f] # None /\ Retain(w, f, temp[f], Payload(version[w]), "record")
    <3>1. temp[f] \in Inodes
      BY <1>f, <2>2 DEF TypeOK
    <3>2. /\ retained' \in [Files -> [Contents -> Inodes \cup {None}]]
          /\ pc' \in [Workers -> Steps]
          /\ \E step \in {"record", "cleanup"} : pc' = [pc EXCEPT ![w] = step]
      BY <1>f, <2>2, <3>1, RetainTypes DEF Steps
    <3> QED
      BY <1>7, <3>2 DEF Link, TypeOK, OldExists, At,
         rows, jobs, broker, locking, local, transfer, bounds
  <2> QED BY <1>7, <2>1, <2>2 DEF Link
<1>8. CASE Record(w)
  <2>1. revisions' \in [Files -> Seq(Contents)]
    <3>1. Observed(f, Payload(version[w])) \in [Files -> Seq(Contents)]
      BY <1>f, ObservedType
    <3> QED BY <1>8, <3>1 DEF Record, TypeOK
  <2> QED
    BY <1>8, <2>1 DEF Record, OnDatabase, Goto, TypeOK, OldExists, At, Steps,
       archive, names, jobs, broker, locking, local, transfer, bounds
<1>9. CASE Replace(w)
  <2>1. /\ target' \in [Files -> Inodes \cup {None}] /\ temp' \in [Files -> Inodes \cup {None}]
        /\ \A g \in Files : target[g] # None => target'[g] # None
    BY <1>9, <1>f DEF Replace, TypeOK
  <2> QED
    BY <1>9, <2>1 DEF Replace, Goto, TypeOK, OldExists, At, Steps,
       rows, jobs, broker, locking, local, transfer, bounds
<1>10. CASE Store(w)
  BY <1>10, <1>f DEF Store, OnDatabase, Goto, TypeOK, OldExists, At, Steps,
     archive, names, jobs, broker, locking, local, transfer, bounds
<1>11. CASE Unlink(w)
  <2>1. content' \in [Inodes -> Contents]
    BY <1>11 DEF Unlink, TypeOK
  <2>2. temp' \in [Files -> Inodes \cup {None}] /\ version' \in [Workers -> Versions]
    BY <1>11 DEF Unlink, TypeOK
  <2>3. pc' \in [Workers -> Steps] /\ \E step \in {"choose", "failed"} :
                                         pc' = [pc EXCEPT ![w] = step]
    BY <1>11 DEF Unlink, Goto, TypeOK, Steps
  <2> QED
    BY <1>11, <2>1, <2>2, <2>3 DEF Unlink, TypeOK, OldExists, At,
       rows, jobs, broker, locking, bounds
<1>12. CASE MarkFailed(w)
  BY <1>12 DEF MarkFailed, OnDatabase, Goto, TypeOK, OldExists, At, Steps,
     archive, names, jobs, broker, locking, transfer, bounds
<1> QED
  BY <1>1, <1>2, <1>3, <1>4, <1>5, <1>6, <1>7, <1>8, <1>9, <1>10, <1>11, <1>12 DEF Download

LEMMA TypeStep == TypeInv /\ [Next]_vars => TypeInv'
<1> SUFFICES ASSUME TypeInv, [Next]_vars PROVE TypeInv'
  OBVIOUS
<1> USE Bounds, PayloadTypes DEF TypeInv
<1>1. ASSUME NEW j \in Jobs, StartJob(j) PROVE TypeInv'
  <2>1. message' \in [Jobs -> 0..MaxDeliveries]
    BY <1>1 DEF StartJob, TypeOK
  <2>2. requests' \in 0..MaxRequests
    BY <1>1 DEF StartJob, TypeOK
  <2> QED
    BY <1>1, <2>1, <2>2 DEF StartJob, Create, TypeOK, OldExists, At,
       rows, archive, names, locking, local, transfer, bounds
<1>2. ASSUME NEW j \in Jobs, Published(j) PROVE TypeInv'
  <2>1. message' \in [Jobs -> 0..MaxDeliveries]
    <3>1. message' \in {message, [message EXCEPT ![j] = 0]}
      BY <1>2 DEF Published
    <3>2. [message EXCEPT ![j] = 0] \in [Jobs -> 0..MaxDeliveries]
      BY DEF TypeOK
    <3> QED BY <3>1, <3>2 DEF TypeOK
  <2>2. job' \in [Jobs -> {"none", "QUEUED", "RUNNING"} \cup Terminal]
    BY <1>2 DEF Published, TypeOK, Terminal
  <2> QED
    BY <1>2, <2>1, <2>2 DEF Published, TypeOK, OldExists, At,
       rows, archive, names, locking, local, transfer, bounds
<1>3. ASSUME NEW w \in Workers, NEW j \in Jobs, Deliver(w, j) PROVE TypeInv'
  <2>1. message' \in [Jobs -> 0..MaxDeliveries]
    <3>1. message[j] \in 0..MaxDeliveries /\ message[j] - 1 \in 0..MaxDeliveries
      BY <1>3 DEF Deliver, TypeOK
    <3> QED BY <1>3, <3>1 DEF Deliver, TypeOK
  <2> QED
    BY <1>3, <2>1 DEF Deliver, Start, Goto, TypeOK, OldExists, At, Steps,
       rows, archive, names, transfer, bounds
<1>4. ASSUME NEW w \in Workers, NEW j \in Jobs, Schedule(w, j) PROVE TypeInv'
  BY <1>4 DEF Schedule, Create, Start, Goto, TypeOK, OldExists, At, Steps,
     rows, archive, names, broker, transfer, bounds
<1>5. ASSUME NEW w \in Workers, RunJob(w) PROVE TypeInv'
  BY <1>5, JobTypes
<1>6. ASSUME NEW w \in Workers, Download(w) PROVE TypeInv'
  BY <1>6, DownloadTypes
<1>7. ASSUME NEW w \in Workers, DownloadRaises(w) PROVE TypeInv'
  BY <1>7 DEF DownloadRaises, Goto, TypeOK, OldExists, At, Steps,
     rows, archive, names, jobs, broker, locking, bounds
<1>8. ASSUME NEW w \in Workers, BatchRaises(w) PROVE TypeInv'
  BY <1>8 DEF BatchRaises, Goto, TypeOK, OldExists, At, Steps,
     rows, archive, names, jobs, broker, locking, transfer, bounds
<1>9. ASSUME NEW w \in Workers, TaskRaises(w) PROVE TypeInv'
  BY <1>9, ReturnTypes DEF TaskRaises, TypeOK, OldExists, At,
     rows, archive, names, jobs, broker, locking, bounds
<1>10. ASSUME NEW w \in Workers, LoseSession(w) PROVE TypeInv'
  <2>1. losses' \in 0..MaxLosses
    BY <1>10 DEF LoseSession, TypeOK
  <2> QED
    BY <1>10, <2>1 DEF LoseSession, TypeOK, OldExists, At,
       rows, archive, names, jobs, broker, local, transfer
<1>11. ASSUME NEW w \in Workers, Kill(w) PROVE TypeInv'
  <2>1. kills' \in 0..MaxKills /\ lock' \in Workers \cup {Nobody}
    BY <1>11 DEF Kill, TypeOK
  <2> QED
    BY <1>11, <2>1, ReturnTypes DEF Kill, TypeOK, OldExists, At,
       rows, archive, names, jobs, broker
<1>12. CASE UNCHANGED vars
  BY <1>12 DEF vars, TypeOK, OldExists, At, rows, archive, names, jobs, broker, locking,
     local, transfer, bounds
<1> QED
  BY <1>1, <1>2, <1>3, <1>4, <1>5, <1>6, <1>7, <1>8, <1>9, <1>10, <1>11, <1>12 DEF Next, Step

(* Every variable keeps its type. *)
THEOREM TypeCorrect == Spec => []TypeOK
<1>1. TypeInv => TypeOK
  BY DEF TypeInv
<1> QED BY TypeInit, TypeStep, <1>1, PTL DEF Spec

(* No job that has ended is RUNNING after the next step: only a claim makes *)
(* a job RUNNING, and it requires the job to be QUEUED.                     *)
THEOREM EndedJobsStay == Spec => EndedNeverRuns
<1>1. ASSUME TypeInv, [Next]_vars, NEW j \in Jobs, job[j] \in Terminal
      PROVE  job'[j] # "RUNNING"
  <2> USE <1>1 DEF TypeInv, TypeOK, Terminal
  <2>1. CASE UNCHANGED job
    BY <2>1
  <2>2. ASSUME NEW i \in Jobs, StartJob(i) \/ Published(i) PROVE job'[j] # "RUNNING"
    BY <2>2 DEF StartJob, Create, Published
  <2>3. ASSUME NEW w \in Workers, NEW i \in Jobs, Schedule(w, i) PROVE job'[j] # "RUNNING"
    BY <2>3 DEF Schedule, Create
  <2>4. ASSUME NEW w \in Workers, Refuse(w) \/ Recover(w) \/ Claim(w) \/ Finish(w)
        PROVE  job'[j] # "RUNNING"
    <3>1. CASE Refuse(w)
      BY <3>1 DEF Refuse
    <3>2. CASE Recover(w)
      BY <3>2 DEF Recover
    <3>3. CASE Claim(w)
      BY <3>3 DEF Claim
    <3>4. CASE Finish(w)
      BY <3>4 DEF Finish
    <3> QED BY <2>4, <3>1, <3>2, <3>3, <3>4
  <2>5. ASSUME NEW w \in Workers, RunJob(w) PROVE job'[j] # "RUNNING"
    BY <2>1, <2>4, <2>5 DEF RunJob, AcquireLock, Reset, Catalog, Verify, ReleaseLock, jobs
  <2>6. ASSUME NEW w \in Workers, Download(w) PROVE job'[j] # "RUNNING"
    BY <2>1, <2>6 DEF Download, Choose, Open, Stream, AssertLock, RetainOld, RecordOld,
       Link, Record, Replace, Store, Unlink, MarkFailed, jobs
  <2>7. ASSUME NEW w \in Workers, DownloadRaises(w) \/ BatchRaises(w) \/ TaskRaises(w)
                                  \/ LoseSession(w) \/ Kill(w)
        PROVE  job'[j] # "RUNNING"
    BY <2>1, <2>7 DEF DownloadRaises, BatchRaises, TaskRaises, LoseSession, Kill, jobs
  <2>8. ASSUME NEW w \in Workers, NEW i \in Jobs, Deliver(w, i) PROVE job'[j] # "RUNNING"
    BY <2>1, <2>8 DEF Deliver
  <2> QED
    BY <2>1, <2>2, <2>3, <2>5, <2>6, <2>7, <2>8 DEF Next, Step, vars, jobs
<1>2. TypeInv /\ [Next]_vars => [\A j \in Jobs : job[j] \in Terminal => job'[j] # "RUNNING"]_vars
  BY <1>1
<1> QED BY TypeInit, TypeStep, <1>2, PTL DEF Spec, EndedNeverRuns

-----------------------------------------------------------------------------
(* The single writer.                                                      *)

(* Two workers past the lock with live sessions are the same.              *)
LEMMA SingleHolder ==
  ASSUME HolderInv, NEW u \in Workers, NEW w \in Workers, session[u], session[w],
         pc[u] \in Working, pc[w] \in Working
  PROVE  u = w
BY DEF HolderInv

LEMMA SingleInit == Init => IInv
<1> SUFFICES ASSUME Init PROVE IInv
  OBVIOUS
<1>1. HolderInv /\ FileInv
  BY DEF Init, HolderInv, FileInv, Working, Batch, Downloading, Steps
<1>2. JobInv
  BY DEF Init, JobInv, Recovered, Working, Steps
<1> QED BY <1>1, <1>2, TypeInit DEF IInv

(* The steps of a worker between taking the lock and releasing it move it  *)
(* and leave the lock and the jobs of the workers alone.                   *)
Advance(w) ==
  /\ UNCHANGED <<lock, session, mine>>
  /\ pc[w] \in Working /\ \E step \in Working : pc' = [pc EXCEPT ![w] = step]

LEMMA Advances ==
  ASSUME TypeInv, NEW w \in Workers,
         \/ Recover(w) \/ Claim(w) \/ Reset(w) \/ Catalog(w) \/ Verify(w) \/ Finish(w)
         \/ Download(w) \/ DownloadRaises(w) \/ BatchRaises(w)
  PROVE  Advance(w)
<1> USE DEF Advance, Working, Steps, Goto, At, OnDatabase
<1>1. CASE Recover(w) \/ Claim(w) \/ Reset(w) \/ Verify(w) \/ Finish(w)
  BY <1>1 DEF Recover, Claim, Reset, Verify, Finish, locking, local, jobs
<1>2. CASE Catalog(w)
  <2>1. CASE UNCHANGED pc
    <3>1. pc' = [pc EXCEPT ![w] = "catalog"]
      BY <1>2, <2>1 DEF Catalog, TypeInv, TypeOK
    <3> QED BY <1>2, <3>1 DEF Catalog, locking, local
  <2>2. CASE \E next \in {"choose", "finish"} : pc' = [pc EXCEPT ![w] = next]
    BY <1>2, <2>2 DEF Catalog, locking, local
  <2> QED BY <1>2, <2>1, <2>2 DEF Catalog
<1>3. CASE Choose(w) \/ Open(w) \/ AssertLock(w) \/ RecordOld(w) \/ Record(w) \/ Replace(w)
           \/ Store(w) \/ Unlink(w) \/ MarkFailed(w)
  BY <1>3 DEF Choose, Open, AssertLock, RecordOld, Record, Replace, Store, Unlink,
     MarkFailed, locking, local
<1>4. CASE Stream(w, "head", 1, "tail") \/ Stream(w, "tail", 2, "assert")
  BY <1>4 DEF Stream, locking, local
<1>5. CASE RetainOld(w) \/ Link(w)
  <2>1. \E step \in Working : pc' = [pc EXCEPT ![w] = step]
    BY <1>5 DEF RetainOld, Link, Retain
  <2> QED BY <1>5, <2>1 DEF RetainOld, Link, locking, local
<1>6. CASE DownloadRaises(w) \/ BatchRaises(w)
  BY <1>6 DEF DownloadRaises, BatchRaises, InDownload, Handled, locking
<1> QED BY <1>1, <1>2, <1>3, <1>4, <1>5, <1>6 DEF Download

LEMMA HolderStep == TypeInv /\ HolderInv /\ [Next]_vars => HolderInv'
<1> SUFFICES ASSUME TypeInv, HolderInv, [Next]_vars PROVE HolderInv'
  OBVIOUS
<1> USE NobodyAssumption DEF HolderInv, Working, Steps
<1>1. CASE UNCHANGED <<pc, mine, session, lock>>
  BY <1>1
<1>2. ASSUME NEW j \in Jobs, StartJob(j) \/ Published(j) PROVE HolderInv'
  BY <1>1, <1>2 DEF StartJob, Published, locking, local
<1>3. ASSUME NEW w \in Workers, NEW j \in Jobs, Deliver(w, j) \/ Schedule(w, j)
      PROVE  HolderInv'
  <2>1. /\ pc' = [pc EXCEPT ![w] = "start"] /\ mine' = [mine EXCEPT ![w] = j]
        /\ session' = [session EXCEPT ![w] = TRUE] /\ lock' = lock
    BY <1>3 DEF Deliver, Schedule, Start, Goto
  <2> QED BY <2>1 DEF TypeInv, TypeOK
<1>4. ASSUME NEW w \in Workers, Advance(w) PROVE HolderInv'
  BY <1>4 DEF Advance, TypeInv, TypeOK
<1>5. ASSUME NEW w \in Workers, AcquireLock(w) PROVE HolderInv'
  BY <1>5 DEF AcquireLock, OnDatabase, At, Goto, local, TypeInv, TypeOK
<1>6. ASSUME NEW w \in Workers, ReleaseLock(w) PROVE HolderInv'
  BY <1>6 DEF ReleaseLock, Return, OnDatabase, At, Goto, TypeInv, TypeOK
<1>7. ASSUME NEW w \in Workers, Refuse(w) \/ TaskRaises(w) PROVE HolderInv'
  <2>1. /\ pc' = [pc EXCEPT ![w] = "idle"] /\ mine' = [mine EXCEPT ![w] = Nobody]
        /\ UNCHANGED <<session, lock>>
    BY <1>7 DEF Refuse, TaskRaises, Return, Goto, locking
  <2> QED BY <2>1 DEF TypeInv, TypeOK
<1>8. ASSUME NEW w \in Workers, LoseSession(w) PROVE HolderInv'
  BY <1>8 DEF LoseSession, local, TypeInv, TypeOK
<1>9. ASSUME NEW w \in Workers, Kill(w) PROVE HolderInv'
  BY <1>9 DEF Kill, Return, Goto, TypeInv, TypeOK
<1>10. CASE UNCHANGED vars
  BY <1>1, <1>10 DEF vars, locking, local
<1> QED
  BY <1>2, <1>3, <1>4, <1>5, <1>6, <1>7, <1>8, <1>9, <1>10, Advances DEF Next, Step, RunJob

(* Where no job becomes RUNNING, no worker gets past its recovery and none *)
(* past it takes another job, the jobs stay as they were.                  *)
LEMMA JobFrame ==
  ASSUME JobInv,
         \A j \in Jobs : job'[j] = "RUNNING" => job[j] = "RUNNING",
         \A u \in Workers : pc'[u] \in Recovered /\ session'[u] =>
           pc[u] \in Recovered /\ session[u] /\ mine'[u] = mine[u]
  PROVE  JobInv'
BY DEF JobInv

LEMMA JobStep == TypeInv /\ HolderInv /\ JobInv /\ [Next]_vars => JobInv'
<1> SUFFICES ASSUME TypeInv, HolderInv, JobInv, [Next]_vars PROVE JobInv'
  OBVIOUS
<1> USE DEF Recovered, Working, Steps
<1>1. CASE UNCHANGED <<pc, mine, session>> /\ UNCHANGED job
  BY <1>1 DEF JobInv
<1>2. ASSUME NEW j \in Jobs, StartJob(j) \/ Published(j) PROVE JobInv'
  <2>1. \A i \in Jobs : job'[i] = "RUNNING" => job[i] = "RUNNING"
    BY <1>2 DEF StartJob, Create, Published, TypeInv, TypeOK
  <2> QED BY <1>2, <2>1, JobFrame DEF StartJob, Published, locking, local
<1>3. ASSUME NEW w \in Workers, NEW j \in Jobs, Deliver(w, j) \/ Schedule(w, j)
      PROVE  JobInv'
  <2>1. \A i \in Jobs : job'[i] = "RUNNING" => job[i] = "RUNNING"
    BY <1>3 DEF Deliver, Schedule, Create, TypeInv, TypeOK
  <2> QED BY <1>3, <2>1, JobFrame DEF Deliver, Schedule, Start, Goto, TypeInv, TypeOK
<1>4. ASSUME NEW w \in Workers, Recover(w) PROVE JobInv'
  <2>1. /\ \A j \in Jobs : job'[j] = "RUNNING" => j = mine[w] /\ job[j] = "RUNNING"
        /\ pc' = [pc EXCEPT ![w] = "claim"] /\ UNCHANGED <<session, mine>>
        /\ pc[w] = "recover" /\ session[w]
    BY <1>4 DEF Recover, OnDatabase, At, Goto, TypeInv, TypeOK, locking, local
  <2>2. \A u \in Workers : pc'[u] \in Recovered /\ session'[u] => u = w
    BY <2>1, SingleHolder DEF TypeInv, TypeOK
  <2> QED BY <2>1, <2>2 DEF JobInv
<1>5. ASSUME NEW w \in Workers, Claim(w) PROVE JobInv'
  <2>1. /\ \A j \in Jobs : job'[j] = "RUNNING" => job[j] = "RUNNING" \/ j = mine[w]
        /\ \E step \in {"reset", "release"} : pc' = [pc EXCEPT ![w] = step]
        /\ UNCHANGED <<session, mine>>
        /\ pc[w] = "claim" /\ session[w]
    BY <1>5 DEF Claim, OnDatabase, At, Goto, TypeInv, TypeOK, locking, local
  <2>2. \A u \in Workers : pc'[u] \in Recovered /\ session'[u] => u = w
    <3> SUFFICES ASSUME NEW u \in Workers, pc'[u] \in Recovered, session[u], u # w
                 PROVE  FALSE
      BY <2>1
    <3>1. pc'[u] = pc[u]
      BY <2>1 DEF TypeInv, TypeOK
    <3>2. pc[u] \in Working /\ pc[w] \in Working
      BY <2>1, <3>1
    <3> QED BY <2>1, <3>2, SingleHolder
  <2>3. \A j \in Jobs : job'[j] = "RUNNING" => j = mine[w]
    BY <2>1 DEF JobInv
  <2>4. mine' = mine
    BY <2>1
  <2> QED BY ONLY <2>2, <2>3, <2>4 DEF JobInv
<1>6. ASSUME NEW w \in Workers, Advance(w), pc[w] # "recover",
             \A j \in Jobs : job'[j] = "RUNNING" => job[j] = "RUNNING"
      PROVE  JobInv'
  BY <1>6, JobFrame DEF Advance, TypeInv, TypeOK
<1>7. ASSUME NEW w \in Workers, AcquireLock(w) PROVE JobInv'
  BY <1>7, JobFrame DEF AcquireLock, Goto, jobs, local, TypeInv, TypeOK
<1>8. ASSUME NEW w \in Workers,
             ReleaseLock(w) \/ Refuse(w) \/ TaskRaises(w) \/ Kill(w)
      PROVE  JobInv'
  <2>1. \A j \in Jobs : job'[j] = "RUNNING" => job[j] = "RUNNING"
    BY <1>8 DEF ReleaseLock, Refuse, TaskRaises, Kill, jobs, TypeInv, TypeOK
  <2> QED
    BY <1>8, <2>1, JobFrame DEF ReleaseLock, Refuse, TaskRaises, Kill, Return, Goto,
       locking, TypeInv, TypeOK
<1>9. ASSUME NEW w \in Workers, LoseSession(w) PROVE JobInv'
  BY <1>9, JobFrame DEF LoseSession, jobs, local, TypeInv, TypeOK
<1>10. ASSUME NEW w \in Workers, Finish(w) PROVE JobInv'
  <2>1. \A j \in Jobs : job'[j] = "RUNNING" => job[j] = "RUNNING"
    BY <1>10 DEF Finish, TypeInv, TypeOK
  <2> QED BY <1>6, <1>10, <2>1, Advances DEF Finish, OnDatabase, At
<1>11. ASSUME NEW w \in Workers,
              Reset(w) \/ Catalog(w) \/ Verify(w) \/ Download(w) \/ DownloadRaises(w)
              \/ BatchRaises(w)
       PROVE  JobInv'
  <2>1. UNCHANGED job /\ pc[w] # "recover"
    <3>1. CASE Reset(w) \/ Catalog(w) \/ Verify(w)
      BY <3>1 DEF Reset, Catalog, Verify, OnDatabase, At, jobs
    <3>2. CASE Download(w)
      BY <3>2 DEF Download, Choose, Open, Stream, AssertLock, RetainOld, RecordOld, Link,
         Record, Replace, Store, Unlink, MarkFailed, OnDatabase, At, jobs
    <3>3. CASE DownloadRaises(w) \/ BatchRaises(w)
      BY <3>3 DEF DownloadRaises, BatchRaises, InDownload, Handled, jobs
    <3> QED BY <1>11, <3>1, <3>2, <3>3
  <2> QED BY <1>6, <1>11, <2>1, Advances
<1>12. CASE UNCHANGED vars
  BY <1>1, <1>12 DEF vars, local, locking, jobs
<1> QED
  BY <1>2, <1>3, <1>4, <1>5, <1>7, <1>8, <1>9, <1>10, <1>11, <1>12 DEF Next, Step, RunJob

(* Where no file becomes DOWNLOADING and no worker enters the batch, a     *)
(* download, or another file, the downloads stay the holder's.             *)
LEMMA FileFrame ==
  ASSUME FileInv,
         \A f \in Files : status'[f] = "DOWNLOADING" => status[f] = "DOWNLOADING",
         \A u \in Workers : session'[u] /\ pc'[u] \in Batch \cup Downloading =>
           /\ session[u] /\ file'[u] = file[u]
           /\ pc'[u] \in Batch => pc[u] \in Batch
           /\ pc'[u] \in Downloading => pc[u] \in Downloading
  PROVE  FileInv'
BY DEF FileInv, Batch, Downloading

(* A step on the database of the lock holder answers for the others: none  *)
(* of them has both a session and a place past the lock.                   *)
LEMMA FileOfHolder ==
  ASSUME TypeInv, HolderInv, NEW w \in Workers, Advance(w), session[w],
         pc'[w] \in Batch => \A f \in Files : status'[f] # "DOWNLOADING",
         pc'[w] \in Downloading =>
           \A f \in Files : status'[f] = "DOWNLOADING" => f = file'[w]
  PROVE  FileInv'
<1>1. ASSUME NEW u \in Workers, u # w, session'[u], pc'[u] \in Batch \cup Downloading
      PROVE  FALSE
  <2>1. session[u] /\ pc[u] \in Working
    BY <1>1 DEF Advance, TypeInv, TypeOK, Working, Steps, Batch, Downloading
  <2> QED BY <1>1, <2>1, SingleHolder DEF Advance
<1> QED BY <1>1 DEF FileInv

LEMMA FileStep == TypeInv /\ HolderInv /\ FileInv /\ [Next]_vars => FileInv'
<1> SUFFICES ASSUME TypeInv, HolderInv, FileInv, [Next]_vars PROVE FileInv'
  OBVIOUS
<1> USE DEF Batch, Downloading
<1>1. CASE UNCHANGED <<pc, session, file, status>>
  BY <1>1 DEF FileInv
<1>2. ASSUME NEW j \in Jobs, StartJob(j) \/ Published(j) PROVE FileInv'
  BY <1>1, <1>2 DEF StartJob, Published, locking, local, transfer, rows
<1>3. ASSUME NEW w \in Workers, NEW step \in Steps \ (Batch \cup Downloading),
             pc' = [pc EXCEPT ![w] = step], UNCHANGED status,
             \A u \in Workers : u # w => session'[u] = session[u] /\ file'[u] = file[u]
      PROVE  FileInv'
  BY <1>3, FileFrame DEF TypeInv, TypeOK
<1>4. ASSUME NEW w \in Workers, NEW j \in Jobs, Deliver(w, j) \/ Schedule(w, j)
      PROVE  FileInv'
  <2>1. /\ pc' = [pc EXCEPT ![w] = "start"] /\ session' = [session EXCEPT ![w] = TRUE]
        /\ UNCHANGED <<file, status>>
    BY <1>4 DEF Deliver, Schedule, Start, Goto, transfer, rows
  <2> QED BY <1>3, <2>1 DEF TypeInv, TypeOK, Steps
<1>5. ASSUME NEW w \in Workers,
             AcquireLock(w) \/ Recover(w) \/ Claim(w) \/ Finish(w)
      PROVE  FileInv'
  <2>1. /\ \E step \in {"recover", "refused", "claim", "reset", "release"} :
                pc' = [pc EXCEPT ![w] = step]
        /\ UNCHANGED <<session, file, status>>
    BY <1>5 DEF AcquireLock, Recover, Claim, Finish, Goto, local, transfer, locking, rows
  <2> QED BY <1>3, <2>1 DEF Steps
<1>6. ASSUME NEW w \in Workers,
             ReleaseLock(w) \/ Refuse(w) \/ TaskRaises(w) \/ Kill(w)
      PROVE  FileInv'
  <2>1. /\ pc' = [pc EXCEPT ![w] = "idle"] /\ file' = [file EXCEPT ![w] = NoFile]
        /\ UNCHANGED <<session, status>>
    BY <1>6 DEF ReleaseLock, Refuse, TaskRaises, Kill, Return, Goto, locking, rows
  <2> QED BY <1>3, <2>1 DEF TypeInv, TypeOK, Steps
<1>7. ASSUME NEW w \in Workers, LoseSession(w) PROVE FileInv'
  BY <1>7, FileFrame DEF LoseSession, local, transfer, rows, TypeInv, TypeOK
<1>8. ASSUME NEW w \in Workers, BatchRaises(w) PROVE FileInv'
  BY <1>3, <1>8 DEF BatchRaises, Goto, locking, transfer, rows, Steps
<1>9. ASSUME NEW w \in Workers, Reset(w) \/ Verify(w) PROVE FileInv'
  <2>1. Advance(w) /\ session[w]
    BY <1>9, Advances DEF Reset, Verify, OnDatabase
  <2>2. CASE Reset(w)
    <3>1. /\ \A f \in Files : status'[f] # "DOWNLOADING"
          /\ \E work \in {"verify", "catalog"} : pc' = [pc EXCEPT ![w] = work]
      BY <2>2 DEF Reset, Goto
    <3> QED BY <2>1, <3>1, FileOfHolder DEF TypeInv, TypeOK
  <2>3. CASE Verify(w)
    BY <1>3, <2>3, FileFrame DEF Verify, OnDatabase, At, Goto, locking, local, transfer,
       TypeInv, TypeOK
  <2> QED BY <1>9, <2>2, <2>3
<1>10. ASSUME NEW w \in Workers, Catalog(w) PROVE FileInv'
  <2>1. Advance(w) /\ session[w] /\ pc[w] = "catalog"
    BY <1>10, Advances DEF Catalog, OnDatabase, At
  <2>2. \A f \in Files : status'[f] = "DOWNLOADING" => status[f] = "DOWNLOADING"
    BY <1>10 DEF Catalog, TypeInv, TypeOK
  <2>3. \A f \in Files : status'[f] # "DOWNLOADING"
    BY <2>1, <2>2 DEF FileInv
  <2>4. pc'[w] \in {"catalog", "choose", "finish"}
    BY <1>10, <2>1 DEF Catalog, Goto, TypeInv, TypeOK
  <2> QED BY <2>1, <2>3, <2>4, FileOfHolder
<1>11. ASSUME NEW w \in Workers, Choose(w) PROVE FileInv'
  <2>1. Advance(w) /\ session[w] /\ pc[w] = "choose"
    BY <1>11, Advances DEF Download, Choose, OnDatabase, At
  <2>2. CASE pc' = [pc EXCEPT ![w] = "finish"] /\ UNCHANGED <<status, file>>
    BY <1>3, <2>1, <2>2 DEF Advance, Steps
  <2>3. ASSUME NEW f \in Files, file' = [file EXCEPT ![w] = f],
               status' = [status EXCEPT ![f] = "DOWNLOADING"],
               pc' = [pc EXCEPT ![w] = "open"]
        PROVE  FileInv'
    <3>1. \A g \in Files : status'[g] = "DOWNLOADING" => g = f
      BY <2>1, <2>3 DEF FileInv, TypeInv, TypeOK
    <3>2. pc'[w] = "open" /\ file'[w] = f
      BY <2>3 DEF TypeInv, TypeOK
    <3> QED BY <2>1, <3>1, <3>2, FileOfHolder
  <2> QED BY <1>11, <2>2, <2>3 DEF Choose, Goto
<1>12. ASSUME NEW w \in Workers, Store(w) \/ MarkFailed(w) PROVE FileInv'
  <2>1. Advance(w) /\ session[w] /\ pc[w] \in Downloading
    BY <1>12, Advances DEF Download, Store, MarkFailed, OnDatabase, At
  <2>2. \A f \in Files : status'[f] # "DOWNLOADING"
    BY <1>12, <2>1 DEF Store, MarkFailed, FileInv, TypeInv, TypeOK
  <2>3. pc'[w] \in Batch
    BY <1>12 DEF Store, MarkFailed, Goto, TypeInv, TypeOK
  <2> QED BY <2>1, <2>2, <2>3, FileOfHolder
<1>13. ASSUME NEW w \in Workers, pc[w] \in Downloading, UNCHANGED <<session, file, status>>,
              \E step \in Downloading : pc' = [pc EXCEPT ![w] = step]
       PROVE  FileInv'
  BY <1>13, FileFrame DEF TypeInv, TypeOK
<1>14. ASSUME NEW w \in Workers,
              \/ Open(w) \/ AssertLock(w) \/ RecordOld(w) \/ Record(w) \/ Replace(w)
              \/ Stream(w, "head", 1, "tail") \/ Stream(w, "tail", 2, "assert")
              \/ RetainOld(w) \/ Link(w) \/ DownloadRaises(w)
       PROVE  FileInv'
  <2>1. UNCHANGED <<session, file, status>>
    BY <1>14 DEF Open, AssertLock, RecordOld, Record, Replace, Stream, RetainOld, Link,
       DownloadRaises, locking, local, transfer, rows
  <2>2. pc[w] \in Downloading
    BY <1>14 DEF Open, AssertLock, RecordOld, Record, Replace, Stream, RetainOld, Link,
       DownloadRaises, InDownload, OnDatabase, At
  <2>3. \E step \in Downloading : pc' = [pc EXCEPT ![w] = step]
    BY <1>14 DEF Open, AssertLock, RecordOld, Record, Replace, Stream, RetainOld, Link,
       Retain, DownloadRaises, Goto
  <2> QED BY <1>13, <2>1, <2>2, <2>3
<1>15. ASSUME NEW w \in Workers, Unlink(w) PROVE FileInv'
  <2>1. UNCHANGED <<session, file, status>>
    BY <1>15 DEF Unlink, locking, rows
  <2>2. CASE pc[w] = "cleanup" /\ pc' = [pc EXCEPT ![w] = "failed"]
    BY <1>13, <2>1, <2>2
  <2>3. CASE pc[w] = "unlink" /\ pc' = [pc EXCEPT ![w] = "choose"]
    BY <2>1, <2>3, FileFrame DEF TypeInv, TypeOK
  <2> QED BY <1>15, <2>2, <2>3 DEF Unlink, At, Goto
<1>16. CASE UNCHANGED vars
  BY <1>1, <1>16 DEF vars, local, transfer, locking, rows
<1>17. ASSUME NEW w \in Workers, Step(w) PROVE FileInv'
  BY <1>5, <1>6, <1>8, <1>9, <1>10, <1>11, <1>12, <1>14, <1>15, <1>17
     DEF Step, RunJob, Download
<1> QED BY <1>2, <1>4, <1>6, <1>7, <1>16, <1>17 DEF Next

(* The invariant of the runs follows, whatever the constants.              *)
LEMMA SingleWriter == IInv => OneJobRuns
<1> SUFFICES ASSUME IInv PROVE OneJobRuns
  OBVIOUS
<1> DEFINE S == {j \in Jobs : job[j] = "RUNNING"}
<1>1. Cardinality(S) <= 1
  <2>1. CASE S = {}
    BY <2>1, FS_EmptySet
  <2>2. CASE S # {}
    <3>1. PICK j \in S : TRUE
      BY <2>2
    <3>2. S = {j}
      BY <3>1 DEF IInv, JobInv
    <3> QED BY <3>2, FS_Singleton
  <2> QED BY <2>1, <2>2
<1>2. ASSUME NEW w \in Workers, pc[w] \in {"choose", "open", "store"}, session[w]
      PROVE  lock = w /\ \A f \in Files : status[f] = "DOWNLOADING" => f = file[w]
  BY <1>2 DEF IInv, HolderInv, FileInv, Working, Steps, Batch, Downloading
<1> QED BY <1>1, <1>2 DEF OneJobRuns

(* At most one ArchiveJob row is RUNNING at a time, and a worker           *)
(* that takes, opens or stores a file holds the lock and owns every        *)
(* download there is.                                                      *)
THEOREM OneJobAtATime == Spec => []OneJobRuns
<1>1. IInv /\ [Next]_vars => IInv'
  BY TypeStep, HolderStep, JobStep, FileStep DEF IInv
<1> QED BY SingleInit, SingleWriter, <1>1, PTL DEF Spec
-----------------------------------------------------------------------------
(* The payloads, as long as no database session is lost.  The one worker   *)
(* past the lock writes into an inode that only its file names, and a file *)
(* that is stored has no temporary path.  A kill may leave a temporary     *)
(* path that is a retained payload too, and nothing else of a download.    *)
Alive == \A w \in Workers : session[w]

Names(f, i) == i # None /\ (i = temp[f] \/ i = target[f] \/ \E c \in Contents : i = retained[f][c])
NamesInv ==
  /\ \A f, g \in Files : \A i \in Inodes : Names(f, i) /\ Names(g, i) => f = g
  /\ \A f \in Files : temp[f] # None => temp[f] # target[f]

Kept(f, d) == retained[f][d] # None /\ content[retained[f][d]] = d
Latest(f, d) == revisions[f] # << >> /\ revisions[f][Len(revisions[f])] = d

(* How far the download of a worker is. *)
Complete == {"assert", "retainOld", "recordOld", "link", "record", "replace"}
DownloadOf(w, f, v) ==
  /\ pc[w] \in Downloading => status[f] = "DOWNLOADING"
  /\ pc[w] \in {"head", "tail"} => temp[f] # None /\ handle[w] = temp[f]
  /\ pc[w] = "tail" => content[temp[f]][1] = v
  /\ pc[w] \in Complete => temp[f] # None /\ content[temp[f]] = Payload(v)
  /\ pc[w] = "recordOld" => Kept(f, content[target[f]])
  /\ pc[w] \in {"record", "replace", "store"} => Kept(f, Payload(v))
  /\ pc[w] \in {"replace", "store"} => Latest(f, Payload(v))
  /\ pc[w] = "store" => temp[f] = None /\ target[f] # None /\ content[target[f]] = Payload(v)
DownloadInv == \A w \in Workers : DownloadOf(w, file[w], version[w])

StoredInv == \A f \in Files : status[f] = "STORED" => temp[f] = None

(* Where no worker was killed, a temporary path is that of the download at *)
(* work, and no revision names it while it is written.                     *)
Transfer == {"head", "tail", "cleanup"} \cup Complete
UntouchedInv ==
  kills = 0 =>
    /\ \A f \in Files : temp[f] # None => \E w \in Workers : file[w] = f /\ pc[w] \in Transfer
    /\ \A w \in Workers : pc[w] \in {"head", "tail"} =>
         \A c \in Contents : retained[file[w]][c] # temp[file[w]]

ArchiveInv == Alive /\ NamesInv /\ DownloadInv /\ StoredInv /\ UntouchedInv /\ PayloadsAreIntact

LEMMA ArchiveInit == MaxLosses = 0 /\ Init => ArchiveInv
<1> SUFFICES ASSUME Init PROVE ArchiveInv
  OBVIOUS
<1>1. /\ \A f \in Files : /\ temp[f] = None /\ revisions[f] = << >>
                          /\ \A c \in Contents : retained[f][c] = None
                          /\ status[f] = "STORED" => digest[f] = Payload(1)
                          /\ status[f] = "STORED" <=> target[f] # None
                          /\ target[f] # None => target[f] \in Inodes /\ content[target[f]] = Payload(1)
      /\ \A f, g \in Files : f # g /\ target[f] # None => target[f] # target[g]
      /\ \A w \in Workers : session[w] /\ pc[w] = "idle"
  BY DEF Init, Inodes, None
<1>2. NamesInv
  BY <1>1 DEF NamesInv, Names
<1>3. DownloadInv
  BY <1>1 DEF DownloadInv, DownloadOf, Downloading, Complete
<1>4. CurrentIsWhole
  BY <1>1, PayloadTypes DEF CurrentIsWhole
<1>5. StoredIsRetained
  BY <1>1 DEF StoredIsRetained
<1>6. RevisionsIntact
  BY <1>1 DEF RevisionsIntact
<1>7. Alive /\ StoredInv /\ UntouchedInv
  BY <1>1 DEF Alive, StoredInv, UntouchedInv
<1> QED
  BY <1>2, <1>3, <1>4, <1>5, <1>6, <1>7
     DEF ArchiveInv, PayloadsAreIntact, RevisionsIntactUnlessKilled

(* Of the workers past the lock there is one.                              *)
LEMMA Alone ==
  ASSUME HolderInv, Alive, NEW w \in Workers, pc[w] \in Working, NEW u \in Workers, u # w
  PROVE  pc[u] \notin Working
BY SingleHolder DEF Alive

LEMMA Elsewhere ==
  ASSUME NEW u, NEW f, NEW v, pc[u] \notin Working
  PROVE  DownloadOf(u, f, v)
BY DEF DownloadOf, Downloading, Complete, Working, Steps

(* The steps that only move a worker and its rows along.                   *)
LEMMA QuietStep ==
  ASSUME TypeInv, HolderInv, ArchiveInv, NEW w \in Workers, Alive',
         UNCHANGED <<digest, revisions, archive>>,
         \A f \in Files : status'[f] = "STORED" => status[f] = "STORED",
         \A u \in Workers : u # w =>
           pc'[u] = pc[u] /\ file'[u] = file[u] /\ handle'[u] = handle[u] /\ version'[u] = version[u],
         status' = status \/ pc[w] \in Working,
         DownloadOf(w, file[w], version[w])', pc'[w] \notin {"head", "tail"},
         kills' # 0 \/ (kills' = kills /\ (pc[w] \in Transfer => pc'[w] \in Transfer /\ file'[w] = file[w]))
  PROVE  ArchiveInv'
<1> USE DEF ArchiveInv
<1>1. UNCHANGED <<temp, target, retained, content>>
  BY DEF archive, names
<1>2. NamesInv'
  BY <1>1 DEF NamesInv, Names
<1>3. DownloadInv'
  <2> SUFFICES ASSUME NEW u \in Workers, u # w PROVE DownloadOf(u, file[u], version[u])'
    BY DEF DownloadInv
  <2>1. DownloadOf(u, file[u], version[u])
    BY DEF DownloadInv
  <2>2. CASE status' = status
    BY <1>1, <2>1, <2>2 DEF DownloadOf, Kept, Latest
  <2>3. CASE pc[w] \in Working
    <3>1. pc'[u] \notin Working
      BY <2>3, Alone
    <3> QED BY <3>1 DEF DownloadOf, Downloading, Complete, Working, Steps
  <2> QED BY <2>2, <2>3
<1>4. StoredInv' /\ CurrentIsWhole'
  BY <1>1 DEF StoredInv, CurrentIsWhole, PayloadsAreIntact
<1>5. StoredIsRetained'
  BY <1>1 DEF StoredIsRetained, PayloadsAreIntact
<1>6. CASE kills' # 0
  BY <1>2, <1>3, <1>4, <1>5, <1>6 DEF UntouchedInv, PayloadsAreIntact, RevisionsIntactUnlessKilled
<1>7. CASE kills' = kills
  <2>1. RevisionsIntactUnlessKilled'
    BY <1>1, <1>7 DEF RevisionsIntactUnlessKilled, RevisionsIntact, PayloadsAreIntact
  <2>2. CASE kills # 0
    BY <2>1, <2>2, <1>2, <1>3, <1>4, <1>5, <1>7 DEF UntouchedInv, PayloadsAreIntact
  <2>3. CASE kills = 0
    <3>1. ASSUME NEW f \in Files, temp[f] # None
          PROVE  \E u \in Workers : file'[u] = f /\ pc'[u] \in Transfer
      <4>1. PICK u \in Workers : file[u] = f /\ pc[u] \in Transfer
        BY <2>3, <3>1 DEF UntouchedInv
      <4>2. CASE u = w
        BY <4>1, <4>2, <1>7, <2>3
      <4>3. CASE u # w
        BY <4>1, <4>3
      <4> QED BY <4>2, <4>3
    <3>2. ASSUME NEW u \in Workers, pc'[u] \in {"head", "tail"}, NEW c \in Contents
          PROVE  retained[file'[u]][c] # temp[file'[u]]
      BY <2>3, <3>2 DEF UntouchedInv
    <3>3. UntouchedInv'
      BY <1>1, <3>1, <3>2 DEF UntouchedInv
    <3> QED BY <2>1, <3>3, <1>2, <1>3, <1>4, <1>5 DEF PayloadsAreIntact
  <2> QED BY <2>2, <2>3
<1> QED BY <1>6, <1>7

(* A worker in a download, and the file it works on.                       *)
Writing == Downloading \cup {"unlink"}
LEMMA Mine ==
  ASSUME TypeInv, HolderInv, ArchiveInv, NEW w \in Workers, pc[w] \in Writing
  PROVE  /\ pc[w] \in Working /\ file[w] \in Files /\ version[w] \in Versions
         /\ pc[w] \in Downloading => status[file[w]] = "DOWNLOADING"
         /\ DownloadOf(w, file[w], version[w])
         /\ kills = 0 => \A g \in Files : temp[g] # None => g = file[w] /\ pc[w] \in Transfer
<1>1. pc[w] \in Working
  BY DEF Writing, Downloading, Working, Steps
<1>2. DownloadOf(w, file[w], version[w])
  BY DEF ArchiveInv, DownloadInv
<1>3. ASSUME kills = 0, NEW g \in Files, temp[g] # None
      PROVE  g = file[w] /\ pc[w] \in Transfer
  <2>1. PICK u \in Workers : file[u] = g /\ pc[u] \in Transfer
    BY <1>3 DEF ArchiveInv, UntouchedInv
  <2>2. pc[u] \in Working
    BY <2>1 DEF Transfer, Complete, Working, Steps
  <2>3. u = w
    BY <1>1, <2>2, Alone DEF ArchiveInv
  <2> QED BY <2>1, <2>3
<1> QED BY <1>1, <1>2, <1>3 DEF TypeInv, TypeOK, DownloadOf

(* What a step of a download has to show.                                  *)
LEMMA DownloadStep ==
  ASSUME TypeInv, HolderInv, ArchiveInv, NEW w \in Workers, pc[w] \in Writing, Advance(w),
         UNCHANGED <<file, kills>>, NEW f \in Files, f = file[w], NEW v, v = version'[w],
         NamesInv', StoredInv', CurrentIsWhole', StoredIsRetained', DownloadOf(w, f, v)',
         kills = 0 =>
           /\ RevisionsIntact'
           /\ \A g \in Files : temp'[g] # None => g = f /\ pc'[w] \in Transfer
           /\ pc'[w] \in {"head", "tail"} => \A c \in Contents : retained'[f][c] # temp'[f]
  PROVE  ArchiveInv'
<1>1. pc[w] \in Working /\ Alive'
  BY Mine DEF ArchiveInv, Alive, Advance
<1>2. \A u \in Workers : u # w => pc'[u] \notin Working
  BY <1>1, Alone DEF Advance, TypeInv, TypeOK, ArchiveInv
<1>3. DownloadInv'
  <2> SUFFICES ASSUME NEW u \in Workers PROVE DownloadOf(u, file[u], version[u])'
    BY DEF DownloadInv
  <2>1. CASE u = w
    BY <2>1
  <2>2. CASE u # w
    <3>1. pc'[u] \notin Working
      BY <1>2, <2>2
    <3> QED BY <3>1 DEF DownloadOf, Downloading, Complete, Working, Steps
  <2> QED BY <2>1, <2>2
<1>4. UntouchedInv'
  <2> SUFFICES ASSUME kills = 0
               PROVE  /\ \A g \in Files : temp'[g] # None =>
                           \E u \in Workers : file'[u] = g /\ pc'[u] \in Transfer
                      /\ \A u \in Workers : pc'[u] \in {"head", "tail"} =>
                           \A c \in Contents : retained'[file'[u]][c] # temp'[file'[u]]
    BY DEF UntouchedInv
  <2>1. \A u \in Workers : pc'[u] \in {"head", "tail"} => u = w
    BY <1>2 DEF Working, Steps
  <2> QED BY <2>1
<1>5. RevisionsIntactUnlessKilled'
  BY DEF RevisionsIntactUnlessKilled
<1> QED BY <1>1, <1>3, <1>4, <1>5 DEF ArchiveInv, PayloadsAreIntact

(* Writing an inode that is nobody's current path, and no other file's.    *)
LEMMA WriteFrame ==
  ASSUME TypeInv, NamesInv, NEW f \in Files, NEW i \in Inodes,
         \A g \in Files : Names(g, i) => g = f, i # target[f],
         \A k \in Inodes : k # i => content'[k] = content[k], UNCHANGED <<target, retained>>
  PROVE  /\ \A g \in Files : target[g] # None =>
              target'[g] = target[g] /\ content'[target[g]] = content[target[g]]
         /\ \A g \in Files, c \in Contents :
              retained[g][c] # None /\ (g # f \/ retained[g][c] # i) =>
                content'[retained[g][c]] = content[retained[g][c]]
<1>1. ASSUME NEW g \in Files, target[g] # None
      PROVE  target'[g] = target[g] /\ content'[target[g]] = content[target[g]]
  <2>1. target[g] \in Inodes /\ Names(g, target[g])
    BY <1>1 DEF TypeInv, TypeOK, Names
  <2>2. target[g] # i
    BY <2>1
  <2> QED BY <2>1, <2>2
<1>2. ASSUME NEW g \in Files, NEW c \in Contents, retained[g][c] # None,
             g # f \/ retained[g][c] # i
      PROVE  content'[retained[g][c]] = content[retained[g][c]]
  <2>1. retained[g][c] \in Inodes /\ Names(g, retained[g][c])
    BY <1>2 DEF TypeInv, TypeOK, Names
  <2>2. retained[g][c] # i
    BY <1>2, <2>1
  <2> QED BY <2>1, <2>2
<1> QED BY <1>1, <1>2

(* What the stored payloads and the revisions lose by it: nothing, when    *)
(* the file is not stored and no revision of it is written.                *)
LEMMA WritePayloads ==
  ASSUME TypeInv, ArchiveInv, NEW f \in Files, NEW i \in Inodes,
         \A g \in Files : Names(g, i) => g = f, i # target[f], status[f] # "STORED",
         \A k \in Inodes : k # i => content'[k] = content[k],
         UNCHANGED <<rows, target, retained>>
  PROVE  /\ CurrentIsWhole' /\ StoredIsRetained'
         /\ kills = 0 /\ (\A c \in Contents : retained[f][c] # i) => RevisionsIntact'
<1> USE DEF ArchiveInv, PayloadsAreIntact
<1>0. \A g \in Files : digest[g] \in Contents /\ revisions[g] \in Seq(Contents)
  BY DEF TypeInv, TypeOK
<1>1. /\ \A g \in Files : target[g] # None =>
            target'[g] = target[g] /\ content'[target[g]] = content[target[g]]
      /\ \A g \in Files, c \in Contents :
            retained[g][c] # None /\ (g # f \/ retained[g][c] # i) =>
              content'[retained[g][c]] = content[retained[g][c]]
  BY WriteFrame
<1>2. CurrentIsWhole'
  BY <1>1 DEF CurrentIsWhole
<1>3. StoredIsRetained'
  <2> SUFFICES ASSUME NEW g \in Files, status[g] = "STORED"
               PROVE  /\ target[g] # None /\ content'[target[g]] = digest[g]
                      /\ revisions[g] # << >> =>
                           /\ revisions[g][Len(revisions[g])] = digest[g]
                           /\ retained[g][digest[g]] # None
                           /\ content'[retained[g][digest[g]]] = digest[g]
    BY DEF StoredIsRetained, rows
  <2>1. g # f
    OBVIOUS
  <2> QED BY <1>0, <1>1, <2>1 DEF StoredIsRetained
<1>4. ASSUME kills = 0, \A c \in Contents : retained[f][c] # i
      PROVE  RevisionsIntact'
  <2> SUFFICES ASSUME NEW g \in Files, NEW k \in DOMAIN revisions[g]
               PROVE  /\ retained[g][revisions[g][k]] # None
                      /\ content'[retained[g][revisions[g][k]]] = revisions[g][k]
    BY DEF RevisionsIntact, rows
  <2>1. revisions[g][k] \in Contents
    BY <1>0
  <2>2. /\ retained[g][revisions[g][k]] # None
        /\ content[retained[g][revisions[g][k]]] = revisions[g][k]
    BY <1>4 DEF RevisionsIntactUnlessKilled, RevisionsIntact
  <2> QED BY <1>1, <1>4, <2>1, <2>2
<1> QED BY <1>2, <1>3, <1>4

LEMMA OpenStep ==
  ASSUME TypeInv, HolderInv, ArchiveInv, NEW w \in Workers, Open(w), Advance(w)
  PROVE  ArchiveInv'
<1>1. PICK f \in Files : f = file[w]
  BY DEF TypeInv, TypeOK
<1>2. /\ pc[w] = "open" /\ pc' = [pc EXCEPT ![w] = "head"] /\ status[f] = "DOWNLOADING"
      /\ UNCHANGED <<status, digest, revisions, target, retained, file, kills, session>>
      /\ kills = 0 => \A g \in Files : temp[g] = None
  <2>1. pc[w] = "open" /\ pc' = [pc EXCEPT ![w] = "head"]
        /\ UNCHANGED <<status, digest, revisions, target, retained, file, kills, session>>
    BY DEF Open, At, Goto, rows, bounds, locking
  <2>2. pc[w] \in Downloading /\ pc[w] \in Writing /\ pc[w] \notin Transfer
    BY <2>1 DEF Writing, Downloading, Transfer, Complete
  <2> QED BY <1>1, <2>1, <2>2, Mine
<1>3. PICK i \in Inodes :
        /\ temp' = [temp EXCEPT ![f] = i] /\ handle' = [handle EXCEPT ![w] = i]
        /\ content' = [content EXCEPT ![i] = Payload(Hole)]
        /\ \A g \in Files : Names(g, i) => g = f
        /\ i # target[f] /\ (temp[f] = None => ~Names(f, i))
  <2>1. PICK i \in IF temp[f] # None THEN {temp[f]}
                   ELSE {k \in Free : \A l \in Free : k <= l} :
          /\ temp' = [temp EXCEPT ![f] = i]
          /\ content' = [content EXCEPT ![i] = Payload(Hole)]
          /\ handle' = [handle EXCEPT ![w] = i]
    BY <1>1 DEF Open
  <2>2. CASE temp[f] # None
    <3>1. i = temp[f] /\ i \in Inodes /\ Names(f, i)
      BY <2>1, <2>2 DEF TypeInv, TypeOK, Names
    <3> QED BY <2>1, <2>2, <3>1 DEF ArchiveInv, NamesInv
  <2>3. CASE temp[f] = None
    <3>1. i \in Inodes /\ ~Named(i)
      BY <2>1, <2>3 DEF Free
    <3>2. \A g \in Files : ~Names(g, i)
      BY <3>1 DEF Named, Names
    <3>3. i # target[f]
      BY <3>1 DEF Named
    <3> QED BY <2>1, <3>1, <3>2, <3>3
  <2> QED BY <2>2, <2>3
<1>4. temp'[f] = i /\ i # None /\ handle'[w] = i /\ \A g \in Files : g # f => temp'[g] = temp[g]
  BY <1>3 DEF TypeInv, TypeOK, Inodes, None
<1>5. CurrentIsWhole' /\ StoredIsRetained'
      /\ (kills = 0 /\ (\A c \in Contents : retained[f][c] # i) => RevisionsIntact')
  BY <1>2, <1>3, WritePayloads DEF TypeInv, TypeOK, rows
<1>6. NamesInv'
  <2>1. \A g \in Files, k \in Inodes : Names(g, k)' => Names(g, k) \/ (g = f /\ k = i)
    BY <1>2, <1>4 DEF Names
  <2>2. \A g \in Files : temp'[g] # None => temp'[g] # target'[g]
    BY <1>2, <1>3, <1>4 DEF ArchiveInv, NamesInv
  <2> QED BY <1>3, <2>1, <2>2 DEF ArchiveInv, NamesInv
<1>7. StoredInv'
  BY <1>2, <1>4 DEF ArchiveInv, StoredInv
<1>v. PICK v : v = version'[w]
  OBVIOUS
<1>8. DownloadOf(w, f, v)'
  <2>1. pc'[w] = "head"
    BY <1>2 DEF TypeInv, TypeOK
  <2> QED BY <1>2, <1>4, <2>1 DEF DownloadOf, Complete
<1>9. ASSUME kills = 0
      PROVE  /\ RevisionsIntact'
             /\ \A g \in Files : temp'[g] # None => g = f /\ pc'[w] \in Transfer
             /\ \A c \in Contents : retained'[f][c] # temp'[f]
  <2>1. \A c \in Contents : retained[f][c] # i
    BY <1>2, <1>3, <1>4, <1>9 DEF Names
  <2>2. pc'[w] \in Transfer
    BY <1>2 DEF TypeInv, TypeOK, Transfer
  <2> QED BY <1>2, <1>4, <1>5, <1>9, <2>1, <2>2
<1>10. pc[w] \in Writing
  BY <1>2 DEF Writing, Downloading
<1> QED BY <1>1, <1>2, <1>5, <1>6, <1>7, <1>v, <1>8, <1>9, <1>10, DownloadStep

LEMMA StreamStep ==
  ASSUME TypeInv, HolderInv, ArchiveInv, NEW w \in Workers, Advance(w),
         Stream(w, "head", 1, "tail") \/ Stream(w, "tail", 2, "assert")
  PROVE  ArchiveInv'
<1>1. PICK f \in Files : f = file[w]
  BY DEF TypeInv, TypeOK
<1>2. PICK v \in Versions : v = version[w]
  BY DEF TypeInv, TypeOK
<1>3. /\ pc[w] \in {"head", "tail"}
      /\ UNCHANGED <<status, digest, revisions, temp, target, retained, file, version, kills>>
      /\ pc[w] = "head" => /\ pc' = [pc EXCEPT ![w] = "tail"]
                           /\ content' = [content EXCEPT ![handle[w]] = Written(@, 1, v)]
      /\ pc[w] = "tail" => /\ pc' = [pc EXCEPT ![w] = "assert"]
                           /\ content' = [content EXCEPT ![handle[w]] = Written(@, 2, v)]
  BY <1>2 DEF Stream, At, Goto, rows, names, bounds, local, transfer
<1>4. pc[w] \in Writing /\ pc[w] \in Downloading
  BY <1>3 DEF Writing, Downloading
<1>5. PICK i \in Inodes : i = temp[f] /\ i = handle[w]
  BY <1>1, <1>3, <1>4, Mine DEF DownloadOf, TypeInv, TypeOK
<1>6. /\ status[f] = "DOWNLOADING" /\ (pc[w] = "tail" => content[i][1] = v)
      /\ (kills = 0 => \A g \in Files : temp[g] # None => g = f)
  BY <1>1, <1>2, <1>4, <1>5, Mine DEF DownloadOf
<1>7. Names(f, i) /\ i # None
  BY <1>5 DEF Names, Inodes, None
<1>8. CurrentIsWhole' /\ StoredIsRetained'
      /\ (kills = 0 /\ (\A c \in Contents : retained[f][c] # i) => RevisionsIntact')
  <2>1. \A g \in Files : Names(g, i) => g = f
    BY <1>7 DEF ArchiveInv, NamesInv
  <2>2. i # target[f]
    BY <1>5, <1>7 DEF ArchiveInv, NamesInv
  <2>3. \A k \in Inodes : k # i => content'[k] = content[k]
    BY <1>3, <1>5 DEF TypeInv, TypeOK
  <2> QED BY <1>3, <1>6, <2>1, <2>2, <2>3, WritePayloads DEF rows
<1>9. NamesInv' /\ StoredInv'
  BY <1>3 DEF ArchiveInv, NamesInv, Names, StoredInv
<1>10. DownloadOf(w, f, v)'
  <2>1. CASE pc[w] = "head"
    <3>1. pc'[w] = "tail" /\ content'[i] = Written(content[i], 1, v)
      BY <1>3, <1>5, <2>1 DEF TypeInv, TypeOK
    <3>2. content'[i][1] = v
      BY <3>1 DEF Written
    <3>3. UNCHANGED handle
      BY DEF Stream, local, transfer
    <3> QED BY <1>3, <1>5, <1>6, <1>7, <3>1, <3>2, <3>3 DEF DownloadOf, Complete
  <2>2. CASE pc[w] = "tail"
    <3>1. pc'[w] = "assert" /\ content'[i] = Written(content[i], 2, v)
      BY <1>3, <1>5, <2>2 DEF TypeInv, TypeOK
    <3>2. content'[i] = Payload(v)
      BY <1>6, <2>2, <3>1 DEF Written, Payload
    <3> QED BY <1>3, <1>5, <1>6, <1>7, <3>1, <3>2 DEF DownloadOf, Complete
  <2> QED BY <1>3, <2>1, <2>2
<1>11. ASSUME kills = 0
       PROVE  /\ RevisionsIntact'
              /\ \A g \in Files : temp'[g] # None => g = f /\ pc'[w] \in Transfer
              /\ \A c \in Contents : retained'[f][c] # temp'[f]
  <2>1. \A c \in Contents : retained[f][c] # i
    BY <1>1, <1>3, <1>5, <1>11 DEF ArchiveInv, UntouchedInv
  <2>2. pc'[w] \in Transfer
    BY <1>3 DEF TypeInv, TypeOK, Transfer, Complete
  <2> QED BY <1>3, <1>5, <1>6, <1>8, <1>11, <2>1, <2>2
<1> QED BY <1>1, <1>2, <1>3, <1>4, <1>8, <1>9, <1>10, <1>11, DownloadStep

(* What a link adds: a name that was none, or nothing.                     *)
LEMMA RetainKeeps ==
  ASSUME TypeInv, ArchiveInv, NEW w \in Workers, NEW f \in Files, NEW i \in Inodes,
         NEW d \in Contents, NEW next \in {"recordOld", "record"}, Retain(w, f, i, d, next),
         content[i] = d, Names(f, i), status[f] # "STORED",
         UNCHANGED <<rows, temp, target, content>>
  PROVE  /\ NamesInv' /\ StoredInv' /\ CurrentIsWhole' /\ StoredIsRetained'
         /\ kills = 0 => RevisionsIntact'
         /\ pc' = [pc EXCEPT ![w] = next] => Kept(f, d)'
         /\ \E step \in {next, "cleanup"} : pc' = [pc EXCEPT ![w] = step]
<1> USE DEF ArchiveInv, PayloadsAreIntact
<1>1. \A g \in Files : retained[g] \in [Contents -> Inodes \cup {None}]
  BY DEF TypeInv, TypeOK
<1>2. \A g \in Files, c \in Contents :
        retained'[g][c] = retained[g][c] \/ (g = f /\ c = d /\ retained[g][c] = None /\ retained'[g][c] = i)
  <2>1. CASE retained' = retained
    BY <2>1
  <2>2. CASE retained[f][d] = None /\ retained' = [retained EXCEPT ![f][d] = i]
    <3>1. retained' = [retained EXCEPT ![f] = [retained[f] EXCEPT ![d] = i]]
      BY <2>2
    <3> QED BY <1>1, <2>2, <3>1 DEF TypeInv, TypeOK
  <2> QED BY <2>1, <2>2 DEF Retain
<1>3. i # None
  BY DEF Inodes, None
<1>4. NamesInv'
  <2>1. \A g \in Files, k \in Inodes : Names(g, k)' => Names(g, k)
    <3> SUFFICES ASSUME NEW g \in Files, NEW k \in Inodes, Names(g, k)', ~Names(g, k)
                 PROVE  FALSE
      OBVIOUS
    <3>1. PICK c \in Contents : k = retained'[g][c] /\ k # retained[g][c]
      BY DEF Names
    <3>2. g = f /\ k = i
      BY <1>2, <3>1
    <3> QED BY <3>2
  <2> QED BY <2>1 DEF NamesInv
<1>5. StoredInv' /\ CurrentIsWhole'
  BY DEF StoredInv, CurrentIsWhole, rows
<1>6. StoredIsRetained'
  <2> SUFFICES ASSUME NEW g \in Files, status[g] = "STORED"
               PROVE  /\ target[g] # None /\ content[target[g]] = digest[g]
                      /\ revisions[g] # << >> =>
                           /\ revisions[g][Len(revisions[g])] = digest[g]
                           /\ retained'[g][digest[g]] # None
                           /\ content[retained'[g][digest[g]]] = digest[g]
    BY DEF StoredIsRetained, rows
  <2>1. g # f /\ digest[g] \in Contents
    BY DEF TypeInv, TypeOK
  <2> QED BY <1>2, <2>1 DEF StoredIsRetained
<1>7. ASSUME kills = 0 PROVE RevisionsIntact'
  <2> SUFFICES ASSUME NEW g \in Files, NEW k \in DOMAIN revisions[g]
               PROVE  /\ retained'[g][revisions[g][k]] # None
                      /\ content[retained'[g][revisions[g][k]]] = revisions[g][k]
    BY DEF RevisionsIntact, rows
  <2>1. revisions[g][k] \in Contents
    BY DEF TypeInv, TypeOK
  <2>2. /\ retained[g][revisions[g][k]] # None
        /\ content[retained[g][revisions[g][k]]] = revisions[g][k]
    BY <1>7 DEF RevisionsIntactUnlessKilled, RevisionsIntact
  <2> QED BY <1>2, <2>1, <2>2
<1>8. ASSUME pc' = [pc EXCEPT ![w] = next] PROVE Kept(f, d)'
  <2>1. CASE retained[f][d] = None /\ retained' = [retained EXCEPT ![f][d] = i]
    <3>1. retained' = [retained EXCEPT ![f] = [retained[f] EXCEPT ![d] = i]]
      BY <2>1
    <3>2. retained'[f][d] = i
      BY <1>1, <3>1 DEF TypeInv, TypeOK
    <3> QED BY <1>3, <3>2 DEF Kept
  <2>2. CASE /\ retained[f][d] # None /\ UNCHANGED retained
             /\ Goto(w, IF content[retained[f][d]] = d /\ Size(content[i]) = Size(d)
                        THEN next ELSE "cleanup")
    <3>1. pc'[w] = next
      BY <1>8 DEF TypeInv, TypeOK
    <3>2. content[retained[f][d]] = d
      BY <2>2, <3>1 DEF Goto, TypeInv, TypeOK
    <3> QED BY <2>2, <3>2 DEF Kept
  <2> QED BY <2>1, <2>2 DEF Retain
<1>9. \E step \in {next, "cleanup"} : pc' = [pc EXCEPT ![w] = step]
  BY DEF Retain, Goto
<1> QED BY <1>4, <1>5, <1>6, <1>7, <1>8, <1>9

LEMMA LinkStep ==
  ASSUME TypeInv, HolderInv, ArchiveInv, NEW w \in Workers, Advance(w),
         RetainOld(w) \/ Link(w)
  PROVE  ArchiveInv'
<1>1. PICK f \in Files : f = file[w]
  BY DEF TypeInv, TypeOK
<1>2. PICK v \in Versions : v = version[w]
  BY DEF TypeInv, TypeOK
<1>3. /\ pc[w] \in {"retainOld", "link"}
      /\ UNCHANGED <<status, digest, revisions, temp, target, content, file, version, kills>>
  BY DEF RetainOld, Link, OnDatabase, At, rows, bounds, local, transfer
<1>4. pc[w] \in Writing /\ pc[w] \in Downloading
  BY <1>3 DEF Writing, Downloading
<1>5. /\ status[f] = "DOWNLOADING" /\ temp[f] \in Inodes /\ temp[f] # None
      /\ content[temp[f]] = Payload(v)
      /\ (kills = 0 => \A g \in Files : temp[g] # None => g = f)
  <2>1. pc[w] \in Complete
    BY <1>3 DEF Complete
  <2> QED BY <1>1, <1>2, <1>4, <2>1, Mine DEF DownloadOf, TypeInv, TypeOK
<1>6. \A step \in Steps : pc' = [pc EXCEPT ![w] = step] => pc'[w] = step
  BY DEF TypeInv, TypeOK
<1>7. CASE retained' = retained /\ pc' = [pc EXCEPT ![w] = "link"]
  <2>1. pc'[w] = "link" /\ "link" \in Transfer
    BY <1>6, <1>7 DEF Steps, Transfer, Complete
  <2>2. NamesInv' /\ StoredInv' /\ CurrentIsWhole' /\ StoredIsRetained'
    BY <1>3, <1>7 DEF NamesInv, Names, StoredInv, CurrentIsWhole, StoredIsRetained,
       ArchiveInv, PayloadsAreIntact
  <2>3. kills = 0 => RevisionsIntact'
    BY <1>3, <1>7 DEF RevisionsIntact, RevisionsIntactUnlessKilled, ArchiveInv, PayloadsAreIntact
  <2>4. DownloadOf(w, f, v)'
    BY <1>3, <1>5, <2>1 DEF DownloadOf
  <2> QED BY <1>1, <1>2, <1>3, <1>4, <1>5, <2>1, <2>2, <2>3, <2>4, DownloadStep
<1>8. ASSUME NEW i \in Inodes, NEW d \in Contents, NEW next \in {"recordOld", "record"},
             Retain(w, f, i, d, next), content[i] = d, i \in {temp[f], target[f]},
             next = "recordOld" => d = content[target[f]] /\ target[f] # None,
             next = "record" => d = Payload(v)
      PROVE  ArchiveInv'
  <2>1. Names(f, i) /\ i # None
    BY <1>8 DEF Names, Inodes, None
  <2>2. /\ NamesInv' /\ StoredInv' /\ CurrentIsWhole' /\ StoredIsRetained'
        /\ kills = 0 => RevisionsIntact'
        /\ pc' = [pc EXCEPT ![w] = next] => Kept(f, d)'
        /\ \E step \in {next, "cleanup"} : pc' = [pc EXCEPT ![w] = step]
    BY <1>3, <1>5, <1>8, <2>1, RetainKeeps DEF rows
  <2>3. PICK step \in {next, "cleanup"} : pc' = [pc EXCEPT ![w] = step]
    BY <2>2
  <2>4. pc'[w] = step /\ step \in Transfer /\ step \notin {"head", "tail"}
    BY <1>6, <2>3 DEF Steps, Transfer, Complete
  <2>5. DownloadOf(w, f, v)'
    <3>1. CASE step = "cleanup"
      BY <1>3, <1>5, <2>4, <3>1 DEF DownloadOf, Complete
    <3>2. CASE step = "recordOld"
      BY <1>3, <1>5, <1>8, <2>2, <2>3, <2>4, <3>2 DEF DownloadOf
    <3>3. CASE step = "record"
      BY <1>3, <1>5, <1>8, <2>2, <2>3, <2>4, <3>3 DEF DownloadOf
    <3> QED BY <3>1, <3>2, <3>3
  <2> QED BY <1>1, <1>2, <1>3, <1>4, <1>5, <2>2, <2>4, <2>5, DownloadStep
<1>9. CASE RetainOld(w)
  <2>1. CASE revisions[f] # << >> /\ Goto(w, "link") /\ UNCHANGED retained
    BY <1>7, <2>1 DEF Goto
  <2>2. CASE target[f] # None /\ Retain(w, f, target[f], content[target[f]], "recordOld")
    <3>1. target[f] \in Inodes /\ content[target[f]] \in Contents
      BY <2>2 DEF TypeInv, TypeOK
    <3> QED BY <1>8, <2>2, <3>1
  <2> QED BY <1>1, <1>9, <2>1, <2>2 DEF RetainOld
<1>10. CASE Link(w)
  <2>1. Retain(w, f, temp[f], Payload(v), "record")
    BY <1>1, <1>2, <1>5, <1>10 DEF Link
  <2> QED BY <1>5, <1>8, <2>1, PayloadTypes
<1> QED BY <1>9, <1>10

(* The row of a revision is written once its payload is retained.          *)
LEMMA RecordStep ==
  ASSUME TypeInv, HolderInv, ArchiveInv, NEW w \in Workers, Advance(w),
         RecordOld(w) \/ Record(w)
  PROVE  ArchiveInv'
<1>1. PICK f \in Files : f = file[w]
  BY DEF TypeInv, TypeOK
<1>2. PICK v \in Versions : v = version[w]
  BY DEF TypeInv, TypeOK
<1>3. /\ pc[w] \in {"recordOld", "record"}
      /\ UNCHANGED <<status, digest, temp, target, retained, content, file, version, kills>>
  BY DEF RecordOld, Record, OnDatabase, At, archive, names, bounds, local, transfer
<1>4. pc[w] \in Writing /\ pc[w] \in Downloading /\ pc[w] \in Complete
  BY <1>3 DEF Writing, Downloading, Complete
<1>5. /\ status[f] = "DOWNLOADING" /\ temp[f] # None /\ content[temp[f]] = Payload(v)
      /\ (pc[w] = "recordOld" => Kept(f, content[target[f]]))
      /\ (pc[w] = "record" => Kept(f, Payload(v)))
      /\ (kills = 0 => \A g \in Files : temp[g] # None => g = f)
  BY <1>1, <1>2, <1>4, Mine DEF DownloadOf
<1>6. PICK d \in Contents :
        /\ Kept(f, d) /\ revisions' = Observed(f, d)
        /\ \/ pc[w] = "recordOld" /\ pc' = [pc EXCEPT ![w] = "link"]
           \/ pc[w] = "record" /\ d = Payload(v) /\ pc' = [pc EXCEPT ![w] = "replace"]
  <2>1. CASE RecordOld(w)
    <3>1. pc[w] = "recordOld" /\ pc' = [pc EXCEPT ![w] = "link"]
          /\ revisions' = Observed(f, content[target[f]])
      BY <1>1, <2>1 DEF RecordOld, OnDatabase, At, Goto
    <3>2. content[target[f]] \in Contents
      BY <1>1, <3>1 DEF TypeInv, TypeOK, OldExists, At
    <3> QED BY <1>5, <3>1, <3>2
  <2>2. CASE Record(w)
    <3>1. pc[w] = "record" /\ pc' = [pc EXCEPT ![w] = "replace"]
          /\ revisions' = Observed(f, Payload(v))
      BY <1>1, <1>2, <1>5, <2>2 DEF Record, OnDatabase, At, Goto
    <3> QED BY <1>5, <3>1, PayloadTypes
  <2> QED BY <2>1, <2>2
<1>7. /\ revisions' \in [Files -> Seq(Contents)] /\ revisions'[f] # << >>
      /\ revisions'[f][Len(revisions'[f])] = d
      /\ \A g \in Files : g # f => revisions'[g] = revisions[g]
      /\ \A k \in DOMAIN revisions'[f] :
            revisions'[f][k] = d \/ (k \in DOMAIN revisions[f] /\ revisions'[f][k] = revisions[f][k])
  <2>1. revisions[f] \in Seq(Contents) /\ revisions \in [Files -> Seq(Contents)]
    BY DEF TypeInv, TypeOK
  <2>2. CASE revisions' = revisions /\ revisions[f] # << >> /\ revisions[f][Len(revisions[f])] = d
    BY <2>1, <2>2
  <2>3. CASE revisions' = [revisions EXCEPT ![f] = Append(@, d)]
    <3>1. Append(revisions[f], d) \in Seq(Contents) /\ Append(revisions[f], d) # << >>
          /\ Len(Append(revisions[f], d)) = Len(revisions[f]) + 1
          /\ Append(revisions[f], d)[Len(revisions[f]) + 1] = d
          /\ \A k \in 1..Len(revisions[f]) : Append(revisions[f], d)[k] = revisions[f][k]
      BY <2>1
    <3>2. revisions'[f] = Append(revisions[f], d)
          /\ revisions' \in [Files -> Seq(Contents)]
          /\ \A g \in Files : g # f => revisions'[g] = revisions[g]
      BY <2>1, <2>3, <3>1
    <3>3. DOMAIN revisions'[f] = 1..(Len(revisions[f]) + 1) /\ DOMAIN revisions[f] = 1..Len(revisions[f])
          /\ Len(revisions[f]) \in Nat
      BY <2>1, <3>1, <3>2
    <3> QED BY <3>1, <3>2, <3>3
  <2> QED BY <1>6, <2>2, <2>3 DEF Observed
<1>8. NamesInv' /\ StoredInv' /\ CurrentIsWhole'
  BY <1>3 DEF NamesInv, Names, StoredInv, CurrentIsWhole, ArchiveInv, PayloadsAreIntact
<1>9. StoredIsRetained'
  <2> SUFFICES ASSUME NEW g \in Files, status[g] = "STORED"
               PROVE  /\ target[g] # None /\ content[target[g]] = digest[g]
                      /\ revisions'[g] # << >> =>
                           /\ revisions'[g][Len(revisions'[g])] = digest[g]
                           /\ retained[g][digest[g]] # None
                           /\ content[retained[g][digest[g]]] = digest[g]
    BY <1>3 DEF StoredIsRetained
  <2>1. g # f /\ revisions'[g] = revisions[g]
    BY <1>5, <1>7
  <2> QED BY <2>1 DEF StoredIsRetained, ArchiveInv, PayloadsAreIntact
<1>10. ASSUME kills = 0 PROVE RevisionsIntact'
  <2> SUFFICES ASSUME NEW g \in Files, NEW k \in DOMAIN revisions'[g]
               PROVE  /\ retained[g][revisions'[g][k]] # None
                      /\ content[retained[g][revisions'[g][k]]] = revisions'[g][k]
    BY <1>3 DEF RevisionsIntact
  <2>1. CASE g = f /\ revisions'[f][k] = d
    BY <1>6, <2>1 DEF Kept
  <2>2. CASE k \in DOMAIN revisions[g] /\ revisions'[g][k] = revisions[g][k]
    BY <1>10, <2>2 DEF RevisionsIntact, RevisionsIntactUnlessKilled, ArchiveInv, PayloadsAreIntact
  <2> QED BY <1>7, <2>1, <2>2
<1>11. pc'[w] \in {"link", "replace"} /\ (pc'[w] = "replace" => d = Payload(v))
  BY <1>3, <1>6 DEF TypeInv, TypeOK
<1>12. DownloadOf(w, f, v)'
  BY <1>3, <1>5, <1>6, <1>7, <1>11 DEF DownloadOf, Kept, Latest
<1>13. pc'[w] \in Transfer /\ pc'[w] \notin {"head", "tail"}
  BY <1>11 DEF Transfer, Complete
<1> QED BY <1>1, <1>2, <1>3, <1>4, <1>5, <1>8, <1>9, <1>10, <1>12, <1>13, DownloadStep

(* The rename publishes a whole payload, and the row follows it.           *)
LEMMA ReplaceStep ==
  ASSUME TypeInv, HolderInv, ArchiveInv, NEW w \in Workers, Advance(w), Replace(w)
  PROVE  ArchiveInv'
<1>1. PICK f \in Files : f = file[w]
  BY DEF TypeInv, TypeOK
<1>2. PICK v \in Versions : v = version[w]
  BY DEF TypeInv, TypeOK
<1>3. /\ pc[w] = "replace"
      /\ UNCHANGED <<status, digest, revisions, retained, content, file, version, kills>>
  BY DEF Replace, At, rows, bounds, local, transfer
<1>4. pc[w] \in Writing /\ pc[w] \in Downloading /\ pc[w] \in Complete
  BY <1>3 DEF Writing, Downloading, Complete
<1>5. /\ status[f] = "DOWNLOADING" /\ temp[f] \in Inodes /\ temp[f] # None
      /\ content[temp[f]] = Payload(v) /\ Kept(f, Payload(v)) /\ Latest(f, Payload(v))
      /\ (kills = 0 => \A g \in Files : temp[g] # None => g = f)
  BY <1>1, <1>2, <1>3, <1>4, Mine DEF DownloadOf, TypeInv, TypeOK
<1>6. /\ target' = [target EXCEPT ![f] = temp[f]] /\ temp' = [temp EXCEPT ![f] = None]
      /\ pc' = [pc EXCEPT ![w] = "store"]
  BY <1>1, <1>5 DEF Replace, Goto
<1>7. /\ target'[f] = temp[f] /\ temp'[f] = None /\ pc'[w] = "store"
      /\ \A g \in Files : g # f => target'[g] = target[g] /\ temp'[g] = temp[g]
  BY <1>6 DEF TypeInv, TypeOK
<1>8. NamesInv'
  <2>1. \A g \in Files, k \in Inodes : Names(g, k)' => Names(g, k)
    BY <1>3, <1>7 DEF Names
  <2>2. \A g \in Files : temp'[g] # None => temp'[g] # target'[g]
    BY <1>7 DEF NamesInv, ArchiveInv
  <2> QED BY <2>1, <2>2 DEF NamesInv, ArchiveInv
<1>9. StoredInv' /\ CurrentIsWhole'
  BY <1>3, <1>5, <1>7 DEF StoredInv, CurrentIsWhole, ArchiveInv, PayloadsAreIntact
<1>10. StoredIsRetained'
  BY <1>3, <1>5, <1>7 DEF StoredIsRetained, ArchiveInv, PayloadsAreIntact
<1>11. kills = 0 => RevisionsIntact'
  BY <1>3 DEF RevisionsIntact, RevisionsIntactUnlessKilled, ArchiveInv, PayloadsAreIntact
<1>12. DownloadOf(w, f, v)'
  BY <1>3, <1>5, <1>7 DEF DownloadOf, Complete, Kept, Latest
<1>13. kills = 0 => \A g \in Files : temp'[g] = None
  BY <1>5, <1>7
<1>14. pc'[w] \notin {"head", "tail"}
  BY <1>7
<1> QED
  BY <1>1, <1>2, <1>3, <1>4, <1>8, <1>9, <1>10, <1>11, <1>12, <1>13, <1>14, DownloadStep

LEMMA StoreStep ==
  ASSUME TypeInv, HolderInv, ArchiveInv, NEW w \in Workers, Advance(w), Store(w)
  PROVE  ArchiveInv'
<1>1. PICK f \in Files : f = file[w]
  BY DEF TypeInv, TypeOK
<1>2. PICK v \in Versions : v = version[w]
  BY DEF TypeInv, TypeOK
<1>3. /\ pc[w] = "store"
      /\ UNCHANGED <<revisions, temp, target, retained, content, file, version, kills>>
  BY DEF Store, OnDatabase, At, archive, names, bounds, local, transfer
<1>4. pc[w] \in Writing /\ pc[w] \in Downloading /\ pc[w] \notin Transfer
  BY <1>3 DEF Writing, Downloading, Transfer, Complete
<1>5. /\ temp[f] = None /\ target[f] # None /\ content[target[f]] = Payload(v)
      /\ Kept(f, Payload(v)) /\ Latest(f, Payload(v))
      /\ (kills = 0 => \A g \in Files : temp[g] = None)
  BY <1>1, <1>2, <1>3, <1>4, Mine DEF DownloadOf
<1>6. /\ pc'[w] = "unlink" /\ digest'[f] = Payload(v)
      /\ \A g \in Files : g # f => status'[g] = status[g] /\ digest'[g] = digest[g]
  BY <1>1, <1>2 DEF Store, Goto, TypeInv, TypeOK
<1>7. NamesInv' /\ CurrentIsWhole'
  BY <1>3 DEF NamesInv, Names, CurrentIsWhole, ArchiveInv, PayloadsAreIntact
<1>8. StoredInv'
  BY <1>3, <1>5, <1>6 DEF StoredInv, ArchiveInv
<1>9. StoredIsRetained'
  <2> SUFFICES ASSUME NEW g \in Files, status'[g] = "STORED"
               PROVE  /\ target[g] # None /\ content[target[g]] = digest'[g]
                      /\ revisions[g] # << >> =>
                           /\ revisions[g][Len(revisions[g])] = digest'[g]
                           /\ retained[g][digest'[g]] # None
                           /\ content[retained[g][digest'[g]]] = digest'[g]
    BY <1>3 DEF StoredIsRetained
  <2>1. CASE g = f
    BY <1>5, <1>6, <2>1 DEF Kept, Latest
  <2>2. CASE g # f
    BY <1>6, <2>2 DEF StoredIsRetained, ArchiveInv, PayloadsAreIntact
  <2> QED BY <2>1, <2>2
<1>10. kills = 0 => RevisionsIntact'
  BY <1>3 DEF RevisionsIntact, RevisionsIntactUnlessKilled, ArchiveInv, PayloadsAreIntact
<1>11. DownloadOf(w, f, v)' /\ pc'[w] \notin {"head", "tail"}
  BY <1>6 DEF DownloadOf, Downloading, Complete
<1> QED
  BY <1>1, <1>2, <1>3, <1>4, <1>5, <1>7, <1>8, <1>9, <1>10, <1>11, DownloadStep

(* The unlinked bytes had no other name.                                   *)
LEMMA UnlinkStep ==
  ASSUME TypeInv, HolderInv, ArchiveInv, NEW w \in Workers, Advance(w), Unlink(w)
  PROVE  ArchiveInv'
<1>1. PICK f \in Files : f = file[w]
  BY DEF TypeInv, TypeOK
<1>2. PICK v : v = version'[w]
  OBVIOUS
<1>3. /\ \/ pc[w] = "unlink" /\ pc' = [pc EXCEPT ![w] = "choose"]
         \/ pc[w] = "cleanup" /\ pc' = [pc EXCEPT ![w] = "failed"]
      /\ temp' = [temp EXCEPT ![f] = None]
      /\ UNCHANGED <<status, digest, revisions, target, retained, file, kills>>
  BY <1>1 DEF Unlink, At, Goto, rows, bounds
<1>4. pc[w] \in Writing /\ (pc[w] = "cleanup" => status[f] = "DOWNLOADING")
      /\ (kills = 0 => \A g \in Files : temp[g] # None => g = f)
      /\ (pc[w] = "unlink" /\ kills = 0 => temp[f] = None)
  <2>1. pc[w] \in Writing /\ (pc[w] = "cleanup" => pc[w] \in Downloading) /\ "unlink" \notin Transfer
    BY <1>3 DEF Writing, Downloading, Transfer, Complete
  <2> QED BY <1>1, <2>1, Mine
<1>5. /\ temp'[f] = None /\ pc'[w] \in {"choose", "failed"}
      /\ (pc'[w] = "failed" => pc[w] = "cleanup")
      /\ \A g \in Files : temp'[g] = None \/ temp'[g] = temp[g]
      /\ \A g \in Files : g # f => temp'[g] = temp[g]
  BY <1>3 DEF TypeInv, TypeOK
<1>6. \A k \in Inodes : content'[k] = content[k] \/ (k = temp[f] /\ \A c \in Contents : retained[f][c] # k)
  BY <1>1 DEF Unlink
<1>7. /\ \A g \in Files : target[g] # None => content'[target[g]] = content[target[g]]
      /\ \A g \in Files, c \in Contents :
           retained[g][c] # None => content'[retained[g][c]] = content[retained[g][c]]
  <2>1. \A k \in Inodes : k = temp[f] => Names(f, k) /\ k # target[f]
    BY DEF Names, NamesInv, ArchiveInv, Inodes, None
  <2>2. \A g \in Files : target[g] # None => target[g] \in Inodes /\ Names(g, target[g])
    BY DEF Names, TypeInv, TypeOK
  <2>3. \A g \in Files, c \in Contents : retained[g][c] # None =>
          retained[g][c] \in Inodes /\ Names(g, retained[g][c])
    BY DEF Names, TypeInv, TypeOK
  <2> QED BY <1>6, <2>1, <2>2, <2>3 DEF NamesInv, ArchiveInv
<1>8. NamesInv'
  <2>1. \A g \in Files, k \in Inodes : Names(g, k)' => Names(g, k)
    BY <1>3, <1>5 DEF Names
  <2>2. \A g \in Files : temp'[g] # None => temp'[g] # target'[g]
    BY <1>3, <1>5 DEF NamesInv, ArchiveInv
  <2> QED BY <2>1, <2>2 DEF NamesInv, ArchiveInv
<1>9. StoredInv' /\ CurrentIsWhole'
  BY <1>3, <1>5, <1>7 DEF StoredInv, CurrentIsWhole, ArchiveInv, PayloadsAreIntact
<1>10. StoredIsRetained'
  <2>1. \A g \in Files : digest[g] \in Contents
    BY DEF TypeInv, TypeOK
  <2> QED BY <1>3, <1>7, <2>1 DEF StoredIsRetained, ArchiveInv, PayloadsAreIntact
<1>11. kills = 0 => RevisionsIntact'
  <2>1. \A g \in Files : \A k \in DOMAIN revisions[g] : revisions[g][k] \in Contents
    BY DEF TypeInv, TypeOK
  <2> QED
    BY <1>3, <1>7, <2>1 DEF RevisionsIntact, RevisionsIntactUnlessKilled, ArchiveInv, PayloadsAreIntact
<1>12. DownloadOf(w, f, v)'
  BY <1>3, <1>4, <1>5 DEF DownloadOf, Downloading, Complete
<1>13. (kills = 0 => \A g \in Files : temp'[g] = None) /\ pc'[w] \notin {"head", "tail"}
  BY <1>4, <1>5
<1> QED
  BY <1>1, <1>2, <1>3, <1>4, <1>8, <1>9, <1>10, <1>11, <1>12, <1>13, DownloadStep

(* The steps of the other workers' jobs, of the batch, and the kill.       *)
LEMMA RestStep ==
  ASSUME TypeInv, HolderInv, ArchiveInv, NEW w \in Workers, Alive',
         \/ AcquireLock(w) \/ Recover(w) \/ Claim(w) \/ Finish(w) \/ DownloadRaises(w)
         \/ BatchRaises(w) \/ AssertLock(w)
         \/ Refuse(w) \/ ReleaseLock(w) \/ Kill(w)
         \/ \E j \in Jobs : Deliver(w, j) \/ Schedule(w, j)
  PROVE  ArchiveInv'
<1> USE DEF Goto, OnDatabase, At
<1>1. /\ UNCHANGED <<status, digest, revisions, archive>>
      /\ \A u \in Workers : u # w =>
           pc'[u] = pc[u] /\ file'[u] = file[u] /\ handle'[u] = handle[u] /\ version'[u] = version[u]
  <2>1. CASE AcquireLock(w) \/ Recover(w) \/ Claim(w) \/ Finish(w) \/ BatchRaises(w)
    BY <2>1 DEF AcquireLock, Recover, Claim, Finish, BatchRaises, rows, local, transfer,
       TypeInv, TypeOK
  <2>2. CASE DownloadRaises(w) \/ AssertLock(w)
    BY <2>2 DEF DownloadRaises, AssertLock, rows, TypeInv, TypeOK
  <2>3. CASE Refuse(w) \/ ReleaseLock(w) \/ Kill(w)
    BY <2>3 DEF Refuse, ReleaseLock, Kill, Return, rows, TypeInv, TypeOK
  <2>4. CASE \E j \in Jobs : Deliver(w, j) \/ Schedule(w, j)
    BY <2>4 DEF Deliver, Schedule, Start, transfer, rows, TypeInv, TypeOK
  <2> QED BY <2>1, <2>2, <2>3, <2>4
<1>2. CASE DownloadRaises(w) \/ AssertLock(w)
  <2>1. /\ pc[w] \in Downloading /\ pc[w] \in Writing /\ pc[w] \in Working
        /\ UNCHANGED <<file, version, kills, status>>
        /\ pc'[w] \in {"cleanup", "retainOld", "link"}
        /\ AssertLock(w) => pc[w] = "assert"
        /\ DownloadRaises(w) => pc'[w] = "cleanup"
    BY <1>2 DEF DownloadRaises, AssertLock, InDownload, Downloading, Writing, Working, Steps,
       bounds, rows, TypeInv, TypeOK
  <2>2. DownloadOf(w, file[w], version[w])
    BY <2>1, Mine
  <2>3. DownloadOf(w, file[w], version[w])'
    <3>1. UNCHANGED <<temp, content, file, version, status>>
      BY <1>1, <2>1 DEF archive, names
    <3>2. CASE pc'[w] = "cleanup"
      BY <2>1, <2>2, <3>1, <3>2 DEF DownloadOf, Downloading, Complete
    <3>3. CASE pc[w] = "assert"
      BY <2>1, <2>2, <3>1, <3>3 DEF DownloadOf, Downloading, Complete
    <3> QED BY <1>2, <2>1, <3>2, <3>3
  <2>4. pc'[w] \in Transfer /\ pc'[w] \notin {"head", "tail"}
    BY <2>1 DEF Transfer, Complete
  <2> QED BY <1>1, <2>1, <2>3, <2>4, QuietStep
<1>3. ASSUME pc'[w] \notin Downloading, UNCHANGED kills \/ kills' # 0,
             UNCHANGED kills => pc[w] \notin Transfer
      PROVE  ArchiveInv'
  <2>1. DownloadOf(w, file[w], version[w])' /\ pc'[w] \notin {"head", "tail"}
    BY <1>3 DEF DownloadOf, Downloading, Complete
  <2> QED BY <1>1, <1>3, <2>1, QuietStep
<1>4. CASE AcquireLock(w) \/ Recover(w) \/ Claim(w) \/ Finish(w) \/ BatchRaises(w)
  <2>1. pc'[w] \in {"recover", "refused", "claim", "reset", "release", "finish"}
    BY <1>4 DEF AcquireLock, Recover, Claim, Finish, BatchRaises, TypeInv, TypeOK
  <2>2. UNCHANGED kills
    BY <1>4 DEF AcquireLock, Recover, Claim, Finish, BatchRaises, bounds
  <2>3. pc[w] \in {"start", "recover", "claim", "finish", "catalog", "verify", "choose", "failed"}
    BY <1>4 DEF AcquireLock, Recover, Claim, Finish, BatchRaises, Handled
  <2> QED BY <1>3, <2>1, <2>2, <2>3 DEF Downloading, Transfer, Complete
<1>5. CASE Refuse(w) \/ ReleaseLock(w)
  <2>1. pc'[w] = "idle" /\ UNCHANGED kills /\ pc[w] \in {"refused", "release"}
    BY <1>5 DEF Refuse, ReleaseLock, Return, bounds, TypeInv, TypeOK
  <2> QED BY <1>3, <2>1 DEF Downloading, Transfer, Complete
<1>6. CASE Kill(w)
  <2>1. pc'[w] = "idle" /\ kills' # 0 /\ kills' # kills
    BY <1>6 DEF Kill, Return, TypeInv, TypeOK
  <2> QED BY <1>3, <2>1 DEF Downloading
<1>7. CASE \E j \in Jobs : Deliver(w, j) \/ Schedule(w, j)
  <2>1. pc'[w] = "start" /\ UNCHANGED kills /\ pc[w] = "idle"
    BY <1>7 DEF Deliver, Schedule, Start, bounds, TypeInv, TypeOK
  <2> QED BY <1>3, <2>1 DEF Downloading, Transfer, Complete
<1> QED BY <1>2, <1>4, <1>5, <1>6, <1>7

(* The steps that write statuses, none of them STORED.                     *)
LEMMA StatusStep ==
  ASSUME TypeInv, HolderInv, ArchiveInv, NEW w \in Workers, Alive', Advance(w),
         Reset(w) \/ Catalog(w) \/ Verify(w) \/ Choose(w) \/ MarkFailed(w)
  PROVE  ArchiveInv'
<1> USE DEF Goto, OnDatabase, At
<1>1. /\ UNCHANGED <<digest, revisions, archive, handle, version, kills>>
      /\ pc[w] \in {"reset", "catalog", "verify", "choose", "failed"}
  BY DEF Reset, Catalog, Verify, Choose, MarkFailed, local, transfer, bounds
<1>2. \A u \in Workers : u # w => pc'[u] = pc[u] /\ file'[u] = file[u]
  BY DEF Reset, Catalog, Verify, Choose, MarkFailed, local, transfer, TypeInv, TypeOK
<1>3. \A f \in Files : status'[f] = "STORED" => status[f] = "STORED"
  BY DEF Reset, Catalog, Verify, Choose, MarkFailed, TypeInv, TypeOK
<1>4. /\ pc'[w] \in {"verify", "catalog", "choose", "finish", "open"}
      /\ pc'[w] = "open" => status'[file'[w]] = "DOWNLOADING"
  <2>1. CASE Choose(w)
    BY <2>1 DEF Choose, TypeInv, TypeOK
  <2>2. CASE Reset(w) \/ Catalog(w) \/ Verify(w) \/ MarkFailed(w)
    BY <1>1, <2>2 DEF Reset, Catalog, Verify, MarkFailed, TypeInv, TypeOK
  <2> QED BY <2>1, <2>2
<1>5. DownloadOf(w, file[w], version[w])'
  BY <1>4 DEF DownloadOf, Downloading, Complete
<1>6. pc[w] \in Working /\ pc[w] \notin Transfer /\ pc'[w] \notin {"head", "tail"}
  BY <1>1, <1>4 DEF Working, Steps, Transfer, Complete
<1> QED BY <1>1, <1>2, <1>3, <1>5, <1>6, QuietStep

LEMMA ArchiveStep ==
  ASSUME MaxLosses = 0, TypeInv, HolderInv, ArchiveInv, [Next]_vars
  PROVE  ArchiveInv'
<1>1. ASSUME NEW w \in Workers PROVE ~LoseSession(w) /\ ~TaskRaises(w)
  BY DEF LoseSession, TaskRaises, TypeInv, TypeOK, ArchiveInv, Alive
<1>2. Alive'
  <2>1. \A w \in Workers : session'[w] = TRUE
    <3>1. CASE UNCHANGED session
      BY <3>1 DEF ArchiveInv, Alive, TypeInv, TypeOK
    <3>2. ASSUME NEW w \in Workers, session' = [session EXCEPT ![w] = TRUE]
          PROVE  <2>1
      BY <3>2 DEF ArchiveInv, Alive, TypeInv, TypeOK
    <3>3. ASSUME NEW j \in Jobs, StartJob(j) \/ Published(j) PROVE UNCHANGED session
      BY <3>3 DEF StartJob, Published, locking
    <3>4. ASSUME NEW w \in Workers, NEW j \in Jobs, Deliver(w, j) \/ Schedule(w, j)
          PROVE  session' = [session EXCEPT ![w] = TRUE]
      BY <3>4 DEF Deliver, Schedule, Start
    <3>5. ASSUME NEW w \in Workers, AcquireLock(w) \/ Refuse(w) \/ ReleaseLock(w) \/ Kill(w)
          PROVE  UNCHANGED session
      BY <3>5 DEF AcquireLock, Refuse, ReleaseLock, Kill, locking
    <3>6. ASSUME NEW w \in Workers, Advance(w) PROVE UNCHANGED session
      BY <3>6 DEF Advance
    <3>7. ASSUME UNCHANGED vars PROVE UNCHANGED session
      BY <3>7 DEF vars, locking
    <3>8. ASSUME NEW w \in Workers, Step(w) PROVE UNCHANGED session
      BY <1>1, <3>5, <3>6, <3>8, Advances DEF Step, RunJob
    <3> QED BY <1>1, <3>1, <3>2, <3>3, <3>4, <3>5, <3>7, <3>8 DEF Next
  <2> QED BY <2>1 DEF Alive
<1>3. CASE UNCHANGED <<rows, archive, pc, file, handle, version, kills>>
  <2>1. UNCHANGED <<status, digest, revisions, temp, target, retained, content>>
    BY <1>3 DEF rows, archive, names
  <2>2. NamesInv' /\ StoredInv' /\ UntouchedInv'
    BY <1>3, <2>1 DEF ArchiveInv, NamesInv, Names, StoredInv, UntouchedInv
  <2>3. DownloadInv'
    BY <1>3, <2>1 DEF ArchiveInv, DownloadInv, DownloadOf, Kept, Latest
  <2>4. CurrentIsWhole' /\ StoredIsRetained' /\ RevisionsIntactUnlessKilled'
    BY <1>3, <2>1 DEF ArchiveInv, PayloadsAreIntact, CurrentIsWhole, StoredIsRetained,
       RevisionsIntactUnlessKilled, RevisionsIntact
  <2> QED BY <1>2, <2>2, <2>3, <2>4 DEF ArchiveInv, PayloadsAreIntact
<1>4. ASSUME NEW j \in Jobs, StartJob(j) \/ Published(j) PROVE ArchiveInv'
  BY <1>3, <1>4 DEF StartJob, Published, local, transfer, bounds
<1>5. CASE UNCHANGED vars
  BY <1>3, <1>5 DEF vars, local, transfer, bounds
<1>6. ASSUME NEW w \in Workers, RunJob(w) PROVE ArchiveInv'
  BY <1>2, <1>6, Advances, RestStep, StatusStep DEF RunJob
<1>7. ASSUME NEW w \in Workers, Download(w) PROVE ArchiveInv'
  <2>1. Advance(w)
    BY <1>7, Advances
  <2> QED
    BY <1>2, <1>7, <2>1, StatusStep, RestStep, OpenStep, StreamStep, LinkStep, RecordStep,
       ReplaceStep, StoreStep, UnlinkStep DEF Download
<1>8. ASSUME NEW w \in Workers, Step(w) PROVE ArchiveInv'
  BY <1>1, <1>2, <1>6, <1>7, <1>8, RestStep DEF Step
<1>9. ASSUME NEW w \in Workers, NEW j \in Jobs, Deliver(w, j) \/ Schedule(w, j)
      PROVE  ArchiveInv'
  BY <1>2, <1>9, RestStep
<1>10. ASSUME NEW w \in Workers, Kill(w) PROVE ArchiveInv'
  BY <1>2, <1>10, RestStep
<1> QED BY <1>1, <1>4, <1>5, <1>8, <1>9, <1>10 DEF Next

(* As long as no database session is lost: the current path of every file  *)
(* holds one whole published payload, a stored file is the payload its row *)
(* names and its latest revision, and without kills every revision is      *)
(* intact (public_archive._download, revisions.retain).                    *)
THEOREM ArchiveStaysIntact ==
  ASSUME MaxLosses = 0
  PROVE  Spec => []PayloadsAreIntact
<1>1. IInv /\ [Next]_vars => IInv'
  BY TypeStep, HolderStep, JobStep, FileStep DEF IInv
<1>2. ArchiveInv => PayloadsAreIntact
  BY DEF ArchiveInv
<1>3. Init => ArchiveInv
  BY ArchiveInit
<1>4. IInv /\ ArchiveInv /\ [Next]_vars => ArchiveInv'
  BY ArchiveStep DEF IInv
<1> QED BY SingleInit, <1>1, <1>2, <1>3, <1>4, PTL DEF Spec

(***************************************************************************)
(*                                Moon Tax                                 *)
(***************************************************************************)
(* Induction over the naturals as a fact about sets.                       *)
LEMMA NatSetInduction ==
  ASSUME NEW T, 0 \in T, \A n \in Nat : n \in T => n + 1 \in T
  PROVE  Nat \subseteq T
<1> DEFINE Outside == Nat \ T
           Less == OpToRel(<, Nat)
<1>1. SUFFICES ASSUME Outside # {} PROVE FALSE
  BY Zenon
<1>2. IsWellFoundedOn(Less, Nat)
  BY NatLessThanWellFounded, Zenon
<1>3. ASSUME NEW a \in Nat, NEW b \in Nat, a < b
      PROVE  <<a, b>> \in Less
  BY <1>3 DEF OpToRel
<1> HIDE DEF Less
<1>4. Outside \subseteq Nat
  OBVIOUS
<1>5. PICK n \in Outside : \A m \in Outside : ~ (<<m, n>> \in Less)
  <2> HIDE DEF Outside
  <2> QED BY <1>1, <1>2, <1>4, WFMin, Zenon
<1>6. n # 0 /\ n \in Nat
  OBVIOUS
<1>7. n - 1 \in Nat /\ n - 1 < n /\ (n - 1) + 1 = n
  BY <1>6
<1>8. n - 1 \in Outside
  BY <1>7
<1> QED BY <1>3, <1>5, <1>6, <1>7, <1>8

(***************************************************************************)
(* Sums over finite sets.  MapThenSumSet adds in the order in which CHOOSE *)
(* takes elements; the sum does not depend on it.                          *)
(***************************************************************************)
Taken(s) == CHOOSE x \in s : TRUE
Added(F, f, s) == IF s = {} THEN 0 ELSE F[Taken(s)] + f[s \ {Taken(s)}]
Adds(F, S, f) == f = [s \in SUBSET S |-> Added(F, f, s)]
Total(F, S) == (CHOOSE f : Adds(F, S, f))[S]

LEMMA TakenIs ==
  ASSUME NEW s, s # {}
  PROVE  Taken(s) \in s
BY DEF Taken

Small(S, n) == {s \in SUBSET S : Cardinality(s) <= n}
LEMMA Smaller ==
  ASSUME NEW S, IsFiniteSet(S), NEW n \in Nat, NEW s \in Small(S, n + 1), s # {}
  PROVE  s \ {Taken(s)} \in Small(S, n) /\ Taken(s) \in s
<1>1. Taken(s) \in s
  BY TakenIs
<1>2. IsFiniteSet(s) /\ Cardinality(s) \in Nat /\ Cardinality(s) <= n + 1 /\ s \in SUBSET S
  BY FS_Subset, FS_CardinalityType DEF Small
<1>3. Cardinality(s \ {Taken(s)}) = Cardinality(s) - 1
  BY <1>1, <1>2, FS_RemoveElement
<1> QED BY <1>1, <1>2, <1>3 DEF Small

LEMMA AddsExists ==
  ASSUME NEW F, NEW S, IsFiniteSet(S)
  PROVE  \E f : Adds(F, S, f)
<1> DEFINE Fits(f, n) == f = [s \in Small(S, n) |-> Added(F, f, s)]
           T == {n \in Nat : \E f : Fits(f, n)}
<1>1. 0 \in T
  <2>1. PICK f : f = [s \in Small(S, 0) |-> 0]
    OBVIOUS
  <2>2. \A s \in Small(S, 0) : s = {}
    <3> SUFFICES ASSUME NEW s \in Small(S, 0) PROVE s = {}
      OBVIOUS
    <3>1. IsFiniteSet(s) /\ Cardinality(s) \in Nat /\ Cardinality(s) <= 0
      BY FS_Subset, FS_CardinalityType DEF Small
    <3> QED BY <3>1, FS_EmptySet
  <2>3. \A s \in Small(S, 0) : f[s] = Added(F, f, s)
    BY <2>1, <2>2 DEF Added
  <2>4. Fits(f, 0)
    BY <2>1, <2>3
  <2> QED BY <2>4
<1>2. ASSUME NEW n \in Nat, n \in T
      PROVE  n + 1 \in T
  <2>1. PICK f : Fits(f, n)
    BY <1>2
  <2>2. PICK g : g = [s \in Small(S, n + 1) |-> Added(F, f, s)]
    OBVIOUS
  <2>3. \A s \in Small(S, n) : s \in Small(S, n + 1) /\ f[s] = Added(F, f, s)
    <3>1. \A s \in Small(S, n) : s \in Small(S, n + 1)
      <4> SUFFICES ASSUME NEW s \in Small(S, n) PROVE s \in Small(S, n + 1)
        OBVIOUS
      <4>1. Cardinality(s) \in Nat
        BY FS_Subset, FS_CardinalityType DEF Small
      <4> QED BY <4>1 DEF Small
    <3>2. \A s \in Small(S, n) : f[s] = Added(F, f, s)
      BY <2>1, Zenon
    <3> QED BY <3>1, <3>2
  <2>4. \A s \in Small(S, n) : g[s] = f[s]
    BY <2>2, <2>3
  <2>5. \A s \in Small(S, n + 1) : g[s] = Added(F, g, s)
    <3> SUFFICES ASSUME NEW s \in Small(S, n + 1) PROVE g[s] = Added(F, g, s)
      OBVIOUS
    <3>1. g[s] = Added(F, f, s)
      BY <2>2
    <3>2. CASE s = {}
      BY <3>1, <3>2 DEF Added
    <3>3. CASE s # {}
      <4>1. s \ {Taken(s)} \in Small(S, n)
        BY <3>3, Smaller
      <4>2. g[s \ {Taken(s)}] = f[s \ {Taken(s)}]
        BY <2>4, <4>1
      <4> QED BY <3>1, <4>2 DEF Added
    <3> QED BY <3>2, <3>3
  <2>6. g = [s \in Small(S, n + 1) |-> g[s]]
    BY <2>2
  <2>7. Fits(g, n + 1)
    BY <2>5, <2>6, Zenon
  <2> QED BY <2>7
<1>3. Cardinality(S) \in Nat
  BY FS_CardinalityType
<1>4. Cardinality(S) \in T
  <2> HIDE DEF T
  <2> QED BY <1>1, <1>2, <1>3, NatSetInduction
<1>5. Small(S, Cardinality(S)) = SUBSET S
  BY <1>3, FS_Subset DEF Small
<1> QED BY <1>4, <1>5, Zenon DEF Adds

(* Two such functions agree where both are defined.                        *)
Agreeing(F, G, s) == \A x \in s : F[x] = G[x]
LEMMA AddsUnique ==
  ASSUME NEW F, NEW G, NEW S, NEW R, IsFiniteSet(S), NEW f, NEW g,
         Adds(F, S, f), Adds(G, R, g), NEW s, s \subseteq S, s \subseteq R, Agreeing(F, G, s)
  PROVE  f[s] = g[s]
<1> DEFINE T == {n \in Nat : \A r \in Small(S, n) : r \subseteq s => f[r] = g[r]}
<1>1. /\ \A r \in SUBSET S : f[r] = Added(F, f, r)
      /\ \A r \in SUBSET R : g[r] = Added(G, g, r)
  BY Zenon DEF Adds
<1>2. 0 \in T
  <2> SUFFICES ASSUME NEW r \in Small(S, 0), r \subseteq s PROVE f[r] = g[r]
    OBVIOUS
  <2>1. IsFiniteSet(r) /\ Cardinality(r) \in Nat /\ Cardinality(r) <= 0 /\ r \in SUBSET S /\ r \in SUBSET R
    BY FS_Subset, FS_CardinalityType DEF Small
  <2>2. r = {}
    BY <2>1, FS_EmptySet
  <2> QED BY <1>1, <2>1, <2>2 DEF Added
<1>3. ASSUME NEW n \in Nat, n \in T
      PROVE  n + 1 \in T
  <2> SUFFICES ASSUME NEW r \in Small(S, n + 1), r \subseteq s PROVE f[r] = g[r]
    OBVIOUS
  <2>1. r \in SUBSET S /\ r \in SUBSET R
    BY DEF Small
  <2>2. CASE r = {}
    BY <1>1, <2>1, <2>2 DEF Added
  <2>3. CASE r # {}
    <3>1. Taken(r) \in r /\ r \ {Taken(r)} \in Small(S, n)
      BY <2>3, Smaller
    <3>2. f[r \ {Taken(r)}] = g[r \ {Taken(r)}]
      BY <1>3, <3>1
    <3>3. F[Taken(r)] = G[Taken(r)]
      BY <3>1 DEF Agreeing
    <3> QED BY <1>1, <2>1, <3>2, <3>3 DEF Added
  <2> QED BY <2>2, <2>3
<1>4. Cardinality(S) \in Nat /\ s \in Small(S, Cardinality(S))
  BY FS_CardinalityType, FS_Subset DEF Small
<1>5. Cardinality(S) \in T
  <2> HIDE DEF T
  <2> QED BY <1>2, <1>3, <1>4, NatSetInduction
<1> QED BY <1>4, <1>5

LEMMA TotalIs ==
  ASSUME NEW F, NEW S, IsFiniteSet(S), NEW f, Adds(F, S, f), NEW s \in SUBSET S
  PROVE  f[s] = Total(F, s)
<1>1. IsFiniteSet(s)
  BY FS_Subset
<1>2. PICK g : g = CHOOSE e : Adds(F, s, e)
  OBVIOUS
<1>3. Adds(F, s, g) /\ Total(F, s) = g[s]
  <2>1. \E e : Adds(F, s, e)
    BY <1>1, AddsExists
  <2>2. Adds(F, s, g)
    BY <1>2, <2>1, Zenon
  <2>3. Total(F, s) = g[s]
    BY <1>2, Zenon DEF Total
  <2> QED BY <2>2, <2>3
<1>4. Agreeing(F, F, s)
  BY DEF Agreeing
<1> QED BY <1>3, <1>4, AddsUnique

LEMMA TotalSame ==
  ASSUME NEW F, NEW G, NEW S, IsFiniteSet(S), Agreeing(F, G, S)
  PROVE  Total(F, S) = Total(G, S)
<1>1. PICK f : Adds(F, S, f)
  BY AddsExists
<1>2. PICK g : Adds(G, S, g)
  BY AddsExists
<1>3. f[S] = g[S]
  BY <1>1, <1>2, AddsUnique
<1> QED BY <1>1, <1>2, <1>3, TotalIs

LEMMA TotalEmpty ==
  ASSUME NEW F
  PROVE  Total(F, {}) = 0
<1>1. IsFiniteSet({})
  BY FS_EmptySet
<1>2. PICK f : Adds(F, {}, f)
  BY <1>1, AddsExists
<1>3. f[{}] = Added(F, f, {})
  BY <1>2, Zenon DEF Adds
<1>4. f[{}] = 0
  BY <1>3 DEF Added
<1> QED BY <1>1, <1>2, <1>4, TotalIs

LEMMA TotalTaken ==
  ASSUME NEW F, NEW S, IsFiniteSet(S), S # {}
  PROVE  Total(F, S) = F[Taken(S)] + Total(F, S \ {Taken(S)})
<1>1. PICK f : Adds(F, S, f)
  BY AddsExists
<1>2. f[S] = Added(F, f, S)
  BY <1>1, Zenon DEF Adds
<1>3. f[S] = F[Taken(S)] + f[S \ {Taken(S)}]
  BY <1>2 DEF Added
<1>4. f[S] = Total(F, S)
  <2>1. S \in SUBSET S
    OBVIOUS
  <2> QED BY ONLY <1>1, <2>1, IsFiniteSet(S), TotalIs
<1>5. PICK r : r = S \ {Taken(S)}
  OBVIOUS
<1>6. f[r] = Total(F, r)
  <2>1. r \in SUBSET S
    BY <1>5
  <2> QED BY ONLY <1>1, <2>1, IsFiniteSet(S), TotalIs
<1> QED BY <1>3, <1>4, <1>5, <1>6

(* Sums of integers, and of naturals; any element may be added last.       *)
Integral(F, S) == \A x \in S : F[x] \in Int
Natural(F, S) == \A x \in S : F[x] \in Nat
LEMMA TotalInt ==
  ASSUME NEW F, NEW S, IsFiniteSet(S), Integral(F, S)
  PROVE  /\ Total(F, S) \in Int
         /\ Natural(F, S) => Total(F, S) \in Nat
         /\ \A y \in S : Total(F, S) = F[y] + Total(F, S \ {y})
<1> DEFINE Fine(s) == /\ Total(F, s) \in Int
                      /\ Natural(F, S) => Total(F, s) \in Nat
                      /\ \A y \in s : Total(F, s) = F[y] + Total(F, s \ {y})
           T == {n \in Nat : \A s \in Small(S, n) : Fine(s)}
<1>1. 0 \in T
  <2> SUFFICES ASSUME NEW s \in Small(S, 0) PROVE Fine(s)
    OBVIOUS
  <2>1. IsFiniteSet(s) /\ Cardinality(s) \in Nat /\ Cardinality(s) <= 0
    BY FS_Subset, FS_CardinalityType DEF Small
  <2>2. s = {}
    BY <2>1, FS_EmptySet
  <2> QED BY <2>2, TotalEmpty
<1>2. ASSUME NEW n \in Nat, n \in T
      PROVE  n + 1 \in T
  <2> SUFFICES ASSUME NEW s \in Small(S, n + 1) PROVE Fine(s)
    OBVIOUS
  <2>1. \A r \in Small(S, n) : Fine(r)
    BY <1>2
  <2>2. IsFiniteSet(s) /\ s \subseteq S
    BY FS_Subset DEF Small
  <2>3. CASE s = {}
    BY <2>3, TotalEmpty
  <2>4. CASE s # {}
    <3>1. PICK c : c = Taken(s)
      OBVIOUS
    <3>2. c \in s /\ s \ {c} \in Small(S, n)
      BY <2>4, <3>1, Smaller
    <3>3. Total(F, s) = F[c] + Total(F, s \ {c})
      BY <2>2, <2>4, <3>1, TotalTaken
    <3>4. F[c] \in Int /\ (Natural(F, S) => F[c] \in Nat) /\ Fine(s \ {c})
      BY <2>1, <2>2, <3>2 DEF Integral, Natural
    <3>5. Total(F, s) \in Int /\ (Natural(F, S) => Total(F, s) \in Nat)
      BY <3>3, <3>4
    <3>6. ASSUME NEW y \in s, y # c
          PROVE  Total(F, s) = F[y] + Total(F, s \ {y})
      <4>1. PICK r : r = s \ {y}
        OBVIOUS
      <4>2. r \in Small(S, n) /\ c \in r /\ r \ {c} = (s \ {c}) \ {y} /\ y \in s \ {c}
        <5>1. Cardinality(r) = Cardinality(s) - 1 /\ Cardinality(s) \in Nat
          BY <2>2, <4>1, FS_RemoveElement, FS_CardinalityType
        <5>2. r \in Small(S, n)
          BY <2>2, <4>1, <5>1 DEF Small
        <5> QED BY <3>2, <3>6, <4>1, <5>2
      <4>3. Total(F, r) = F[c] + Total(F, r \ {c})
        BY <2>1, <4>2
      <4>4. Total(F, s \ {c}) = F[y] + Total(F, r \ {c})
        BY <3>4, <4>2
      <4>5. F[y] \in Int /\ Total(F, r \ {c}) \in Int
        <5>1. r \ {c} \in Small(S, n)
          <6>1. IsFiniteSet(r) /\ r \subseteq S /\ Cardinality(r) <= n
            BY <2>2, <4>1, <4>2, FS_Subset DEF Small
          <6>2. Cardinality(r \ {c}) <= Cardinality(r) /\ Cardinality(r \ {c}) \in Nat /\ Cardinality(r) \in Nat
            BY <6>1, FS_Subset, FS_CardinalityType
          <6> QED BY <6>1, <6>2 DEF Small
        <5> QED BY <2>1, <2>2, <5>1 DEF Integral
      <4> QED BY <3>3, <3>4, <4>1, <4>3, <4>4, <4>5
    <3> QED BY <3>3, <3>5, <3>6
  <2> QED BY <2>3, <2>4
<1>3. Cardinality(S) \in Nat /\ S \in Small(S, Cardinality(S))
  BY FS_CardinalityType DEF Small
<1>4. Cardinality(S) \in T
  <2> HIDE DEF T
  <2> QED BY <1>1, <1>2, <1>3, NatSetInduction
<1> QED BY <1>3, <1>4

(* Changing one summand changes the sum by the difference.                 *)
Unchanging(F, G, S, y) == \A x \in S : x # y => F[x] = G[x]
LEMMA TotalUpdate ==
  ASSUME NEW F, NEW G, NEW S, IsFiniteSet(S), Integral(F, S), Integral(G, S),
         NEW y \in S, Unchanging(F, G, S, y)
  PROVE  Total(G, S) = Total(F, S) - F[y] + G[y]
<1>1. PICK R : R = S \ {y}
  OBVIOUS
<1>2. IsFiniteSet(R) /\ Integral(F, R) /\ Integral(G, R) /\ Agreeing(F, G, R)
  <2>1. IsFiniteSet(R)
    BY <1>1, FS_Subset
  <2> QED BY <1>1, <2>1 DEF Integral, Agreeing, Unchanging
<1>3. Total(F, R) = Total(G, R)
  BY <1>2, TotalSame
<1>4. Total(F, R) \in Int
  BY <1>2, TotalInt
<1>5. Total(F, S) = F[y] + Total(F, R)
  BY <1>1, TotalInt
<1>6. Total(G, S) = G[y] + Total(G, R)
  BY <1>1, TotalInt
<1>7. F[y] \in Int /\ G[y] \in Int
  BY DEF Integral
<1> QED BY <1>3, <1>4, <1>5, <1>6, <1>7

LEMMA TotalZero ==
  ASSUME NEW F, NEW S, IsFiniteSet(S), \A x \in S : F[x] = 0
  PROVE  Total(F, S) = 0
<1> DEFINE T == {n \in Nat : \A s \in Small(S, n) : Total(F, s) = 0}
<1>1. 0 \in T
  <2> SUFFICES ASSUME NEW s \in Small(S, 0) PROVE Total(F, s) = 0
    OBVIOUS
  <2>1. IsFiniteSet(s) /\ Cardinality(s) \in Nat /\ Cardinality(s) <= 0
    BY FS_Subset, FS_CardinalityType DEF Small
  <2>2. s = {}
    BY <2>1, FS_EmptySet
  <2> QED BY <2>2, TotalEmpty
<1>2. ASSUME NEW n \in Nat, n \in T
      PROVE  n + 1 \in T
  <2> SUFFICES ASSUME NEW s \in Small(S, n + 1) PROVE Total(F, s) = 0
    OBVIOUS
  <2>1. IsFiniteSet(s) /\ s \subseteq S
    BY FS_Subset DEF Small
  <2>2. CASE s = {}
    BY <2>2, TotalEmpty
  <2>3. CASE s # {}
    <3>1. PICK c : c = Taken(s)
      OBVIOUS
    <3>2. c \in s /\ s \ {c} \in Small(S, n)
      BY <2>3, <3>1, Smaller
    <3>3. Total(F, s \ {c}) = 0
      BY <1>2, <3>2
    <3>4. Total(F, s) = F[c] + Total(F, s \ {c})
      BY <2>1, <2>3, <3>1, TotalTaken
    <3>5. F[c] = 0
      BY <2>1, <3>2
    <3> QED BY <3>3, <3>4, <3>5
  <2> QED BY <2>2, <2>3
<1>3. Cardinality(S) \in Nat /\ S \in Small(S, Cardinality(S))
  BY FS_CardinalityType DEF Small
<1>4. Cardinality(S) \in T
  <2> HIDE DEF T
  <2> QED BY <1>1, <1>2, <1>3, NatSetInduction
<1> QED BY <1>3, <1>4

(* A part of a sum of naturals is at most the whole.                       *)
LEMMA TotalBounds ==
  ASSUME NEW F, NEW S, IsFiniteSet(S), Natural(F, S), NEW y \in S
  PROVE  F[y] \in Nat /\ Total(F, S) \in Nat /\ F[y] <= Total(F, S)
<1>1. PICK R : R = S \ {y}
  OBVIOUS
<1>2. IsFiniteSet(R) /\ Natural(F, R) /\ Integral(F, R) /\ Integral(F, S)
  <2>1. IsFiniteSet(R)
    BY <1>1, FS_Subset
  <2> QED BY <1>1, <2>1 DEF Integral, Natural
<1>3. Total(F, R) \in Nat
  BY <1>2, TotalInt
<1>4. Total(F, S) = F[y] + Total(F, R)
  BY <1>1, <1>2, TotalInt
<1>5. F[y] \in Nat
  BY DEF Natural
<1> QED BY <1>3, <1>4, <1>5

(* SumOf, the sum of the model, is that total.                             *)
LEMMA SumOfIs ==
  ASSUME NEW F, IsFiniteSet(DOMAIN F)
  PROVE  SumOf(F) = Total(F, DOMAIN F)
<1>1. SumOf(F) = Total(F, DOMAIN F)
  <2>1. SumOf(F) = (CHOOSE f : f = [s \in SUBSET DOMAIN F |->
           IF s = {} THEN 0 ELSE F[CHOOSE x \in s : TRUE] + f[s \ {CHOOSE x \in s : TRUE}]])[DOMAIN F]
    BY Zenon DEF SumOf, MapThenSumSet, MapThenFoldSet
  <2> QED BY <2>1, Zenon DEF Total, Adds, Added, Taken
<1> QED BY <1>1

(***************************************************************************)
(* The rows of the tables, and what a row of each holds.                   *)
(***************************************************************************)
PaymentFields == {"present", "user", "status", "auto", "taxes", "category", "rest"}
BillFields == {"present", "user", "combined", "calculated", "adjustments", "adjustment",
               "due", "paid", "status"}
Adjustments == Seq([amount : Int, active : BOOLEAN])
IsPayment(row) ==
  DOMAIN row = PaymentFields /\ row.taxes \in [Bills -> Nat] /\ row.rest \in Nat
IsBill(bill) ==
  /\ DOMAIN bill = BillFields
  /\ bill.calculated \in Nat /\ bill.due \in Nat /\ bill.paid \in Nat
  /\ bill.adjustment \in Int
  /\ bill.adjustments \in Adjustments
Typed(db) ==
  /\ DOMAIN db = Rows
  /\ \A p \in Payments : IsPayment(db[Payment(p)])
  /\ \A b \in Bills : IsBill(db[Bill(b)])

LEMMA RowsAre ==
  /\ \A p \in Payments : Payment(p) \in Rows
  /\ \A b \in Bills : Bill(b) \in Rows
  /\ \A q \in Periods : Period(q) \in Rows
  /\ \A l \in Lines : Line(l) \in Rows
  /\ \A r \in Rows : \/ \E p \in Payments : r = Payment(p)
                     \/ \E b \in Bills : r = Bill(b)
                     \/ \E q \in Periods : r = Period(q)
                     \/ \E l \in Lines : r = Line(l)
BY Zenon DEF Rows
LEMMA RowsApart ==
  ASSUME NEW x, NEW y
  PROVE  /\ Payment(x) # Bill(y) /\ Payment(x) # Period(y) /\ Payment(x) # Line(y)
         /\ Bill(x) # Period(y) /\ Bill(x) # Line(y) /\ Period(x) # Line(y)
         /\ Payment(x) = Payment(y) => x = y
         /\ Bill(x) = Bill(y) => x = y
         /\ Period(x) = Period(y) => x = y
         /\ Line(x) = Line(y) => x = y
BY DEF Payment, Bill, Period, Line
LEMMA NameOf ==
  ASSUME NEW x
  PROVE  /\ Payment(x)[2] = x /\ Bill(x)[2] = x /\ Period(x)[2] = x /\ Line(x)[2] = x
         /\ Payment(x)[1] # "bill" /\ Bill(x)[1] = "bill"
         /\ Period(x)[1] # "bill" /\ Line(x)[1] # "bill"
BY DEF Payment, Bill, Period, Line

LEMMA FiniteNames ==
  /\ IsFiniteSet(Payments) /\ IsFiniteSet(Bills) /\ IsFiniteSet(Lines)
<1>1. IsFiniteSet(Users) /\ IsFiniteSet(Characters) /\ IsFiniteSet(Periods) /\ IsFiniteSet(Payments)
  BY NamesAssumption
<1>2. IsFiniteSet(Keys)
  BY <1>1, FS_Union DEF Keys
<1>3. IsFiniteSet(Periods \X Keys) /\ IsFiniteSet(Periods \X Characters)
  BY <1>1, <1>2, FS_Product
<1>4. Lines \subseteq Periods \X Characters
  BY DEF Lines
<1>5. IsFiniteSet(Lines)
  BY <1>3, <1>4, FS_Subset
<1> QED BY <1>1, <1>3, <1>5 DEF Bills

(***************************************************************************)
(* Sums over the tables.                                                   *)
(***************************************************************************)
Charges(db, b) == [p \in Payments |-> db[Payment(p)].taxes[b]]
LEMMA ChargesAre ==
  ASSUME NEW db, Typed(db), NEW b \in Bills
  PROVE  /\ Allocated(db, b) = Total(Charges(db, b), Payments)
         /\ Natural(Charges(db, b), Payments) /\ Integral(Charges(db, b), Payments)
         /\ Allocated(db, b) \in Nat
         /\ \A p \in Payments : /\ db[Payment(p)].taxes[b] \in Nat
                                /\ db[Payment(p)].taxes[b] <= Allocated(db, b)
<1>1. \A p \in Payments : db[Payment(p)].taxes[b] \in Nat
  BY DEF Typed, IsPayment
<1>2. Natural(Charges(db, b), Payments) /\ Integral(Charges(db, b), Payments)
  BY <1>1 DEF Natural, Integral, Charges
<1>3. Allocated(db, b) = Total(Charges(db, b), Payments)
  <2>1. PICK F : F = Charges(db, b)
    OBVIOUS
  <2>2. Allocated(db, b) = SumOf(F)
    BY <2>1 DEF Allocated, Charges
  <2>3. DOMAIN F = Payments
    BY <2>1 DEF Charges
  <2> QED BY <2>1, <2>2, <2>3, SumOfIs, FiniteNames
<1>4. Allocated(db, b) \in Nat
  BY <1>2, <1>3, TotalInt, FiniteNames
<1>5. ASSUME NEW p \in Payments
      PROVE  db[Payment(p)].taxes[b] <= Allocated(db, b)
  <2>1. Charges(db, b)[p] = db[Payment(p)].taxes[b]
    BY DEF Charges
  <2>2. Charges(db, b)[p] <= Total(Charges(db, b), Payments)
    BY <1>2, FiniteNames, TotalBounds
  <2> QED BY <1>3, <2>1, <2>2
<1> QED BY <1>1, <1>2, <1>3, <1>4, <1>5

LEMMA AllocatedSame ==
  ASSUME NEW db, NEW new, NEW b,
         \A p \in Payments : new[Payment(p)].taxes[b] = db[Payment(p)].taxes[b]
  PROVE  Allocated(new, b) = Allocated(db, b)
<1>1. [p \in Payments |-> new[Payment(p)].taxes[b]] = [p \in Payments |-> db[Payment(p)].taxes[b]]
  OBVIOUS
<1> QED BY ONLY <1>1, Zenon DEF Allocated

(* Only the taxes of one payment change.                                   *)
LEMMA AllocatedUpdate ==
  ASSUME NEW db, NEW new, Typed(db), Typed(new), NEW b \in Bills, NEW p \in Payments,
         \A x \in Payments : x # p => new[Payment(x)] = db[Payment(x)]
  PROVE  Allocated(new, b) =
           Allocated(db, b) - db[Payment(p)].taxes[b] + new[Payment(p)].taxes[b]
<1>1. PICK F : F = Charges(db, b)
  OBVIOUS
<1>2. PICK G : G = Charges(new, b)
  OBVIOUS
<1>3. Integral(F, Payments) /\ Integral(G, Payments)
  BY <1>1, <1>2, ChargesAre
<1>4. Unchanging(F, G, Payments, p)
  BY <1>1, <1>2 DEF Unchanging, Charges
<1>5. Total(G, Payments) = Total(F, Payments) - F[p] + G[p]
  BY <1>3, <1>4, TotalUpdate, FiniteNames
<1>6. Allocated(db, b) = Total(F, Payments) /\ Allocated(new, b) = Total(G, Payments)
  BY <1>1, <1>2, ChargesAre
<1>7. F[p] = db[Payment(p)].taxes[b] /\ G[p] = new[Payment(p)].taxes[b]
  BY <1>1, <1>2 DEF Charges
<1> QED BY <1>5, <1>6, <1>7

LEMMA AllocatedOfIs ==
  ASSUME NEW row, IsPayment(row)
  PROVE  /\ AllocatedOf(row) = row.rest + Total(row.taxes, Bills)
         /\ AllocatedOf(row) \in Nat /\ Total(row.taxes, Bills) \in Nat
         /\ Integral(row.taxes, Bills)
<1>1. PICK F : F = row.taxes
  OBVIOUS
<1>2. DOMAIN F = Bills /\ Natural(F, Bills) /\ Integral(F, Bills) /\ row.rest \in Nat
  BY <1>1 DEF IsPayment, Natural, Integral
<1>3. SumOf(F) = Total(F, Bills)
  BY <1>2, SumOfIs, FiniteNames
<1>4. Total(F, Bills) \in Nat
  BY <1>2, TotalInt, FiniteNames
<1> QED BY <1>1, <1>2, <1>3, <1>4 DEF AllocatedOf

LEMMA NoTaxesAre ==
  ASSUME NEW row, IsPayment(row), row.taxes = NoTaxes
  PROVE  AllocatedOf(row) = row.rest /\ BillsOf(row) = {}
<1>1. \A b \in Bills : row.taxes[b] = 0
  BY DEF NoTaxes
<1>2. Total(row.taxes, Bills) = 0
  BY <1>1, TotalZero, FiniteNames
<1>3. row.rest \in Nat
  BY DEF IsPayment
<1> QED BY <1>1, <1>2, <1>3, AllocatedOfIs DEF BillsOf

(* The adjustments of a bill.                                              *)
LEMMA ActiveTotalInt ==
  ASSUME NEW adjustments \in Adjustments
  PROVE  ActiveTotal(adjustments) \in Int
<1>1. PICK F : F = [i \in DOMAIN adjustments |->
                      IF adjustments[i].active THEN adjustments[i].amount ELSE 0]
  OBVIOUS
<1>2. DOMAIN F = 1..Len(adjustments)
  BY <1>1 DEF Adjustments
<1>3. IsFiniteSet(DOMAIN F)
  BY <1>2, FS_Interval DEF Adjustments
<1>4. Integral(F, DOMAIN F)
  <2>1. \A i \in DOMAIN adjustments : adjustments[i] \in [amount : Int, active : BOOLEAN]
    <3>1. PICK A : A = [amount : Int, active : BOOLEAN]
      OBVIOUS
    <3>2. adjustments \in Seq(A)
      BY <3>1 DEF Adjustments
    <3>3. \A i \in DOMAIN adjustments : adjustments[i] \in A
      BY ONLY <3>2
    <3> QED BY <3>1, <3>3
  <2>2. \A i \in DOMAIN F : F[i] \in Int
    BY <1>1, <2>1
  <2> QED BY <2>2 DEF Integral
<1>5. SumOf(F) \in Int
  BY <1>3, <1>4, SumOfIs, TotalInt
<1> QED BY ONLY <1>1, <1>5, Zenon DEF ActiveTotal

LEMMA NoAdjustments ==
  <<>> \in Adjustments /\ ActiveTotal(<<>>) = 0
<1>1. <<>> \in Adjustments
  BY DEF Adjustments
<1>2. PICK F : F = [i \in DOMAIN <<>> |-> IF <<>>[i].active THEN <<>>[i].amount ELSE 0]
  OBVIOUS
<1>3. DOMAIN F = {}
  BY <1>2
<1>4. SumOf(F) = 0
  BY <1>3, SumOfIs, FS_EmptySet, TotalEmpty
<1> QED BY ONLY <1>1, <1>2, <1>4, Zenon DEF ActiveTotal

LEMMA MaxOfTwo ==
  ASSUME NEW x \in Int
  PROVE  Max({0, x}) \in Nat /\ Max({0, x}) = IF x > 0 THEN x ELSE 0
<1>1. PICK m : m = IF x > 0 THEN x ELSE 0
  OBVIOUS
<1>2. m \in {0, x} /\ \A y \in {0, x} : m >= y
  BY <1>1
<1>3. \A c \in {0, x} : (\A y \in {0, x} : c >= y) => c = m
  BY <1>1
<1>4. Max({0, x}) = m
  <2>1. PICK c : c = Max({0, x})
    OBVIOUS
  <2>2. c \in {0, x} /\ \A y \in {0, x} : c >= y
    BY <1>2, <2>1, Zenon DEF Max
  <2> QED BY <1>3, <2>1, <2>2
<1> QED BY <1>1, <1>4
LEMMA MinOfTwo ==
  ASSUME NEW x \in Int, NEW y \in Int
  PROVE  Min({x, y}) = IF x < y THEN x ELSE y
<1>1. PICK m : m = IF x < y THEN x ELSE y
  OBVIOUS
<1>2. m \in {x, y} /\ \A z \in {x, y} : m <= z
  BY <1>1
<1>3. \A c \in {x, y} : (\A z \in {x, y} : c <= z) => c = m
  BY <1>1
<1>4. Min({x, y}) = m
  <2>1. PICK c : c = Min({x, y})
    OBVIOUS
  <2>2. c \in {x, y} /\ \A z \in {x, y} : c <= z
    BY <1>2, <2>1, Zenon DEF Min
  <2> QED BY <1>3, <2>1, <2>2
<1> QED BY <1>1, <1>4

(***************************************************************************)
(* What recalculate_assessment makes of a bill: its totals are right, and  *)
(* a bill whose totals were right keeps everything but paid and status.    *)
(***************************************************************************)
Honest(bill) ==
  /\ bill.adjustment = ActiveTotal(bill.adjustments)
  /\ bill.due = Max({0, bill.calculated + bill.adjustment})
Sound(bill) == Honest(bill) /\ (~bill.present => bill = EmptyBill)
BillKept(bill, new) ==
  /\ new.present = bill.present /\ new.user = bill.user /\ new.combined = bill.combined
  /\ new.calculated = bill.calculated /\ new.due = bill.due
  /\ new.adjustments = bill.adjustments /\ new.adjustment = bill.adjustment
LEMMA RecalculatedBillIs ==
  ASSUME NEW bill, IsBill(bill), NEW paid \in Nat, NEW new, new = RecalculatedBill(bill, paid)
  PROVE  /\ IsBill(new) /\ Honest(new) /\ new.paid = paid
         /\ new.present = bill.present /\ new.user = bill.user
         /\ new.adjustments = bill.adjustments
         /\ Honest(bill) => BillKept(bill, new)
<1>1. PICK adjustment : adjustment = ActiveTotal(bill.adjustments)
  OBVIOUS
<1>2. PICK calculated : calculated = IF bill.calculated = 0 /\ bill.due # 0 /\ adjustment = 0
                                     THEN bill.due ELSE bill.calculated
  OBVIOUS
<1>3. PICK due : due = Max({0, calculated + adjustment})
  OBVIOUS
<1>4. PICK state : state = BillStatus(calculated, adjustment, due, paid)
  OBVIOUS
<1>5. new = [bill EXCEPT !.calculated = calculated, !.adjustment = adjustment, !.due = due,
                         !.paid = paid, !.status = state]
  BY <1>1, <1>2, <1>3, <1>4, Zenon DEF RecalculatedBill
<1>6. adjustment \in Int /\ calculated \in Nat /\ due \in Nat
  <2>1. adjustment \in Int
    BY <1>1, ActiveTotalInt DEF IsBill
  <2>2. calculated \in Nat
    BY <1>2 DEF IsBill
  <2> QED BY <1>3, <2>1, <2>2, MaxOfTwo
<1>7. /\ DOMAIN new = BillFields
      /\ new.calculated = calculated /\ new.adjustment = adjustment /\ new.due = due
      /\ new.paid = paid /\ new.present = bill.present /\ new.user = bill.user
      /\ new.combined = bill.combined /\ new.adjustments = bill.adjustments
  BY <1>5 DEF IsBill, BillFields
<1>8. IsBill(new)
  BY <1>6, <1>7 DEF IsBill
<1>9. Honest(new)
  BY <1>1, <1>3, <1>7 DEF Honest
<1>10. ASSUME Honest(bill)
       PROVE  BillKept(bill, new)
  <2>1. bill.adjustment = adjustment /\ bill.due = Max({0, bill.calculated + adjustment})
    BY <1>1, <1>10 DEF Honest
  <2>2. bill.calculated \in Nat
    BY DEF IsBill
  <2>3. calculated = bill.calculated
    <3>1. CASE bill.calculated = 0 /\ adjustment = 0
      <4>1. bill.due = 0
        BY <2>1, <3>1, MaxOfTwo
      <4> QED BY <1>2, <4>1
    <3>2. CASE ~ (bill.calculated = 0 /\ adjustment = 0)
      BY <1>2, <3>2
    <3> QED BY <3>1, <3>2
  <2> QED BY <1>3, <1>7, <2>1, <2>3 DEF BillKept
<1> QED BY <1>7, <1>8, <1>9, <1>10

LEMMA EmptyRows ==
  /\ IsBill(EmptyBill) /\ Sound(EmptyBill) /\ EmptyBill.paid = 0
  /\ IsPayment(EmptyPayment) /\ EmptyPayment.taxes = NoTaxes
<1>1. IsBill(EmptyBill)
  BY NoAdjustments DEF IsBill, EmptyBill, BillFields
<1>2. Honest(EmptyBill)
  <2>1. Max({0, 0 + 0}) = 0
    BY MaxOfTwo
  <2> QED BY <2>1, NoAdjustments DEF Honest, EmptyBill
<1>3. EmptyBill.paid = 0
  BY DEF EmptyBill
<1>4. IsPayment(EmptyPayment) /\ EmptyPayment.taxes = NoTaxes
  BY DEF IsPayment, EmptyPayment, PaymentFields, NoTaxes
<1> QED BY <1>1, <1>2, <1>3, <1>4 DEF Sound

LEMMA KeptAll ==
  ASSUME NEW a, NEW b, NEW c
  PROVE  BillKept(a, a) /\ (BillKept(a, b) /\ BillKept(b, c) => BillKept(a, c))
BY Zenon DEF BillKept

(***************************************************************************)
(* What a recalculation of some bills makes of the tables: those bills and *)
(* their periods are recalculated and nothing else changes.                *)
(***************************************************************************)
PeriodsOf(bills) == {b[1] : b \in bills}
SameLines(db, new) == \A l \in Lines : new[Line(l)] = db[Line(l)]
Recalculation(db, bills, new) ==
  /\ DOMAIN new = Rows
  /\ \A p \in Payments : new[Payment(p)] = db[Payment(p)]
  /\ SameLines(db, new)
  /\ \A b \in Bills : new[Bill(b)] = IF b \in bills THEN RecalculatedBill(db[Bill(b)], Allocated(db, b))
                                     ELSE db[Bill(b)]
  /\ \A q \in Periods : new[Period(q)] = IF q \in PeriodsOf(bills) THEN PeriodTotals(new, q)
                                         ELSE db[Period(q)]

LEMMA BillsRecalculated ==
  ASSUME NEW db, NEW bills \in SUBSET Bills, NEW new, new = RecalculateBills(db, bills)
  PROVE  /\ DOMAIN new = Rows
         /\ \A p \in Payments : new[Payment(p)] = db[Payment(p)]
         /\ SameLines(db, new)
         /\ \A b \in Bills : new[Bill(b)] = IF b \in bills THEN RecalculatedBill(db[Bill(b)], Allocated(db, b))
                                            ELSE db[Bill(b)]
         /\ \A q \in Periods : new[Period(q)] = db[Period(q)]
<1>1. new = [r \in Rows |-> IF \E b \in bills : r = Bill(b)
                            THEN RecalculatedBill(db[r], Allocated(db, r[2])) ELSE db[r]]
  BY Zenon DEF RecalculateBills
<1>2. DOMAIN new = Rows
  BY <1>1
<1>3. \A r \in Rows : (\A b \in bills : r # Bill(b)) => new[r] = db[r]
  BY <1>1
<1>4. \A p \in Payments : new[Payment(p)] = db[Payment(p)]
  BY <1>3, RowsAre, RowsApart, Zenon
<1>5. \A l \in Lines : new[Line(l)] = db[Line(l)]
  BY <1>3, RowsAre, RowsApart, Zenon
<1>6. \A q \in Periods : new[Period(q)] = db[Period(q)]
  BY <1>3, RowsAre, RowsApart, Zenon
<1>7. ASSUME NEW b \in Bills, b \notin bills
      PROVE  new[Bill(b)] = db[Bill(b)]
  BY <1>3, <1>7, RowsAre, RowsApart, Zenon
<1>8. ASSUME NEW b \in Bills, b \in bills
      PROVE  new[Bill(b)] = RecalculatedBill(db[Bill(b)], Allocated(db, b))
  <2>1. Bill(b) \in Rows /\ Bill(b)[2] = b
    BY RowsAre, NameOf, Zenon
  <2>2. PICK r : r = Bill(b)
    OBVIOUS
  <2>3. new[r] = RecalculatedBill(db[r], Allocated(db, r[2]))
    BY <1>1, <1>8, <2>1, <2>2
  <2> QED BY <2>1, <2>2, <2>3
<1> QED BY <1>2, <1>4, <1>5, <1>6, <1>7, <1>8, Zenon DEF SameLines

(* The totals of a period are those of its bills.                          *)
SameTotals(db, new, q) ==
  \A k \in Keys : /\ new[Bill(<<q, k>>)].present = db[Bill(<<q, k>>)].present
                  /\ new[Bill(<<q, k>>)].due = db[Bill(<<q, k>>)].due
                  /\ new[Bill(<<q, k>>)].paid = db[Bill(<<q, k>>)].paid
LEMMA PeriodTotalsSame ==
  ASSUME NEW db, NEW new, NEW q, SameTotals(db, new, q)
  PROVE  PeriodTotals(new, q) = PeriodTotals(db, q)
<1>1. \A b \in {q} \X Keys : /\ new[Bill(b)].present = db[Bill(b)].present
                             /\ new[Bill(b)].due = db[Bill(b)].due
                             /\ new[Bill(b)].paid = db[Bill(b)].paid
  <2> SUFFICES ASSUME NEW b \in {q} \X Keys
               PROVE  /\ new[Bill(b)].present = db[Bill(b)].present
                      /\ new[Bill(b)].due = db[Bill(b)].due
                      /\ new[Bill(b)].paid = db[Bill(b)].paid
    OBVIOUS
  <2>1. PICK k \in Keys : b = <<q, k>>
    OBVIOUS
  <2> QED BY <2>1, Zenon DEF SameTotals
<1>2. PICK B : B = BillsOfPeriod(db, q)
  OBVIOUS
<1>3. BillsOfPeriod(new, q) = B /\ B \subseteq {q} \X Keys
  BY <1>1, <1>2 DEF BillsOfPeriod
<1>4. [b \in B |-> new[Bill(b)].due] = [b \in B |-> db[Bill(b)].due]
  BY <1>1, <1>3
<1>5. [b \in B |-> new[Bill(b)].paid] = [b \in B |-> db[Bill(b)].paid]
  BY <1>1, <1>3
<1>6. (\A b \in B : new[Bill(b)].due <= new[Bill(b)].paid)
        <=> (\A b \in B : db[Bill(b)].due <= db[Bill(b)].paid)
  BY <1>1, <1>3
<1>7. PICK s, t : /\ s = (B # {} /\ \A b \in B : new[Bill(b)].due <= new[Bill(b)].paid)
                  /\ t = (B # {} /\ \A b \in B : db[Bill(b)].due <= db[Bill(b)].paid)
  OBVIOUS
<1>8. s = t
  BY <1>6, <1>7, Zenon
<1>9. PeriodTotals(new, q) = [due |-> SumOf([b \in B |-> new[Bill(b)].due]),
                              paid |-> SumOf([b \in B |-> new[Bill(b)].paid]), settled |-> s]
  BY ONLY <1>3, <1>7, Zenon DEF PeriodTotals
<1>10. PeriodTotals(db, q) = [due |-> SumOf([b \in B |-> db[Bill(b)].due]),
                              paid |-> SumOf([b \in B |-> db[Bill(b)].paid]), settled |-> t]
  BY ONLY <1>2, <1>7, Zenon DEF PeriodTotals
<1> QED BY ONLY <1>4, <1>5, <1>8, <1>9, <1>10, Zenon

LEMMA PeriodsRecalculated ==
  ASSUME NEW db, NEW bills \in SUBSET Bills, NEW new, new = RecalculatePeriods(db, bills)
  PROVE  /\ DOMAIN new = Rows
         /\ \A p \in Payments : new[Payment(p)] = db[Payment(p)]
         /\ SameLines(db, new)
         /\ \A b \in Bills : new[Bill(b)] = db[Bill(b)]
         /\ \A q \in Periods : new[Period(q)] = IF q \in PeriodsOf(bills) THEN PeriodTotals(new, q)
                                                ELSE db[Period(q)]
<1>1. new = [r \in Rows |-> IF \E b \in bills : r = Period(b[1])
                            THEN PeriodTotals(db, r[2]) ELSE db[r]]
  BY Zenon DEF RecalculatePeriods
<1>2. DOMAIN new = Rows
  BY <1>1
<1>3. \A r \in Rows : (\A b \in bills : r # Period(b[1])) => new[r] = db[r]
  BY <1>1
<1>4. \A p \in Payments : new[Payment(p)] = db[Payment(p)]
  BY <1>3, RowsAre, RowsApart, Zenon
<1>5. \A l \in Lines : new[Line(l)] = db[Line(l)]
  BY <1>3, RowsAre, RowsApart, Zenon
<1>6. \A b \in Bills : new[Bill(b)] = db[Bill(b)]
  BY <1>3, RowsAre, RowsApart, Zenon
<1>7. ASSUME NEW q \in Periods, q \notin PeriodsOf(bills)
      PROVE  new[Period(q)] = db[Period(q)]
  <2>1. \A b \in bills : Period(q) # Period(b[1])
    BY <1>7, RowsApart, Zenon DEF PeriodsOf
  <2> QED BY <1>3, <2>1, RowsAre, Zenon
<1>8. ASSUME NEW q \in Periods, q \in PeriodsOf(bills)
      PROVE  new[Period(q)] = PeriodTotals(new, q)
  <2>1. Period(q) \in Rows /\ Period(q)[2] = q
    BY RowsAre, NameOf, Zenon
  <2>2. PICK r : r = Period(q)
    OBVIOUS
  <2>3. \E b \in bills : r = Period(b[1])
    BY <1>8, <2>2, Zenon DEF PeriodsOf
  <2>4. new[r] = PeriodTotals(db, r[2])
    BY <1>1, <2>1, <2>2, <2>3
  <2>5. SameTotals(db, new, q)
    <3>1. \A k \in Keys : <<q, k>> \in Bills
      BY DEF Bills
    <3> QED BY <1>6, <3>1, Zenon DEF SameTotals
  <2> QED BY <2>1, <2>2, <2>4, <2>5, PeriodTotalsSame
<1> QED BY <1>2, <1>4, <1>5, <1>6, <1>7, <1>8, Zenon DEF SameLines

LEMMA RecalculateIs ==
  ASSUME NEW db, NEW bills \in SUBSET Bills
  PROVE  Recalculation(db, bills, Recalculate(db, bills))
<1>1. PICK mid : mid = RecalculateBills(db, bills)
  OBVIOUS
<1>2. PICK new : new = RecalculatePeriods(mid, bills)
  OBVIOUS
<1>3. Recalculate(db, bills) = new
  BY <1>1, <1>2 DEF Recalculate
<1>4. /\ \A p \in Payments : mid[Payment(p)] = db[Payment(p)]
      /\ SameLines(db, mid)
      /\ \A b \in Bills : mid[Bill(b)] = IF b \in bills THEN RecalculatedBill(db[Bill(b)], Allocated(db, b))
                                         ELSE db[Bill(b)]
      /\ \A q \in Periods : mid[Period(q)] = db[Period(q)]
  BY <1>1, BillsRecalculated
<1>5. /\ DOMAIN new = Rows
      /\ \A p \in Payments : new[Payment(p)] = mid[Payment(p)]
      /\ SameLines(mid, new)
      /\ \A b \in Bills : new[Bill(b)] = mid[Bill(b)]
      /\ \A q \in Periods : new[Period(q)] = IF q \in PeriodsOf(bills) THEN PeriodTotals(new, q)
                                             ELSE mid[Period(q)]
  BY <1>2, PeriodsRecalculated
<1>6. Recalculation(db, bills, new)
  BY <1>4, <1>5, Zenon DEF Recalculation, SameLines
<1> QED BY <1>3, <1>6

(***************************************************************************)
(* Accounts that add up.                                                   *)
(***************************************************************************)
AddsUp(db, b) == Sound(db[Bill(b)]) /\ db[Bill(b)].paid = Allocated(db, b)
Spent(p, payment) ==
  /\ AllocatedOf(payment) <= Amount[p]
  /\ payment.status = "EXEMPT" => AllocatedOf(payment) = 0
  /\ ~payment.present => payment.taxes = NoTaxes
Good(db) ==
  /\ Typed(db)
  /\ \A b \in Bills : AddsUp(db, b)
  /\ \A p \in Payments : Spent(p, db[Payment(p)])

(* A bill that a payment pays exists.                                      *)
LEMMA PaidBillsExist ==
  ASSUME NEW db, Good(db), NEW b \in Bills, Allocated(db, b) > 0
  PROVE  db[Bill(b)].present
<1>1. Sound(db[Bill(b)]) /\ db[Bill(b)].paid = Allocated(db, b)
  BY DEF Good, AddsUp
<1>2. ASSUME ~db[Bill(b)].present
      PROVE  FALSE
  <2>1. db[Bill(b)].paid = 0
    BY <1>1, <1>2, EmptyRows DEF Sound
  <2> QED BY <1>1, <2>1
<1> QED BY <1>2
LEMMA AllocatedBillsExist ==
  ASSUME NEW db, Good(db), NEW p \in Payments, NEW b \in BillsOf(db[Payment(p)])
  PROVE  b \in Bills /\ db[Bill(b)].present
<1>1. b \in Bills /\ db[Payment(p)].taxes[b] > 0
  BY DEF BillsOf
<1>2. Typed(db)
  BY DEF Good
<1>3. Allocated(db, b) \in Nat /\ db[Payment(p)].taxes[b] \in Nat
      /\ db[Payment(p)].taxes[b] <= Allocated(db, b)
  BY <1>1, <1>2, ChargesAre
<1> QED BY <1>1, <1>3, PaidBillsExist

(***************************************************************************)
(* A revision of the accounts: only some payments change, they change the  *)
(* taxes of some bills only, those bills keep what they charge, and period *)
(* totals that were right stay right.                                      *)
(***************************************************************************)
SettledIn(db, q) == db[Period(q)] = PeriodTotals(db, q)
SamePayments(db, new, chosen) ==
  \A p \in Payments \ chosen : new[Payment(p)] = db[Payment(p)]
SameTaxes(db, new, bills) ==
  \A p \in Payments, b \in Bills \ bills : new[Payment(p)].taxes[b] = db[Payment(p)].taxes[b]
SameBills(db, new, bills) == \A b \in Bills \ bills : new[Bill(b)] = db[Bill(b)]
SamePeriods(db, new, bills) ==
  \A q \in Periods \ PeriodsOf(bills) : new[Period(q)] = db[Period(q)]
KeptBills(db, new) == \A b \in Bills : BillKept(db[Bill(b)], new[Bill(b)])
StillSettled(db, new) == \A q \in Periods : SettledIn(db, q) => SettledIn(new, q)
Revision(db, new, chosen, bills) ==
  /\ SamePayments(db, new, chosen) /\ SameTaxes(db, new, bills)
  /\ SameBills(db, new, bills) /\ SamePeriods(db, new, bills)
  /\ SameLines(db, new) /\ KeptBills(db, new) /\ StillSettled(db, new)

LEMMA RevisionSame ==
  ASSUME NEW db, NEW chosen, NEW bills
  PROVE  Revision(db, db, chosen, bills)
BY KeptAll, Zenon DEF Revision, SamePayments, SameTaxes, SameBills, SamePeriods, SameLines,
   KeptBills, StillSettled
LEMMA RevisionWider ==
  ASSUME NEW db, NEW new, NEW chosen, NEW bills, Revision(db, new, chosen, bills),
         NEW chosen2, NEW bills2, chosen \subseteq chosen2, bills \subseteq bills2
  PROVE  Revision(db, new, chosen2, bills2)
<1>1. SamePayments(db, new, chosen2) /\ SameTaxes(db, new, bills2) /\ SameBills(db, new, bills2)
  BY DEF Revision, SamePayments, SameTaxes, SameBills
<1>2. PeriodsOf(bills) \subseteq PeriodsOf(bills2)
  BY DEF PeriodsOf
<1>3. SamePeriods(db, new, bills2)
  BY <1>2 DEF Revision, SamePeriods
<1> QED BY <1>1, <1>3, Zenon DEF Revision
LEMMA RevisionOfRows ==
  ASSUME NEW db, NEW new, NEW chosen, Revision(db, new, chosen, {}), NEW bills
  PROVE  Revision(db, new, chosen, bills)
<1>1. PICK none : none = {}
  OBVIOUS
<1>2. Revision(db, new, chosen, none) /\ none \subseteq bills /\ chosen \subseteq chosen
  BY <1>1
<1> QED BY ONLY <1>2, RevisionWider
LEMMA RevisionTwice ==
  ASSUME NEW db, NEW mid, NEW new, NEW chosen, NEW bills,
         Revision(db, mid, chosen, bills), Revision(mid, new, chosen, bills)
  PROVE  Revision(db, new, chosen, bills)
<1>1. SamePayments(db, new, chosen) /\ SameTaxes(db, new, bills) /\ SameBills(db, new, bills)
  BY Zenon DEF Revision, SamePayments, SameTaxes, SameBills
<1>2. SamePeriods(db, new, bills) /\ SameLines(db, new)
  BY Zenon DEF Revision, SamePeriods, SameLines
<1>3. KeptBills(db, new)
  BY KeptAll, Zenon DEF Revision, KeptBills
<1>4. StillSettled(db, new)
  BY Zenon DEF Revision, StillSettled
<1> QED BY <1>1, <1>2, <1>3, <1>4, Zenon DEF Revision

(* The row of one payment is replaced.                                     *)
Replaced(db, p, row, new) == new = [db EXCEPT ![Payment(p)] = row]
OnlyRow(db, p, row, new) ==
  /\ DOMAIN new = Rows /\ new[Payment(p)] = row
  /\ SamePayments(db, new, {p}) /\ SameLines(db, new)
  /\ \A b \in Bills : new[Bill(b)] = db[Bill(b)]
  /\ \A q \in Periods : new[Period(q)] = db[Period(q)]
SameBut(taxes, new, bills) == \A b \in Bills \ bills : new[b] = taxes[b]
LEMMA RowReplaced ==
  ASSUME NEW db, DOMAIN db = Rows, NEW p \in Payments, NEW row, NEW new,
         Replaced(db, p, row, new)
  PROVE  OnlyRow(db, p, row, new)
<1>1. DOMAIN new = Rows /\ \A r \in Rows : r # Payment(p) => new[r] = db[r]
  BY DEF Replaced
<1>2. new[Payment(p)] = row
  BY RowsAre DEF Replaced
<1>3. \A x \in Payments \ {p} : new[Payment(x)] = db[Payment(x)]
  BY <1>1, RowsAre, RowsApart, Zenon
<1>4. \A l \in Lines : new[Line(l)] = db[Line(l)]
  BY <1>1, RowsAre, RowsApart, Zenon
<1>5. \A b \in Bills : new[Bill(b)] = db[Bill(b)]
  BY <1>1, RowsAre, RowsApart, Zenon
<1>6. \A q \in Periods : new[Period(q)] = db[Period(q)]
  BY <1>1, RowsAre, RowsApart, Zenon
<1> QED BY <1>1, <1>2, <1>3, <1>4, <1>5, <1>6, Zenon DEF SamePayments, SameLines, OnlyRow

LEMMA RowRevises ==
  ASSUME NEW db, Typed(db), NEW p \in Payments, NEW row, IsPayment(row), NEW new,
         Replaced(db, p, row, new), NEW bills, SameBut(db[Payment(p)].taxes, row.taxes, bills)
  PROVE  Typed(new) /\ Revision(db, new, {p}, bills) /\ OnlyRow(db, p, row, new)
<1>1. OnlyRow(db, p, row, new)
  <2>1. DOMAIN db = Rows
    BY DEF Typed
  <2> QED BY <2>1, RowReplaced, Zenon
<1>2. /\ DOMAIN new = Rows /\ new[Payment(p)] = row
      /\ SamePayments(db, new, {p}) /\ SameLines(db, new)
      /\ \A b \in Bills : new[Bill(b)] = db[Bill(b)]
      /\ \A q \in Periods : new[Period(q)] = db[Period(q)]
  BY <1>1, Zenon DEF OnlyRow
<1>3. \A x \in Payments : x = p \/ new[Payment(x)] = db[Payment(x)]
  BY <1>2 DEF SamePayments
<1>4. Typed(new)
  BY <1>2, <1>3, Zenon DEF Typed
<1>5. SameTaxes(db, new, bills)
  BY <1>2, <1>3, Zenon DEF SameTaxes, SameBut
<1>6. KeptBills(db, new) /\ SameBills(db, new, bills) /\ SamePeriods(db, new, bills)
  BY <1>2, KeptAll DEF KeptBills, SameBills, SamePeriods
<1>7. StillSettled(db, new)
  <2> SUFFICES ASSUME NEW q \in Periods, SettledIn(db, q) PROVE SettledIn(new, q)
    BY DEF StillSettled
  <2>1. \A k \in Keys : <<q, k>> \in Bills
    BY DEF Bills
  <2>2. SameTotals(db, new, q)
    BY <1>2, <2>1, Zenon DEF SameTotals
  <2>3. PeriodTotals(new, q) = PeriodTotals(db, q)
    BY <2>2, PeriodTotalsSame
  <2> QED BY <1>2, <2>3, Zenon DEF SettledIn
<1> QED BY <1>1, <1>2, <1>4, <1>5, <1>6, <1>7, Zenon DEF Revision

(* A recalculation is a revision when the bills charged what they should,  *)
(* and mends every bill it covers.                                         *)
LEMMA RecalculationTyped ==
  ASSUME NEW db, Typed(db), NEW bills \in SUBSET Bills, NEW new, Recalculation(db, bills, new)
  PROVE  /\ Typed(new)
         /\ \A b \in Bills : Allocated(new, b) = Allocated(db, b)
         /\ \A b \in bills : /\ Honest(new[Bill(b)]) /\ new[Bill(b)].paid = Allocated(new, b)
                             /\ new[Bill(b)].present = db[Bill(b)].present
                             /\ new[Bill(b)].user = db[Bill(b)].user
                             /\ new[Bill(b)].adjustments = db[Bill(b)].adjustments
                             /\ Honest(db[Bill(b)]) => BillKept(db[Bill(b)], new[Bill(b)])
<1>1. ASSUME NEW b \in Bills
      PROVE  Allocated(new, b) = Allocated(db, b)
  <2>1. \A p \in Payments : new[Payment(p)].taxes[b] = db[Payment(p)].taxes[b]
    BY DEF Recalculation
  <2> QED BY <2>1, AllocatedSame
<1>2. ASSUME NEW b \in bills
      PROVE  /\ IsBill(new[Bill(b)])
             /\ Honest(new[Bill(b)]) /\ new[Bill(b)].paid = Allocated(new, b)
             /\ new[Bill(b)].present = db[Bill(b)].present
             /\ new[Bill(b)].user = db[Bill(b)].user
             /\ new[Bill(b)].adjustments = db[Bill(b)].adjustments
             /\ Honest(db[Bill(b)]) => BillKept(db[Bill(b)], new[Bill(b)])
  <2>1. PICK old : old = db[Bill(b)]
    OBVIOUS
  <2>2. PICK fresh : fresh = new[Bill(b)]
    OBVIOUS
  <2>3. PICK paid : paid = Allocated(db, b)
    OBVIOUS
  <2>4. IsBill(old) /\ paid \in Nat /\ b \in Bills
    BY <2>1, <2>3, ChargesAre DEF Typed
  <2>5. fresh = RecalculatedBill(old, paid)
    BY <2>1, <2>2, <2>3, <2>4 DEF Recalculation
  <2>6. /\ IsBill(fresh) /\ Honest(fresh) /\ fresh.paid = paid
        /\ fresh.present = old.present /\ fresh.user = old.user
        /\ fresh.adjustments = old.adjustments
        /\ Honest(old) => BillKept(old, fresh)
    BY <2>4, <2>5, RecalculatedBillIs
  <2> QED BY <1>1, <2>1, <2>2, <2>3, <2>4, <2>6
<1>3. \A b \in Bills \ bills : new[Bill(b)] = db[Bill(b)]
  BY DEF Recalculation
<1>4. Typed(new)
  <2>1. DOMAIN new = Rows /\ \A p \in Payments : IsPayment(new[Payment(p)])
    BY Zenon DEF Recalculation, Typed
  <2>2. \A b \in Bills : IsBill(new[Bill(b)])
    BY <1>2, <1>3 DEF Typed
  <2> QED BY <2>1, <2>2 DEF Typed
<1> QED BY <1>1, <1>2, <1>4

LEMMA RecalculationRevises ==
  ASSUME NEW db, Typed(db), NEW bills \in SUBSET Bills, NEW new, Recalculation(db, bills, new),
         \A b \in bills : Honest(db[Bill(b)])
  PROVE  Revision(db, new, {}, bills)
<1>1. SamePayments(db, new, {}) /\ SameTaxes(db, new, bills) /\ SameLines(db, new)
  BY Zenon DEF Recalculation, SamePayments, SameTaxes
<1>2. SameBills(db, new, bills) /\ SamePeriods(db, new, bills)
  BY DEF Recalculation, SameBills, SamePeriods
<1>3. KeptBills(db, new)
  <2> SUFFICES ASSUME NEW b \in Bills PROVE BillKept(db[Bill(b)], new[Bill(b)])
    BY DEF KeptBills
  <2>1. CASE b \in bills
    BY <2>1, RecalculationTyped
  <2>2. CASE b \notin bills
    <3>1. new[Bill(b)] = db[Bill(b)]
      BY <1>2, <2>2 DEF SameBills
    <3> QED BY <3>1, KeptAll
  <2> QED BY <2>1, <2>2
<1>4. StillSettled(db, new)
  <2> SUFFICES ASSUME NEW q \in Periods, SettledIn(db, q) PROVE SettledIn(new, q)
    BY DEF StillSettled
  <2>1. CASE q \in PeriodsOf(bills)
    BY <2>1 DEF Recalculation, SettledIn
  <2>2. CASE q \notin PeriodsOf(bills)
    <3>1. \A k \in Keys : <<q, k>> \in Bills \ bills
      <4> SUFFICES ASSUME NEW k \in Keys PROVE <<q, k>> \in Bills \ bills
        OBVIOUS
      <4>1. <<q, k>> \in Bills /\ <<q, k>>[1] = q
        BY DEF Bills
      <4> QED BY <2>2, <4>1, Zenon DEF PeriodsOf
    <3>2. SameTotals(db, new, q)
      BY <1>2, <3>1, Zenon DEF SameTotals, SameBills
    <3>3. PeriodTotals(new, q) = PeriodTotals(db, q)
      BY <3>2, PeriodTotalsSame
    <3>4. new[Period(q)] = db[Period(q)]
      BY <1>2, <2>2 DEF SamePeriods
    <3> QED BY <3>3, <3>4, Zenon DEF SettledIn
  <2> QED BY <2>1, <2>2
<1> QED BY <1>1, <1>2, <1>3, <1>4 DEF Revision

LEMMA RecalculationGood ==
  ASSUME NEW db, Typed(db), NEW bills \in SUBSET Bills, NEW new, Recalculation(db, bills, new),
         \A b \in bills : db[Bill(b)].present,
         \A b \in Bills \ bills : AddsUp(db, b),
         \A p \in Payments : Spent(p, db[Payment(p)])
  PROVE  Good(new)
<1>1. ASSUME NEW b \in bills
      PROVE  AddsUp(new, b)
  <2>1. Honest(new[Bill(b)]) /\ new[Bill(b)].paid = Allocated(new, b) /\ new[Bill(b)].present
    BY RecalculationTyped
  <2> QED BY <2>1 DEF AddsUp, Sound
<1>2. ASSUME NEW b \in Bills \ bills
      PROVE  AddsUp(new, b)
  <2>1. new[Bill(b)] = db[Bill(b)]
    BY DEF Recalculation
  <2>2. Allocated(new, b) = Allocated(db, b)
    BY RecalculationTyped
  <2> QED BY <2>1, <2>2 DEF AddsUp
<1>3. \A p \in Payments : Spent(p, new[Payment(p)])
  BY Zenon DEF Recalculation
<1>4. Typed(new)
  BY RecalculationTyped
<1> QED BY <1>1, <1>2, <1>3, <1>4 DEF Good

(***************************************************************************)
(* The decisions on a payment.                                             *)
(***************************************************************************)
(* Its row changes and its taxes do not.                                   *)
LEMMA RowGood ==
  ASSUME NEW db, Good(db), NEW p \in Payments, NEW row, IsPayment(row), Spent(p, row),
         SameBut(db[Payment(p)].taxes, row.taxes, {}), NEW new, Replaced(db, p, row, new)
  PROVE  Good(new) /\ Revision(db, new, {p}, {}) /\ OnlyRow(db, p, row, new)
<1>1. Typed(db)
  BY DEF Good
<1>2. Typed(new) /\ Revision(db, new, {p}, {}) /\ OnlyRow(db, p, row, new)
  BY <1>1, RowRevises, Zenon
<1>3. ASSUME NEW b \in Bills
      PROVE  AddsUp(new, b)
  <2>1. \A x \in Payments : new[Payment(x)].taxes[b] = db[Payment(x)].taxes[b]
    BY <1>2 DEF Revision, SameTaxes
  <2>2. Allocated(new, b) = Allocated(db, b)
    BY <2>1, AllocatedSame
  <2>3. new[Bill(b)] = db[Bill(b)]
    BY <1>2 DEF OnlyRow
  <2> QED BY <2>2, <2>3 DEF Good, AddsUp
<1>4. ASSUME NEW x \in Payments
      PROVE  Spent(x, new[Payment(x)])
  <2>1. CASE x = p
    BY <1>2, <2>1 DEF OnlyRow
  <2>2. CASE x # p
    <3>1. new[Payment(x)] = db[Payment(x)]
      BY <1>2, <2>2 DEF Revision, SamePayments
    <3> QED BY <3>1 DEF Good
  <2> QED BY <2>1, <2>2
<1> QED BY <1>2, <1>3, <1>4 DEF Good, OnlyRow

(* Only the status of its row and whether an audit decided it change.      *)
Marked(row, state, auto) == [row EXCEPT !.status = state, !.auto = auto]
MayBe(state, row) == state = "EXEMPT" => AllocatedOf(row) = 0
LEMMA StatusGood ==
  ASSUME NEW db, Good(db), NEW p \in Payments, NEW state, NEW auto, NEW new,
         Replaced(db, p, Marked(db[Payment(p)], state, auto), new),
         MayBe(state, db[Payment(p)])
  PROVE  /\ Good(new) /\ Revision(db, new, {p}, {})
         /\ OnlyRow(db, p, Marked(db[Payment(p)], state, auto), new)
<1>1. PICK old : old = db[Payment(p)]
  OBVIOUS
<1>2. PICK row : row = [old EXCEPT !.status = state, !.auto = auto]
  OBVIOUS
<1>3. IsPayment(old) /\ Spent(p, old)
  BY <1>1 DEF Good, Typed
<1>4. /\ DOMAIN row = PaymentFields /\ row.taxes = old.taxes /\ row.rest = old.rest
      /\ row.status = state /\ row.present = old.present
  BY <1>2, <1>3 DEF IsPayment, PaymentFields
<1>5. IsPayment(row) /\ AllocatedOf(row) = AllocatedOf(old)
  BY <1>3, <1>4 DEF IsPayment, AllocatedOf
<1>6. Spent(p, row)
  BY <1>1, <1>3, <1>4, <1>5 DEF Spent, MayBe
<1>7. Replaced(db, p, row, new) /\ row = Marked(db[Payment(p)], state, auto)
  BY <1>1, <1>2 DEF Marked
<1>8. SameBut(db[Payment(p)].taxes, row.taxes, {})
  BY <1>1, <1>4 DEF SameBut
<1>9. Good(new) /\ Revision(db, new, {p}, {}) /\ OnlyRow(db, p, row, new)
  BY <1>5, <1>6, <1>7, <1>8, RowGood, Zenon
<1> QED BY <1>7, <1>9

(* clear_payment_allocations: nothing is allocated any more, and no bill   *)
(* is paid more.                                                           *)
Cleared(db, p, new) ==
  /\ new[Payment(p)] = [db[Payment(p)] EXCEPT !.taxes = NoTaxes, !.category = "none", !.rest = 0]
  /\ \A b \in Bills : new[Bill(b)].paid <= db[Bill(b)].paid
LEMMA ClearAllocationsGood ==
  ASSUME NEW db, Good(db), NEW p \in Payments, NEW new, new = ClearAllocations(db, p)
  PROVE  /\ Good(new) /\ Revision(db, new, {p}, BillsOf(db[Payment(p)]))
         /\ Cleared(db, p, new)
<1>1. PICK old : old = db[Payment(p)]
  OBVIOUS
<1>2. PICK row : row = [old EXCEPT !.taxes = NoTaxes, !.category = "none", !.rest = 0]
  OBVIOUS
<1>3. PICK bills : bills = BillsOf(old)
  OBVIOUS
<1>4. PICK mid : mid = [db EXCEPT ![Payment(p)] = row]
  OBVIOUS
<1>5. new = Recalculate(mid, bills)
  BY <1>1, <1>2, <1>3, <1>4, RowsAre, Zenon DEF ClearAllocations
<1>6. Replaced(db, p, row, mid)
  BY <1>4 DEF Replaced
<1>7. Typed(db) /\ IsPayment(old) /\ Spent(p, old)
  BY <1>1 DEF Good, Typed
<1>8. /\ DOMAIN row = PaymentFields /\ row.taxes = NoTaxes /\ row.rest = 0
      /\ row.status = old.status /\ row.present = old.present
  BY <1>2, <1>7 DEF IsPayment, PaymentFields
<1>9. IsPayment(row)
  BY <1>8 DEF IsPayment, NoTaxes
<1>10. AllocatedOf(row) = 0 /\ AllocatedOf(old) \in Nat
  BY <1>7, <1>8, <1>9, NoTaxesAre, AllocatedOfIs
<1>11. Amount[p] \in Nat
  BY MoneyAssumption
<1>12. Spent(p, row)
  BY <1>8, <1>10, <1>11 DEF Spent
<1>13. bills \in SUBSET Bills
  BY <1>3 DEF BillsOf
<1>14. SameBut(db[Payment(p)].taxes, row.taxes, bills)
  BY <1>1, <1>3, <1>7, <1>8 DEF BillsOf, NoTaxes, IsPayment, SameBut
<1>15. /\ Typed(mid) /\ Revision(db, mid, {p}, bills) /\ mid[Payment(p)] = row
       /\ \A b \in Bills : mid[Bill(b)] = db[Bill(b)]
  <2>1. Typed(mid) /\ Revision(db, mid, {p}, bills) /\ OnlyRow(db, p, row, mid)
    BY <1>6, <1>7, <1>9, <1>14, RowRevises, Zenon
  <2> QED BY <2>1, Zenon DEF OnlyRow
<1>16. Recalculation(mid, bills, new)
  BY <1>5, <1>13, RecalculateIs
<1>17. \A b \in bills : mid[Bill(b)].present /\ Honest(mid[Bill(b)])
  BY <1>1, <1>3, <1>13, <1>15, AllocatedBillsExist DEF Good, AddsUp, Sound
<1>18. ASSUME NEW b \in Bills \ bills
       PROVE  AddsUp(mid, b)
  <2>1. \A x \in Payments : mid[Payment(x)].taxes[b] = db[Payment(x)].taxes[b]
    BY <1>15 DEF Revision, SameTaxes
  <2>2. Allocated(mid, b) = Allocated(db, b)
    BY <2>1, AllocatedSame
  <2> QED BY <1>15, <2>2 DEF Good, AddsUp
<1>19. ASSUME NEW x \in Payments
       PROVE  Spent(x, mid[Payment(x)])
  <2>1. CASE x = p
    BY <1>12, <1>15, <2>1
  <2>2. CASE x # p
    <3>1. mid[Payment(x)] = db[Payment(x)]
      BY <1>15, <2>2 DEF Revision, SamePayments
    <3> QED BY <3>1 DEF Good
  <2> QED BY <2>1, <2>2
<1>20. Good(new)
  BY <1>13, <1>15, <1>16, <1>17, <1>18, <1>19, RecalculationGood
<1>21. Revision(db, new, {p}, bills)
  <2>1. Revision(mid, new, {}, bills)
    BY <1>13, <1>15, <1>16, <1>17, RecalculationRevises
  <2>2. Revision(mid, new, {p}, bills)
    BY <2>1, RevisionWider
  <2> QED BY <1>15, <2>2, RevisionTwice
<1>22. new[Payment(p)] = row
  BY <1>15, <1>16 DEF Recalculation
<1>23. ASSUME NEW b \in Bills
       PROVE  new[Bill(b)].paid <= db[Bill(b)].paid
  <2>1. new[Bill(b)].paid = Allocated(new, b) /\ db[Bill(b)].paid = Allocated(db, b)
    BY <1>20 DEF Good, AddsUp
  <2>2. Typed(new)
    BY <1>20 DEF Good
  <2>3. \A x \in Payments : x # p => new[Payment(x)] = db[Payment(x)]
    BY <1>21 DEF Revision, SamePayments
  <2>4. Allocated(new, b) = Allocated(db, b) - old.taxes[b] + row.taxes[b]
    BY <1>1, <1>7, <1>22, <2>2, <2>3, AllocatedUpdate
  <2>5. row.taxes[b] = 0 /\ old.taxes[b] \in Nat /\ Allocated(db, b) \in Nat
    BY <1>7, <1>8, ChargesAre DEF NoTaxes, IsPayment
  <2> QED BY <2>1, <2>4, <2>5
<1> QED BY <1>1, <1>2, <1>3, <1>20, <1>21, <1>22, <1>23 DEF Cleared

(* One bill changes.                                                       *)
OnlyBill(db, b, new) ==
  /\ DOMAIN new = Rows
  /\ \A p \in Payments : new[Payment(p)] = db[Payment(p)]
  /\ SameLines(db, new)
  /\ \A x \in Bills : x # b => new[Bill(x)] = db[Bill(x)]
  /\ \A q \in Periods : new[Period(q)] = db[Period(q)]
LEMMA OnlyBillIs ==
  ASSUME NEW db, DOMAIN db = Rows, NEW b \in Bills, NEW new, DOMAIN new = Rows,
         \A r \in Rows : r # Bill(b) => new[r] = db[r]
  PROVE  OnlyBill(db, b, new)
<1>1. \A p \in Payments : new[Payment(p)] = db[Payment(p)]
  BY RowsAre, RowsApart, Zenon
<1>2. \A l \in Lines : new[Line(l)] = db[Line(l)]
  BY RowsAre, RowsApart, Zenon
<1>3. \A x \in Bills : x # b => new[Bill(x)] = db[Bill(x)]
  BY RowsAre, RowsApart, Zenon
<1>4. \A q \in Periods : new[Period(q)] = db[Period(q)]
  BY RowsAre, RowsApart, Zenon
<1> QED BY <1>1, <1>2, <1>3, <1>4, Zenon DEF OnlyBill, SameLines

LEMMA RecalculateBillIs ==
  ASSUME NEW db, Typed(db), NEW b \in Bills, NEW new, new = RecalculateBill(db, b)
  PROVE  OnlyBill(db, b, new) /\ new[Bill(b)] = RecalculatedBill(db[Bill(b)], Allocated(db, b))
<1>1. PICK row : row = RecalculatedBill(db[Bill(b)], Allocated(db, b))
  OBVIOUS
<1>2. new = [db EXCEPT ![Bill(b)] = row]
  BY <1>1, RowsAre, Zenon DEF RecalculateBill, Typed
<1>3. DOMAIN db = Rows /\ Bill(b) \in Rows
  BY RowsAre DEF Typed
<1>4. new[Bill(b)] = row /\ DOMAIN new = Rows /\ \A r \in Rows : r # Bill(b) => new[r] = db[r]
  BY <1>2, <1>3
<1> QED BY <1>1, <1>3, <1>4, OnlyBillIs

(* A bill whose totals were right is recalculated: at most its status      *)
(* changes.                                                                *)
LEMMA RefreshedBill ==
  ASSUME NEW db, Typed(db), NEW b \in Bills, Sound(db[Bill(b)]), db[Bill(b)].present,
         db[Bill(b)].paid = Allocated(db, b), NEW new, new = RecalculateBill(db, b)
  PROVE  /\ Typed(new) /\ Revision(db, new, {}, {b}) /\ OnlyBill(db, b, new)
         /\ Sound(new[Bill(b)]) /\ new[Bill(b)].paid = db[Bill(b)].paid
<1>1. OnlyBill(db, b, new) /\ new[Bill(b)] = RecalculatedBill(db[Bill(b)], Allocated(db, b))
  BY RecalculateBillIs, Zenon
<1>2. PICK old : old = db[Bill(b)]
  OBVIOUS
<1>3. PICK fresh : fresh = new[Bill(b)]
  OBVIOUS
<1>4. PICK paid : paid = Allocated(db, b)
  OBVIOUS
<1>5. IsBill(old) /\ paid \in Nat /\ fresh = RecalculatedBill(old, paid)
  BY <1>1, <1>2, <1>3, <1>4, ChargesAre DEF Typed
<1>6. /\ IsBill(fresh) /\ Honest(fresh) /\ fresh.paid = paid /\ fresh.present = old.present
      /\ Honest(old) => BillKept(old, fresh)
  BY <1>5, RecalculatedBillIs
<1>7. Sound(fresh) /\ BillKept(old, fresh)
  BY <1>2, <1>6 DEF Sound
<1>8. Typed(new)
  <2>1. \A x \in Bills : IsBill(new[Bill(x)])
    BY <1>1, <1>3, <1>6 DEF OnlyBill, Typed
  <2> QED BY <1>1, <2>1 DEF OnlyBill, Typed
<1>9. Revision(db, new, {}, {b})
  <2>1. SamePayments(db, new, {}) /\ SameTaxes(db, new, {b}) /\ SameLines(db, new)
    BY <1>1, Zenon DEF OnlyBill, SamePayments, SameTaxes
  <2>2. SameBills(db, new, {b}) /\ SamePeriods(db, new, {b})
    BY <1>1 DEF OnlyBill, SameBills, SamePeriods
  <2>3. KeptBills(db, new)
    <3> SUFFICES ASSUME NEW x \in Bills PROVE BillKept(db[Bill(x)], new[Bill(x)])
      BY DEF KeptBills
    <3>1. CASE x = b
      BY <1>2, <1>3, <1>7, <3>1
    <3>2. CASE x # b
      BY <1>1, <3>2, KeptAll DEF OnlyBill
    <3> QED BY <3>1, <3>2
  <2>4. \A x \in Bills : /\ new[Bill(x)].paid = db[Bill(x)].paid
                         /\ new[Bill(x)].present = db[Bill(x)].present
                         /\ new[Bill(x)].due = db[Bill(x)].due
    <3>1. \A x \in Bills : new[Bill(x)].paid = db[Bill(x)].paid
      BY <1>1, <1>3, <1>4, <1>6 DEF OnlyBill
    <3> QED BY <2>3, <3>1 DEF KeptBills, BillKept
  <2>5. StillSettled(db, new)
    <3> SUFFICES ASSUME NEW q \in Periods, SettledIn(db, q) PROVE SettledIn(new, q)
      BY DEF StillSettled
    <3>1. \A k \in Keys : <<q, k>> \in Bills
      BY DEF Bills
    <3>2. SameTotals(db, new, q)
      BY <2>4, <3>1, Zenon DEF SameTotals
    <3>3. PeriodTotals(new, q) = PeriodTotals(db, q)
      BY <3>2, PeriodTotalsSame
    <3>4. new[Period(q)] = db[Period(q)]
      BY <1>1 DEF OnlyBill
    <3> QED BY <3>3, <3>4, Zenon DEF SettledIn
  <2> QED BY <2>1, <2>2, <2>3, <2>5 DEF Revision
<1> QED BY <1>1, <1>2, <1>3, <1>4, <1>6, <1>7, <1>8, <1>9

(***************************************************************************)
(* allocate_oldest: while it runs, no bill is recalculated after it takes  *)
(* its part, so that the paid totals stay those from before; what is taken *)
(* and what is left make up the amount, and no bill takes more than it     *)
(* owes.                                                                   *)
(***************************************************************************)
Untouched(db, p) == db[Payment(p)].taxes = NoTaxes /\ db[Payment(p)].rest = 0
TakesOnlyDebt(db, p, seen, taxes) ==
  \A b \in Bills : taxes[b] > 0 =>
    b \in seen /\ db[Bill(b)].paid + taxes[b] <= db[Bill(b)].due
SameOwner(row, new) == new.present = row.present /\ new.user = row.user
Allocating(db, p, seen, acc) ==
  /\ Typed(acc.db) /\ acc.left \in Nat
  /\ Revision(db, acc.db, {p}, SubjectBills(db, p))
  /\ \A b \in Bills : Sound(acc.db[Bill(b)]) /\ acc.db[Bill(b)].paid = db[Bill(b)].paid
  /\ SameOwner(db[Payment(p)], acc.db[Payment(p)])
  /\ acc.left + Total(acc.db[Payment(p)].taxes, Bills) = Amount[p]
  /\ TakesOnlyDebt(db, p, seen, acc.db[Payment(p)].taxes)

LEMMA SubjectBillsSame ==
  ASSUME NEW db, NEW new, KeptBills(db, new), NEW p,
         new[Payment(p)].user = db[Payment(p)].user
  PROVE  SubjectBills(new, p) = SubjectBills(db, p)
<1>1. \A b \in Bills : new[Bill(b)].present = db[Bill(b)].present
                       /\ new[Bill(b)].user = db[Bill(b)].user
  BY DEF KeptBills, BillKept
<1> QED BY <1>1 DEF SubjectBills

LEMMA AllocationStarts ==
  ASSUME NEW db, Good(db), NEW p \in Payments, Untouched(db, p), NEW acc,
         acc = [db |-> db, left |-> Amount[p]]
  PROVE  Allocating(db, p, {}, acc)
<1>1. acc.db = db /\ acc.left = Amount[p] /\ Amount[p] \in Nat /\ Typed(db)
  BY MoneyAssumption DEF Good
<1>2. Revision(db, acc.db, {p}, SubjectBills(db, p))
  BY <1>1, RevisionSame
<1>3. \A b \in Bills : Sound(acc.db[Bill(b)]) /\ acc.db[Bill(b)].paid = db[Bill(b)].paid
  BY <1>1 DEF Good, AddsUp
<1>4. PICK row : row = db[Payment(p)]
  OBVIOUS
<1>5. row.taxes = NoTaxes /\ IsPayment(row) /\ \A b \in Bills : row.taxes[b] = 0
  BY <1>1, <1>4 DEF Untouched, Typed, NoTaxes
<1>6. Total(row.taxes, Bills) = 0
  BY <1>5, TotalZero, FiniteNames
<1>7. acc.left + Total(acc.db[Payment(p)].taxes, Bills) = Amount[p]
  BY <1>1, <1>4, <1>6
<1>8. TakesOnlyDebt(db, p, {}, acc.db[Payment(p)].taxes)
  BY <1>1, <1>4, <1>5 DEF TakesOnlyDebt
<1>9. SameOwner(db[Payment(p)], acc.db[Payment(p)])
  BY <1>1 DEF SameOwner
<1> QED BY <1>1, <1>2, <1>3, <1>7, <1>8, <1>9 DEF Allocating

LEMMA Takes ==
  ASSUME NEW db, Good(db), NEW p \in Payments, Untouched(db, p), NEW seen, NEW acc,
         Allocating(db, p, seen, acc), NEW b \in Bills, b \notin seen,
         acc.left > 0, Eligible(acc.db, p, b), NEW new, new = Take(acc, p, b)
  PROVE  Allocating(db, p, seen \cup {b}, new)
<1> DEFINE S == SubjectBills(db, p)
<1>1. PICK mid : mid = acc.db
  OBVIOUS
<1>2. PICK fresh : fresh = RecalculateBill(mid, b)
  OBVIOUS
<1>3. PICK amount : amount = Min({acc.left, Outstanding(fresh[Bill(b)])})
  OBVIOUS
<1>4. PICK old : old = fresh[Payment(p)]
  OBVIOUS
<1>5. PICK row : row = [old EXCEPT !.taxes[b] = amount]
  OBVIOUS
<1>6. PICK last : last = [fresh EXCEPT ![Payment(p)] = row]
  OBVIOUS
<1>7. DOMAIN fresh = Rows
  BY <1>1, <1>2, RecalculateBillIs DEF Allocating, OnlyBill
<1>8. new.db = last /\ new.left = acc.left - amount
  <2>1. new = [db |-> [fresh EXCEPT ![Payment(p)] = [@ EXCEPT !.taxes[b] = amount]],
               left |-> acc.left - amount]
    BY <1>1, <1>2, <1>3, Zenon DEF Take
  <2>2. [fresh EXCEPT ![Payment(p)] = [@ EXCEPT !.taxes[b] = amount]] = last
    BY <1>4, <1>5, <1>6, <1>7, RowsAre
  <2> QED BY <2>1, <2>2
<1>9. /\ Typed(mid) /\ acc.left \in Nat /\ Revision(db, mid, {p}, S)
      /\ \A x \in Bills : Sound(mid[Bill(x)]) /\ mid[Bill(x)].paid = db[Bill(x)].paid
      /\ SameOwner(db[Payment(p)], mid[Payment(p)])
      /\ acc.left + Total(mid[Payment(p)].taxes, Bills) = Amount[p]
      /\ TakesOnlyDebt(db, p, seen, mid[Payment(p)].taxes)
  BY <1>1, Zenon DEF Allocating
<1>10. b \in S /\ mid[Bill(b)].present
  <2>1. KeptBills(db, mid) /\ mid[Payment(p)].user = db[Payment(p)].user
    BY <1>9 DEF Revision, SameOwner
  <2>2. SubjectBills(mid, p) = S
    BY <2>1, SubjectBillsSame
  <2>3. b \in SubjectBills(mid, p)
    BY <1>1 DEF Eligible
  <2> QED BY <2>2, <2>3 DEF SubjectBills
<1>11. mid[Payment(p)].taxes[b] = 0 /\ db[Payment(p)].taxes[b] = 0
  <2>1. mid[Payment(p)].taxes[b] \in Nat
    BY <1>9, ChargesAre
  <2>2. mid[Payment(p)].taxes[b] = 0
    BY <1>9, <2>1 DEF TakesOnlyDebt
  <2>3. db[Payment(p)].taxes[b] = 0
    BY DEF Untouched, NoTaxes
  <2> QED BY <2>2, <2>3
<1>12. mid[Bill(b)].paid = Allocated(mid, b)
  <2>1. \A x \in Payments : mid[Payment(x)].taxes[b] = db[Payment(x)].taxes[b]
    BY <1>9, <1>11 DEF Revision, SamePayments
  <2>2. Allocated(mid, b) = Allocated(db, b)
    BY <2>1, AllocatedSame
  <2> QED BY <1>9, <2>2 DEF Good, AddsUp
<1>13. /\ Typed(fresh) /\ Revision(mid, fresh, {}, {b}) /\ OnlyBill(mid, b, fresh)
       /\ Sound(fresh[Bill(b)]) /\ fresh[Bill(b)].paid = mid[Bill(b)].paid
  BY <1>2, <1>9, <1>10, <1>12, RefreshedBill
<1>14. old = mid[Payment(p)] /\ IsPayment(old)
  BY <1>4, <1>13 DEF OnlyBill, Typed
<1>15. /\ amount \in Nat /\ amount <= acc.left
       /\ amount > 0 => db[Bill(b)].paid + amount <= db[Bill(b)].due
  <2>1. PICK bill : bill = fresh[Bill(b)]
    OBVIOUS
  <2>2. IsBill(bill) /\ bill.paid = db[Bill(b)].paid
    BY <1>9, <1>13, <2>1 DEF Typed
  <2>3. bill.due = db[Bill(b)].due
    <3>1. fresh[Bill(b)].due = mid[Bill(b)].due
      BY <1>13 DEF Revision, KeptBills, BillKept
    <3>2. mid[Bill(b)].due = db[Bill(b)].due
      BY <1>9 DEF Revision, KeptBills, BillKept
    <3> QED BY <2>1, <3>1, <3>2
  <2>4. bill.due \in Nat /\ bill.paid \in Nat
    BY <2>2 DEF IsBill
  <2>5. PICK owed : owed = Outstanding(bill)
    OBVIOUS
  <2>6. owed \in Nat /\ owed = IF bill.due > bill.paid THEN bill.due - bill.paid ELSE 0
    BY <2>4, <2>5 DEF Outstanding
  <2>7. amount = IF acc.left < owed THEN acc.left ELSE owed
    BY <1>3, <1>9, <2>1, <2>5, <2>6, MinOfTwo
  <2> QED BY <1>9, <2>2, <2>3, <2>4, <2>6, <2>7
<1>16. /\ DOMAIN row = PaymentFields /\ row.rest = old.rest /\ SameOwner(old, row)
       /\ row.taxes = [old.taxes EXCEPT ![b] = amount]
  BY <1>5, <1>14 DEF IsPayment, PaymentFields, SameOwner
<1>17. /\ IsPayment(row) /\ row.taxes[b] = amount
       /\ \A x \in Bills : x # b => row.taxes[x] = old.taxes[x]
  BY <1>14, <1>15, <1>16 DEF IsPayment
<1>18. SameBut(fresh[Payment(p)].taxes, row.taxes, {b})
  BY <1>4, <1>17 DEF SameBut
<1>19. Typed(last) /\ Revision(fresh, last, {p}, {b}) /\ OnlyRow(fresh, p, row, last)
  <2>1. Replaced(fresh, p, row, last)
    BY <1>6 DEF Replaced
  <2> QED BY <1>13, <1>17, <1>18, <2>1, RowRevises, Zenon
<1>20. Revision(db, last, {p}, S)
  <2>1. {b} \subseteq S /\ {} \subseteq {p} /\ {p} \subseteq {p}
    BY <1>10
  <2>2. Revision(mid, fresh, {p}, S)
    BY <1>13, <2>1, RevisionWider
  <2>3. Revision(fresh, last, {p}, S)
    BY <1>19, <2>1, RevisionWider
  <2> QED BY <1>9, <2>2, <2>3, RevisionTwice, Zenon
<1>21. ASSUME NEW x \in Bills
       PROVE  Sound(last[Bill(x)]) /\ last[Bill(x)].paid = db[Bill(x)].paid
  <2>1. last[Bill(x)] = fresh[Bill(x)]
    BY <1>19 DEF OnlyRow
  <2>2. CASE x = b
    BY <1>9, <1>13, <2>1, <2>2
  <2>3. CASE x # b
    <3>1. fresh[Bill(x)] = mid[Bill(x)]
      BY <1>13, <2>3 DEF OnlyBill
    <3> QED BY <1>9, <2>1, <3>1
  <2> QED BY <2>2, <2>3
<1>22. last[Payment(p)] = row
  BY <1>19 DEF OnlyRow
<1>23. SameOwner(db[Payment(p)], row)
  BY <1>9, <1>14, <1>16 DEF SameOwner
<1>24. (acc.left - amount) + Total(row.taxes, Bills) = Amount[p]
  <2>1. PICK F : F = old.taxes
    OBVIOUS
  <2>2. PICK G : G = row.taxes
    OBVIOUS
  <2>3. Integral(F, Bills) /\ Integral(G, Bills) /\ Total(F, Bills) \in Nat
    BY <1>14, <1>17, <2>1, <2>2, AllocatedOfIs
  <2>4. Unchanging(F, G, Bills, b)
    BY <1>17, <2>1, <2>2 DEF Unchanging
  <2>5. Total(G, Bills) = Total(F, Bills) - F[b] + G[b]
    BY <2>3, <2>4, TotalUpdate, FiniteNames
  <2>6. F[b] = 0 /\ G[b] = amount
    BY <1>11, <1>14, <1>17, <2>1, <2>2
  <2>7. acc.left + Total(F, Bills) = Amount[p]
    BY <1>9, <1>14, <2>1
  <2> QED BY <1>9, <1>15, <2>2, <2>3, <2>5, <2>6, <2>7
<1>25. TakesOnlyDebt(db, p, seen \cup {b}, row.taxes)
  <2> SUFFICES ASSUME NEW x \in Bills, row.taxes[x] > 0
               PROVE  /\ x \in seen \cup {b}
                      /\ db[Bill(x)].paid + row.taxes[x] <= db[Bill(x)].due
    BY DEF TakesOnlyDebt
  <2>1. CASE x = b
    BY <1>15, <1>17, <2>1
  <2>2. CASE x # b
    <3>1. row.taxes[x] = mid[Payment(p)].taxes[x]
      BY <1>14, <1>17, <2>2
    <3> QED BY <1>9, <3>1 DEF TakesOnlyDebt
  <2> QED BY <2>1, <2>2
<1>26. acc.left - amount \in Nat
  BY <1>9, <1>15
<1> QED BY <1>8, <1>19, <1>20, <1>21, <1>22, <1>23, <1>24, <1>25, <1>26 DEF Allocating

(***************************************************************************)
(* The three folds of the model: what a fold returns is the last of a      *)
(* series that starts with its base and takes one step for each element.   *)
(***************************************************************************)
Combine(kind, context, acc, x) ==
  CASE kind = "take" -> Take(acc, context, x)
    [] kind = "decide" -> Decision(acc, x, context)
    [] OTHER -> Reconciled(context, acc, x)
Folds(kind, context, base, seq, n, f) ==
  f = [s \in SUBSET (1..n) |->
         IF s = {} THEN base ELSE Combine(kind, context, f[s \ {Max(s)}], seq[Max(s)])]
Series(kind, context, base, seq, n, t) ==
  t[0] = base /\ \A k \in 1..n : t[k] = Combine(kind, context, t[k - 1], seq[k])

LEMMA LastIsMax ==
  ASSUME NEW n \in Nat, NEW s \in SUBSET (1..(n + 1)), n + 1 \in s
  PROVE  Max(s) = n + 1 /\ s \ {Max(s)} \in SUBSET (1..n)
<1>1. PICK m : m = Max(s)
  OBVIOUS
<1>2. n + 1 \in s /\ \A y \in s : n + 1 >= y
  OBVIOUS
<1>3. m \in s /\ \A y \in s : m >= y
  BY <1>1, <1>2, Zenon DEF Max
<1>4. m = n + 1
  BY <1>2, <1>3
<1> QED BY <1>1, <1>4

LEMMA FoldsExists ==
  ASSUME NEW kind, NEW context, NEW base, NEW seq, NEW n \in Nat
  PROVE  \E f : Folds(kind, context, base, seq, n, f)
<1> DEFINE Pass(f, s) ==
             IF s = {} THEN base ELSE Combine(kind, context, f[s \ {Max(s)}], seq[Max(s)])
           T == {m \in Nat : \E f : f = [s \in SUBSET (1..m) |-> Pass(f, s)]}
<1>1. 0 \in T
  <2>1. PICK f : f = [s \in SUBSET (1..0) |-> base]
    OBVIOUS
  <2>2. \A s \in SUBSET (1..0) : s = {}
    OBVIOUS
  <2>3. f = [s \in SUBSET (1..0) |-> Pass(f, s)]
    BY <2>1, <2>2
  <2> QED BY <2>3
<1>2. ASSUME NEW m \in Nat, m \in T
      PROVE  m + 1 \in T
  <2>1. PICK f : f = [s \in SUBSET (1..m) |-> Pass(f, s)]
    BY <1>2
  <2>2. PICK g : g = [s \in SUBSET (1..(m + 1)) |-> IF s \in SUBSET (1..m) THEN f[s] ELSE Pass(f, s)]
    OBVIOUS
  <2>3. SUBSET (1..m) \subseteq SUBSET (1..(m + 1))
    OBVIOUS
  <2>4. \A s \in SUBSET (1..m) : g[s] = f[s]
    BY <2>2, <2>3
  <2>5. ASSUME NEW s \in SUBSET (1..(m + 1))
        PROVE  g[s] = Pass(g, s)
    <3>1. g[s] = Pass(f, s)
      <4>1. CASE s \in SUBSET (1..m)
        <5>1. f[s] = Pass(f, s)
          BY <2>1, <4>1, Zenon
        <5> QED BY <2>4, <4>1, <5>1, Zenon
      <4>2. CASE s \notin SUBSET (1..m)
        BY <2>2, <4>2, Zenon
      <4> QED BY <4>1, <4>2
    <3>2. CASE s = {}
      BY <3>1, <3>2, Zenon
    <3>3. CASE s # {}
      <4>1. s \ {Max(s)} \in SUBSET (1..m)
        <5>1. CASE m + 1 \in s
          BY <5>1, LastIsMax
        <5>2. CASE m + 1 \notin s
          <6>1. s \in SUBSET (1..m)
            BY <5>2
          <6> QED BY <6>1
        <5> QED BY <5>1, <5>2
      <4>2. g[s \ {Max(s)}] = f[s \ {Max(s)}]
        BY <2>4, <4>1, Zenon
      <4>3. Pass(g, s) = Pass(f, s)
        BY <4>2, Zenon
      <4> QED BY <3>1, <4>3, Zenon
    <3> QED BY <3>2, <3>3
  <2>6. DOMAIN g = SUBSET (1..(m + 1)) /\ g = [s \in SUBSET (1..(m + 1)) |-> g[s]]
    <3> HIDE DEF Pass
    <3> QED BY <2>2
  <2>7. g = [s \in SUBSET (1..(m + 1)) |-> Pass(g, s)]
    <3> HIDE DEF Pass
    <3> QED BY <2>5, <2>6
  <2> QED BY <2>7
<1>3. n \in T
  <2> HIDE DEF T
  <2> QED BY <1>1, <1>2, NatSetInduction
<1> QED BY <1>3, Zenon DEF Folds

LEMMA FoldsSeries ==
  ASSUME NEW kind, NEW context, NEW base, NEW seq, NEW n \in Nat, NEW f,
         Folds(kind, context, base, seq, n, f)
  PROVE  \E t : Series(kind, context, base, seq, n, t) /\ t[n] = f[1..n]
<1>1. PICK t : t = [k \in 0..n |-> f[1..k]]
  OBVIOUS
<1>2. \A s \in SUBSET (1..n) :
        f[s] = IF s = {} THEN base ELSE Combine(kind, context, f[s \ {Max(s)}], seq[Max(s)])
  BY Zenon DEF Folds
<1>3. t[0] = base
  <2>1. t[0] = f[1..0] /\ 1..0 = {}
    BY <1>1
  <2>2. f[{}] = base
    BY <1>2, Zenon
  <2> QED BY <2>1, <2>2
<1>4. ASSUME NEW k \in 1..n
      PROVE  t[k] = Combine(kind, context, t[k - 1], seq[k])
  <2>1. k - 1 \in Nat /\ (k - 1) + 1 = k /\ k - 1 \in 0..n /\ k \in 0..n
    OBVIOUS
  <2>2. PICK s : s = 1..k
    OBVIOUS
  <2>3. s \in SUBSET (1..n) /\ s # {} /\ k \in s
    BY <2>2
  <2>4. Max(s) = k
    BY <2>1, <2>2, <2>3, LastIsMax
  <2>5. s \ {Max(s)} = 1..(k - 1)
    BY <2>2, <2>4
  <2>6. f[s] = Combine(kind, context, f[s \ {Max(s)}], seq[Max(s)])
    BY <1>2, <2>3, Zenon
  <2>7. t[k] = f[s] /\ t[k - 1] = f[1..(k - 1)]
    BY <1>1, <2>1, <2>2
  <2> QED BY <2>4, <2>5, <2>6, <2>7, Zenon
<1>5. t[n] = f[1..n]
  BY <1>1
<1> QED BY <1>3, <1>4, <1>5, Zenon DEF Series

LEMMA OrderIs ==
  /\ Len(BillOrder) \in Nat /\ DOMAIN BillOrder = 1..Len(BillOrder)
  /\ \A i \in 1..Len(BillOrder) : BillOrder[i] \in Bills
  /\ \A i, j \in 1..Len(BillOrder) : BillOrder[i] = BillOrder[j] => i = j
<1>1. BillOrder \in Seq(Bills)
  BY OrderAssumption
<1>2. Len(BillOrder) \in Nat /\ DOMAIN BillOrder = 1..Len(BillOrder)
      /\ \A i \in 1..Len(BillOrder) : BillOrder[i] \in Bills
  BY ONLY <1>1
<1>3. \A i, j \in DOMAIN BillOrder : BillOrder[i] = BillOrder[j] => i = j
  BY OrderAssumption, Zenon DEF IsInjective
<1> QED BY <1>2, <1>3

LEMMA AllocateOldestSeries ==
  ASSUME NEW db, NEW p
  PROVE  \E t : /\ Series("take", p, [db |-> db, left |-> Amount[p]], BillOrder, Len(BillOrder), t)
                /\ t[Len(BillOrder)] = AllocateOldest(db, p)
<1>1. PICK n : n = Len(BillOrder)
  OBVIOUS
<1>2. PICK base : base = [db |-> db, left |-> Amount[p]]
  OBVIOUS
<1>3. \A acc, x : Combine("take", p, acc, x) = Take(acc, p, x)
  BY DEF Combine
<1>4. DOMAIN BillOrder = 1..n /\ n \in Nat
  BY <1>1, OrderIs
<1> DEFINE Fits(f) == f = [s \in SUBSET DOMAIN BillOrder |->
             IF s = {} THEN base ELSE Take(f[s \ {Max(s)}], p, BillOrder[Max(s)])]
<1>5. AllocateOldest(db, p) = (CHOOSE f : Fits(f))[DOMAIN BillOrder]
  BY <1>2, Zenon DEF AllocateOldest, FoldLeft, MapThenFoldSet
<1>6. \A f : Folds("take", p, base, BillOrder, n, f) <=> Fits(f)
  BY <1>3, <1>4, Zenon DEF Folds
<1> HIDE DEF Fits
<1>7. PICK f : f = CHOOSE g : Fits(g)
  OBVIOUS
<1>8. \E g : Folds("take", p, base, BillOrder, n, g)
  BY <1>4, FoldsExists
<1>9. Fits(f)
  BY <1>6, <1>7, <1>8, Zenon
<1>10. Folds("take", p, base, BillOrder, n, f) /\ AllocateOldest(db, p) = f[1..n]
  BY <1>4, <1>5, <1>6, <1>7, <1>9, Zenon
<1>11. PICK t : Series("take", p, base, BillOrder, n, t) /\ t[n] = f[1..n]
  BY <1>4, <1>10, FoldsSeries
<1> QED BY <1>1, <1>2, <1>10, <1>11

(* allocate_oldest, run to its end.                                        *)
LEMMA AllocateOldestIs ==
  ASSUME NEW db, Good(db), NEW p \in Payments, Untouched(db, p)
  PROVE  Allocating(db, p, Bills, AllocateOldest(db, p))
<1>1. PICK n : n = Len(BillOrder)
  OBVIOUS
<1>2. PICK base : base = [db |-> db, left |-> Amount[p]]
  OBVIOUS
<1>3. PICK t : Series("take", p, base, BillOrder, n, t) /\ t[n] = AllocateOldest(db, p)
  BY <1>1, <1>2, AllocateOldestSeries, Zenon
<1> DEFINE Seen(k) == {BillOrder[i] : i \in 1..k}
           T == {k \in Nat : k <= n => Allocating(db, p, Seen(k), t[k])}
<1>4. 0 \in T
  <2>1. Seen(0) = {}
    OBVIOUS
  <2>2. t[0] = base
    BY <1>3 DEF Series
  <2>3. Allocating(db, p, {}, base)
    BY <1>2, AllocationStarts
  <2> QED BY <2>1, <2>2, <2>3, Zenon
<1>5. ASSUME NEW k \in Nat, k \in T
      PROVE  k + 1 \in T
  <2> SUFFICES ASSUME k + 1 <= n PROVE Allocating(db, p, Seen(k + 1), t[k + 1])
    OBVIOUS
  <2>1. k <= n /\ k + 1 \in 1..n /\ (k + 1) - 1 = k
    BY <1>1, OrderIs
  <2>2. Allocating(db, p, Seen(k), t[k])
    BY <1>5, <2>1
  <2>3. PICK b : b = BillOrder[k + 1]
    OBVIOUS
  <2>4. t[k + 1] = Take(t[k], p, b)
    <3>1. t[k + 1] = Combine("take", p, t[k], b)
      BY <1>3, <2>1, <2>3, Zenon DEF Series
    <3> QED BY <3>1 DEF Combine
  <2>5. b \in Bills
    BY <1>1, <2>1, <2>3, OrderIs
  <2>6. b \notin Seen(k)
    <3> SUFFICES ASSUME NEW i \in 1..k, BillOrder[i] = b PROVE FALSE
      OBVIOUS
    <3>1. i \in 1..n /\ i # k + 1
      BY <1>1, <2>1, OrderIs
    <3> QED BY <1>1, <2>1, <2>3, <3>1, OrderIs
  <2>7. Seen(k + 1) = Seen(k) \cup {b}
    <3>1. 1..(k + 1) = (1..k) \cup {k + 1}
      OBVIOUS
    <3> QED BY <2>3, <3>1
  <2>8. CASE t[k].left > 0 /\ Eligible(t[k].db, p, b)
    <3> HIDE DEF Seen
    <3>1. Allocating(db, p, Seen(k) \cup {b}, t[k + 1])
      BY <2>2, <2>4, <2>5, <2>6, <2>8, Takes
    <3> QED BY <2>7, <3>1
  <2>9. CASE ~ (t[k].left > 0 /\ Eligible(t[k].db, p, b))
    <3>1. t[k + 1] = t[k]
      BY <2>4, <2>9, Zenon DEF Take
    <3> HIDE DEF Seen
    <3>2. TakesOnlyDebt(db, p, Seen(k) \cup {b}, t[k].db[Payment(p)].taxes)
      BY <2>2 DEF Allocating, TakesOnlyDebt
    <3>3. Allocating(db, p, Seen(k) \cup {b}, t[k])
      BY <2>2, <3>2, Zenon DEF Allocating
    <3> QED BY <2>7, <3>1, <3>3
  <2> QED BY <2>8, <2>9
<1>6. n \in T
  <2>1. n \in Nat
    BY <1>1, OrderIs
  <2> HIDE DEF T
  <2> QED BY <1>4, <1>5, <2>1, NatSetInduction
<1>7. Allocating(db, p, Seen(n), t[n])
  <2>1. n \in Nat /\ n <= n
    BY <1>1, OrderIs
  <2> HIDE DEF Seen
  <2> QED BY <1>6, <2>1
<1>8. TakesOnlyDebt(db, p, Bills, t[n].db[Payment(p)].taxes)
  BY <1>7 DEF Allocating, TakesOnlyDebt
<1> HIDE DEF Seen
<1>9. Allocating(db, p, Bills, t[n])
  BY <1>7, <1>8, Zenon DEF Allocating
<1> QED BY <1>3, <1>9

(***************************************************************************)
(* recalculate_payment: the status follows from what is allocated.         *)
(***************************************************************************)
LEMMA OnlyAnUnspentPaymentIsExempt ==
  ASSUME NEW p, NEW row, PaymentStatus(p, row) = "EXEMPT"
  PROVE  AllocatedOf(row) = 0
BY DEF PaymentStatus

WithStatusOf(p, row) == [row EXCEPT !.status = PaymentStatus(p, row)]
LEMMA RecalculatePaymentIs ==
  ASSUME NEW db, Typed(db), NEW p \in Payments, NEW new, new = RecalculatePayment(db, p)
  PROVE  \E mid : /\ Replaced(db, p, WithStatusOf(p, db[Payment(p)]), mid)
                  /\ Recalculation(mid, BillsOf(db[Payment(p)]), new)
<1>1. PICK old : old = db[Payment(p)]
  OBVIOUS
<1>2. PICK mid : mid = [db EXCEPT ![Payment(p)] = WithStatusOf(p, old)]
  OBVIOUS
<1>3. new = Recalculate(mid, BillsOf(old))
  BY <1>1, <1>2, Zenon DEF RecalculatePayment, WithStatusOf
<1>4. BillsOf(old) \in SUBSET Bills
  BY DEF BillsOf
<1>5. Recalculation(mid, BillsOf(old), new)
  BY <1>3, <1>4, RecalculateIs
<1> QED BY <1>1, <1>2, <1>5, Zenon DEF Replaced

LEMMA WithStatusOfIs ==
  ASSUME NEW p, NEW row, IsPayment(row), NEW new, new = WithStatusOf(p, row)
  PROVE  /\ IsPayment(new) /\ new.taxes = row.taxes /\ new.rest = row.rest
         /\ SameOwner(row, new) /\ AllocatedOf(new) = AllocatedOf(row)
         /\ BillsOf(new) = BillsOf(row)
         /\ new.status = "EXEMPT" => AllocatedOf(row) = 0
<1>1. /\ DOMAIN new = PaymentFields /\ new.taxes = row.taxes /\ new.rest = row.rest
      /\ new.present = row.present /\ new.user = row.user /\ new.status = PaymentStatus(p, row)
  <2>1. PICK state : state = PaymentStatus(p, row)
    OBVIOUS
  <2>2. new = [row EXCEPT !.status = state]
    BY <2>1 DEF WithStatusOf
  <2> QED BY <2>1, <2>2 DEF IsPayment, PaymentFields
<1>2. IsPayment(new) /\ AllocatedOf(new) = AllocatedOf(row) /\ BillsOf(new) = BillsOf(row)
  BY <1>1 DEF IsPayment, AllocatedOf, BillsOf
<1> QED BY <1>1, <1>2, OnlyAnUnspentPaymentIsExempt DEF SameOwner

(* The end of a decision: what was taken and what is left of a payment are *)
(* saved, and the bills it pays are recalculated.                          *)
PaysOnlyDebt(db, new) ==
  \A b \in Bills : new[Bill(b)].paid <= db[Bill(b)].paid \/ new[Bill(b)].paid <= new[Bill(b)].due
LEMMA AllocationEnds ==
  ASSUME NEW db, Good(db), NEW p \in Payments, Untouched(db, p), db[Payment(p)].present,
         NEW seen, NEW acc, Allocating(db, p, seen, acc), NEW category, NEW new,
         new = RecalculatePayment(WithRest(acc.db, p, category, acc.left), p)
  PROVE  /\ Good(new) /\ Revision(db, new, {p}, SubjectBills(db, p))
         /\ SameOwner(db[Payment(p)], new[Payment(p)]) /\ PaysOnlyDebt(db, new)
<1> DEFINE S == SubjectBills(db, p)
<1>1. PICK taken : taken = acc.db
  OBVIOUS
<1>2. PICK left : left = acc.left
  OBVIOUS
<1>3. /\ Typed(taken) /\ left \in Nat /\ Revision(db, taken, {p}, S)
      /\ \A b \in Bills : Sound(taken[Bill(b)]) /\ taken[Bill(b)].paid = db[Bill(b)].paid
      /\ SameOwner(db[Payment(p)], taken[Payment(p)])
      /\ left + Total(taken[Payment(p)].taxes, Bills) = Amount[p]
      /\ TakesOnlyDebt(db, p, seen, taken[Payment(p)].taxes)
  BY <1>1, <1>2, Zenon DEF Allocating
<1>4. PICK old : old = taken[Payment(p)]
  OBVIOUS
<1>5. PICK kind : kind = IF left > 0 THEN category ELSE "none"
  OBVIOUS
<1>6. PICK row : row = [old EXCEPT !.category = kind, !.rest = left]
  OBVIOUS
<1>7. PICK rested : rested = [taken EXCEPT ![Payment(p)] = row]
  OBVIOUS
<1>8. IsPayment(old)
  BY <1>3, <1>4 DEF Typed
<1>9. /\ DOMAIN row = PaymentFields /\ row.taxes = old.taxes /\ row.rest = left
      /\ SameOwner(old, row)
  BY <1>6, <1>8 DEF IsPayment, PaymentFields, SameOwner
<1>10. IsPayment(row)
  BY <1>3, <1>8, <1>9 DEF IsPayment
<1>11. AllocatedOf(row) = Amount[p]
  BY <1>3, <1>4, <1>9, <1>10, AllocatedOfIs
<1>12. WithRest(acc.db, p, category, acc.left) = rested
  <2>1. DOMAIN taken = Rows
    BY <1>3 DEF Typed
  <2>2. [taken EXCEPT ![Payment(p)] = [@ EXCEPT !.category = kind, !.rest = left]] = rested
    BY <1>4, <1>6, <1>7, <2>1, RowsAre
  <2> QED BY <1>1, <1>2, <1>5, <2>2, Zenon DEF WithRest
<1>13. Typed(rested) /\ Revision(taken, rested, {p}, S) /\ OnlyRow(taken, p, row, rested)
  <2>1. Replaced(taken, p, row, rested)
    BY <1>7 DEF Replaced
  <2>2. SameBut(taken[Payment(p)].taxes, row.taxes, S)
    BY <1>4, <1>9 DEF SameBut
  <2> QED BY <1>3, <1>10, <2>1, <2>2, RowRevises, Zenon
<1>14. PICK final : final = WithStatusOf(p, row)
  OBVIOUS
<1>15. PICK bills : bills = BillsOf(row)
  OBVIOUS
<1>16. PICK mid : Replaced(rested, p, final, mid) /\ Recalculation(mid, bills, new)
  <2>1. new = RecalculatePayment(rested, p) /\ rested[Payment(p)] = row
    BY <1>12, <1>13 DEF OnlyRow
  <2> QED BY <1>13, <1>14, <1>15, <2>1, RecalculatePaymentIs
<1>17. /\ IsPayment(final) /\ final.taxes = old.taxes /\ SameOwner(row, final)
       /\ AllocatedOf(final) = Amount[p]
       /\ final.status = "EXEMPT" => AllocatedOf(final) = 0
  BY <1>9, <1>10, <1>11, <1>14, WithStatusOfIs
<1>18. Typed(mid) /\ Revision(rested, mid, {p}, S) /\ OnlyRow(rested, p, final, mid)
  <2>1. SameBut(rested[Payment(p)].taxes, final.taxes, S)
    BY <1>9, <1>13, <1>17 DEF SameBut, OnlyRow
  <2> QED BY <1>13, <1>16, <1>17, <2>1, RowRevises, Zenon
<1>19. SameOwner(db[Payment(p)], final)
  BY <1>3, <1>4, <1>9, <1>17 DEF SameOwner
<1>20. \A b \in Bills : mid[Bill(b)] = taken[Bill(b)]
  BY <1>13, <1>18 DEF OnlyRow
<1>21. mid[Payment(p)] = final
  BY <1>18 DEF OnlyRow
<1>22. Revision(db, mid, {p}, S)
  <2>1. Revision(db, rested, {p}, S)
    BY <1>3, <1>13, RevisionTwice, Zenon
  <2> QED BY <1>18, <2>1, RevisionTwice, Zenon
<1>23. \A x \in Payments : x # p => mid[Payment(x)] = db[Payment(x)]
  BY <1>22 DEF Revision, SamePayments
<1>24. \A b \in Bills : db[Payment(p)].taxes[b] = 0
  BY DEF Untouched, NoTaxes
<1>25. \A b \in Bills : final.taxes[b] \in Nat
  BY <1>17 DEF IsPayment
<1>26. bills \in SUBSET Bills /\ \A b \in Bills : b \in bills <=> final.taxes[b] > 0
  BY <1>9, <1>15, <1>17 DEF BillsOf
<1>27. bills \subseteq S
  <2> SUFFICES ASSUME NEW b \in bills, b \notin S PROVE FALSE
    OBVIOUS
  <2>1. mid[Payment(p)].taxes[b] = db[Payment(p)].taxes[b]
    BY <1>22, <1>26 DEF Revision, SameTaxes
  <2> QED BY <1>21, <1>24, <1>26, <2>1
<1>28. \A b \in bills : mid[Bill(b)].present /\ Honest(mid[Bill(b)])
  <2> SUFFICES ASSUME NEW b \in bills PROVE mid[Bill(b)].present /\ Honest(mid[Bill(b)])
    OBVIOUS
  <2>1. db[Bill(b)].present /\ b \in Bills
    BY <1>27 DEF SubjectBills
  <2>2. mid[Bill(b)].present = db[Bill(b)].present
    BY <1>22, <2>1 DEF Revision, KeptBills, BillKept
  <2> QED BY <1>3, <1>20, <2>1, <2>2 DEF Sound
<1>29. ASSUME NEW b \in Bills \ bills
       PROVE  AddsUp(mid, b)
  <2>1. final.taxes[b] = 0
    BY <1>25, <1>26
  <2>2. \A x \in Payments : mid[Payment(x)].taxes[b] = db[Payment(x)].taxes[b]
    BY <1>21, <1>23, <1>24, <2>1
  <2>3. Allocated(mid, b) = Allocated(db, b)
    BY <2>2, AllocatedSame
  <2>4. db[Bill(b)].paid = Allocated(db, b)
    BY DEF Good, AddsUp
  <2> QED BY <1>3, <1>20, <2>3, <2>4 DEF AddsUp
<1>30. ASSUME NEW x \in Payments
       PROVE  Spent(x, mid[Payment(x)])
  <2>1. CASE x = p
    <3>1. final.present
      BY <1>19 DEF SameOwner
    <3>2. Amount[p] <= Amount[p]
      BY MoneyAssumption
    <3> QED BY <1>17, <1>21, <2>1, <3>1, <3>2 DEF Spent
  <2>2. CASE x # p
    BY <1>23, <2>2 DEF Good
  <2> QED BY <2>1, <2>2
<1>31. Good(new)
  BY <1>16, <1>18, <1>26, <1>28, <1>29, <1>30, RecalculationGood
<1>32. Revision(db, new, {p}, S)
  <2>1. Revision(mid, new, {}, bills)
    BY <1>16, <1>18, <1>26, <1>28, RecalculationRevises
  <2>2. Revision(mid, new, {p}, S)
    BY <1>27, <2>1, RevisionWider
  <2> QED BY <1>22, <2>2, RevisionTwice, Zenon
<1>33. new[Payment(p)] = final
  BY <1>16, <1>21 DEF Recalculation
<1>34. ASSUME NEW b \in Bills
       PROVE  new[Bill(b)].paid <= db[Bill(b)].paid \/ new[Bill(b)].paid <= new[Bill(b)].due
  <2>1. new[Bill(b)].paid = Allocated(new, b) /\ db[Bill(b)].paid = Allocated(db, b)
    BY <1>31 DEF Good, AddsUp
  <2>2. Typed(db) /\ Typed(new)
    BY <1>31 DEF Good
  <2>3. \A x \in Payments : x # p => new[Payment(x)] = db[Payment(x)]
    BY <1>32 DEF Revision, SamePayments
  <2>4. Allocated(new, b) = Allocated(db, b) - db[Payment(p)].taxes[b] + new[Payment(p)].taxes[b]
    BY <2>2, <2>3, AllocatedUpdate
  <2>5. Allocated(new, b) = Allocated(db, b) + final.taxes[b] /\ Allocated(db, b) \in Nat
    BY <1>24, <1>25, <1>33, <2>2, <2>4, ChargesAre
  <2>6. new[Bill(b)].due = db[Bill(b)].due
    BY <1>32 DEF Revision, KeptBills, BillKept
  <2>7. CASE final.taxes[b] = 0
    BY <2>1, <2>5, <2>7
  <2>8. CASE final.taxes[b] > 0
    <3>1. db[Bill(b)].paid + final.taxes[b] <= db[Bill(b)].due
      BY <1>3, <1>4, <1>17, <2>8 DEF TakesOnlyDebt
    <3> QED BY <2>1, <2>5, <2>6, <3>1
  <2> QED BY <1>25, <2>7, <2>8
<1> QED BY <1>19, <1>31, <1>32, <1>33, <1>34 DEF PaysOnlyDebt

(***************************************************************************)
(* decide_payment as a whole.                                              *)
(***************************************************************************)
LEMMA WithStatusIs ==
  ASSUME NEW db, Good(db), NEW p \in Payments, NEW state, NEW new, new = WithStatus(db, p, state),
         MayBe(state, db[Payment(p)])
  PROVE  /\ Good(new) /\ Revision(db, new, {p}, {})
         /\ SameOwner(db[Payment(p)], new[Payment(p)])
         /\ new[Payment(p)].taxes = db[Payment(p)].taxes
<1>1. PICK old : old = db[Payment(p)]
  OBVIOUS
<1>2. DOMAIN db = Rows /\ IsPayment(old)
  BY <1>1 DEF Good, Typed
<1>3. PICK auto : auto = FALSE
  OBVIOUS
<1>4. Replaced(db, p, Marked(db[Payment(p)], state, auto), new)
  BY <1>3, <1>1, <1>2, RowsAre DEF WithStatus, Replaced, Marked
<1>5. /\ Good(new) /\ Revision(db, new, {p}, {})
      /\ OnlyRow(db, p, Marked(db[Payment(p)], state, auto), new)
  BY <1>4, StatusGood, Zenon
<1>6. SameOwner(old, new[Payment(p)]) /\ new[Payment(p)].taxes = old.taxes
  BY <1>1, <1>2, <1>5 DEF SameOwner, IsPayment, PaymentFields, Marked, OnlyRow
<1> QED BY <1>1, <1>5, <1>6

LEMMA ClearedIs ==
  ASSUME NEW db, Good(db), NEW p \in Payments, NEW new, Cleared(db, p, new)
  PROVE  /\ Untouched(new, p) /\ SameOwner(db[Payment(p)], new[Payment(p)])
         /\ new[Payment(p)].auto = db[Payment(p)].auto
<1>1. PICK old : old = db[Payment(p)]
  OBVIOUS
<1>2. IsPayment(old)
  BY <1>1 DEF Good, Typed
<1>3. PICK row : row = new[Payment(p)]
  OBVIOUS
<1>4. row = [old EXCEPT !.taxes = NoTaxes, !.category = "none", !.rest = 0]
  BY <1>1, <1>3 DEF Cleared
<1>5. row.taxes = NoTaxes /\ row.rest = 0 /\ row.present = old.present /\ row.user = old.user
      /\ row.auto = old.auto
  BY <1>2, <1>4 DEF IsPayment, PaymentFields
<1> QED BY <1>1, <1>3, <1>5 DEF Untouched, SameOwner

LEMMA DecisionGood ==
  ASSUME NEW db, Good(db), NEW p \in Payments, db[Payment(p)].present, NEW disposition,
         NEW new, new = Decision(db, p, disposition)
  PROVE  /\ Good(new) /\ Revision(db, new, {p}, ContextBills(db, p, TRUE))
         /\ SameOwner(db[Payment(p)], new[Payment(p)]) /\ PaysOnlyDebt(db, new)
<1> DEFINE B == ContextBills(db, p, TRUE)
<1>1. PICK first : first = WithStatus(db, p, db[Payment(p)].status)
  OBVIOUS
<1>2. PICK cleared : cleared = ClearAllocations(first, p)
  OBVIOUS
<1>3. /\ Good(first) /\ Revision(db, first, {p}, {})
      /\ SameOwner(db[Payment(p)], first[Payment(p)])
      /\ first[Payment(p)].taxes = db[Payment(p)].taxes
  <2>1. MayBe(db[Payment(p)].status, db[Payment(p)])
    BY DEF Good, Spent, MayBe
  <2> QED BY <1>1, <2>1, WithStatusIs, Zenon
<1>4. /\ Good(cleared) /\ Revision(first, cleared, {p}, BillsOf(first[Payment(p)]))
      /\ Cleared(first, p, cleared)
  BY <1>2, <1>3, ClearAllocationsGood
<1>5. Untouched(cleared, p) /\ SameOwner(first[Payment(p)], cleared[Payment(p)])
  BY <1>3, <1>4, ClearedIs
<1>6. SameOwner(db[Payment(p)], cleared[Payment(p)])
  BY <1>3, <1>5 DEF SameOwner
<1>7. BillsOf(first[Payment(p)]) \subseteq B /\ SubjectBills(db, p) \subseteq B
  BY <1>3 DEF BillsOf, ContextBills
<1>8. Revision(db, cleared, {p}, B)
  <2>2. Revision(db, first, {p}, B)
    BY <1>3, RevisionOfRows, Zenon
  <2>3. Revision(first, cleared, {p}, B)
    BY <1>4, <1>7, RevisionWider
  <2> QED BY <2>2, <2>3, RevisionTwice, Zenon
<1>9. SubjectBills(cleared, p) \subseteq B
  <2>1. KeptBills(db, cleared)
    BY <1>8 DEF Revision
  <2>2. cleared[Payment(p)].user = db[Payment(p)].user
    BY <1>6 DEF SameOwner
  <2> QED BY <1>7, <2>1, <2>2, SubjectBillsSame
<1>10. cleared[Payment(p)].present
  BY <1>6 DEF SameOwner
<1>11. \A b \in Bills : cleared[Bill(b)].paid <= db[Bill(b)].paid
  <2>1. \A b \in Bills : first[Bill(b)] = db[Bill(b)]
    BY <1>3 DEF Revision, SameBills
  <2> QED BY <1>4, <2>1 DEF Cleared
<1>12. ASSUME Good(new), Revision(cleared, new, {p}, B),
              SameOwner(cleared[Payment(p)], new[Payment(p)]), PaysOnlyDebt(cleared, new)
       PROVE  /\ Good(new) /\ Revision(db, new, {p}, B)
              /\ SameOwner(db[Payment(p)], new[Payment(p)]) /\ PaysOnlyDebt(db, new)
  <2>1. Revision(db, new, {p}, B)
    BY <1>8, <1>12, RevisionTwice, Zenon
  <2>2. SameOwner(db[Payment(p)], new[Payment(p)])
    BY <1>6, <1>12 DEF SameOwner
  <2>3. ASSUME NEW b \in Bills
        PROVE  new[Bill(b)].paid <= db[Bill(b)].paid \/ new[Bill(b)].paid <= new[Bill(b)].due
    <3>1. IsBill(new[Bill(b)]) /\ IsBill(cleared[Bill(b)]) /\ IsBill(db[Bill(b)])
      BY <1>4, <1>12 DEF Good, Typed
    <3>2. new[Bill(b)].paid \in Nat /\ cleared[Bill(b)].paid \in Nat /\ db[Bill(b)].paid \in Nat
      BY <3>1 DEF IsBill
    <3>3. \/ new[Bill(b)].paid <= cleared[Bill(b)].paid
          \/ new[Bill(b)].paid <= new[Bill(b)].due
      BY <1>12 DEF PaysOnlyDebt
    <3> QED BY <1>11, <3>2, <3>3
  <2> QED BY <1>12, <2>1, <2>2, <2>3 DEF PaysOnlyDebt
<1>13. ASSUME NEW state, new = WithStatus(cleared, p, state), state # "EXEMPT"
       PROVE  /\ Good(new) /\ Revision(cleared, new, {p}, B)
              /\ SameOwner(cleared[Payment(p)], new[Payment(p)]) /\ PaysOnlyDebt(cleared, new)
  <2>1. /\ Good(new) /\ Revision(cleared, new, {p}, {})
        /\ SameOwner(cleared[Payment(p)], new[Payment(p)])
    <3>1. MayBe(state, cleared[Payment(p)])
      BY <1>13 DEF MayBe
    <3> QED BY <1>4, <1>13, <3>1, WithStatusIs, Zenon
  <2>2. Revision(cleared, new, {p}, B)
    BY <2>1, RevisionOfRows, Zenon
  <2>3. \A b \in Bills : new[Bill(b)] = cleared[Bill(b)] /\ cleared[Bill(b)].paid \in Nat
    BY <1>4, <2>1 DEF Revision, SameBills, Good, Typed, IsBill
  <2>4. PaysOnlyDebt(cleared, new)
    BY <2>3 DEF PaysOnlyDebt
  <2> QED BY <2>1, <2>2, <2>4
<1>14. ASSUME NEW seen, NEW acc, Allocating(cleared, p, seen, acc), NEW category,
              new = RecalculatePayment(WithRest(acc.db, p, category, acc.left), p)
       PROVE  /\ Good(new) /\ Revision(cleared, new, {p}, B)
              /\ SameOwner(cleared[Payment(p)], new[Payment(p)]) /\ PaysOnlyDebt(cleared, new)
  <2>1. /\ Good(new) /\ Revision(cleared, new, {p}, SubjectBills(cleared, p))
        /\ SameOwner(cleared[Payment(p)], new[Payment(p)]) /\ PaysOnlyDebt(cleared, new)
    BY <1>4, <1>5, <1>10, <1>14, AllocationEnds
  <2>2. Revision(cleared, new, {p}, B)
    BY <1>9, <2>1, RevisionWider
  <2> QED BY <2>1, <2>2
<1>15. ASSUME NEW category, new = RecalculatePayment(WithRest(cleared, p, category, Amount[p]), p)
       PROVE  /\ Good(new) /\ Revision(cleared, new, {p}, B)
              /\ SameOwner(cleared[Payment(p)], new[Payment(p)]) /\ PaysOnlyDebt(cleared, new)
  <2>1. PICK acc : acc = [db |-> cleared, left |-> Amount[p]]
    OBVIOUS
  <2>2. Allocating(cleared, p, {}, acc)
    BY <1>4, <1>5, <2>1, AllocationStarts
  <2>3. new = RecalculatePayment(WithRest(acc.db, p, category, acc.left), p)
    BY <1>15, <2>1
  <2> QED BY <1>14, <2>2, <2>3
<1>16. PICK oldest : oldest = AllocateOldest(cleared, p)
  OBVIOUS
<1>17. Allocating(cleared, p, Bills, oldest)
  BY <1>4, <1>5, <1>16, AllocateOldestIs
<1>18. \/ new = WithStatus(cleared, p, "PENDING")
       \/ new = WithStatus(cleared, p, "REJECTED")
       \/ new = RecalculatePayment(WithRest(cleared, p, "DONATION", Amount[p]), p)
       \/ new = RecalculatePayment(WithRest(cleared, p, "IGNORED", Amount[p]), p)
       \/ \E category : new = RecalculatePayment(WithRest(oldest.db, p, category, oldest.left), p)
  BY <1>1, <1>2, <1>16 DEF Decision
<1>19. CASE new = WithStatus(cleared, p, "PENDING")
  BY <1>12, <1>13, <1>19
<1>20. CASE new = WithStatus(cleared, p, "REJECTED")
  BY <1>12, <1>13, <1>20
<1>21. CASE new = RecalculatePayment(WithRest(cleared, p, "DONATION", Amount[p]), p)
  BY <1>12, <1>15, <1>21
<1>22. CASE new = RecalculatePayment(WithRest(cleared, p, "IGNORED", Amount[p]), p)
  BY <1>12, <1>15, <1>22
<1>23. CASE \E category : new = RecalculatePayment(WithRest(oldest.db, p, category, oldest.left), p)
  BY <1>12, <1>14, <1>17, <1>23
<1> QED BY <1>18, <1>19, <1>20, <1>21, <1>22, <1>23

(* The order in which a set of payments is decided.                        *)
LEMMA OrderOf ==
  ASSUME NEW S, IsFiniteSet(S)
  PROVE  /\ Cardinality(S) \in Nat /\ DOMAIN SetToSeq(S) = 1..Cardinality(S)
         /\ \A i \in 1..Cardinality(S) : SetToSeq(S)[i] \in S
<1>1. Cardinality(S) \in Nat
  BY FS_CardinalityType
<1>2. \E f \in [1..Cardinality(S) -> S] : IsInjective(f)
  <2>1. ExistsBijection(1..Cardinality(S), S)
    BY FS_NatBijection, FS_CountingElements, FS_CardinalityType
  <2>2. PICK f : f \in Bijection(1..Cardinality(S), S)
    BY <2>1 DEF ExistsBijection
  <2> QED BY <2>2, Zenon DEF Bijection, Injection
<1>3. SetToSeq(S) \in [1..Cardinality(S) -> S]
  BY <1>2, Zenon DEF SetToSeq
<1> QED BY <1>1, <1>3

(***************************************************************************)
(* The decision on a set of payments.                                      *)
(***************************************************************************)
ContextOf(db, payments) == UNION {ContextBills(db, p, TRUE) : p \in payments}
Deciding(db, payments, new) ==
  /\ Good(new) /\ Revision(db, new, payments, ContextOf(db, payments))
  /\ \A p \in Payments : SameOwner(db[Payment(p)], new[Payment(p)])
  /\ PaysOnlyDebt(db, new)

LEMMA PaysOnlyDebtTwice ==
  ASSUME NEW db, Typed(db), NEW mid, Typed(mid), NEW new, Typed(new), PaysOnlyDebt(db, mid),
         PaysOnlyDebt(mid, new), KeptBills(mid, new)
  PROVE  PaysOnlyDebt(db, new)
<1> SUFFICES ASSUME NEW b \in Bills
             PROVE  \/ new[Bill(b)].paid <= db[Bill(b)].paid
                    \/ new[Bill(b)].paid <= new[Bill(b)].due
  BY DEF PaysOnlyDebt
<1>1. IsBill(new[Bill(b)]) /\ IsBill(mid[Bill(b)]) /\ IsBill(db[Bill(b)])
  BY DEF Typed
<1>2. /\ new[Bill(b)].paid \in Nat /\ mid[Bill(b)].paid \in Nat /\ db[Bill(b)].paid \in Nat
      /\ new[Bill(b)].due \in Nat
  BY <1>1 DEF IsBill
<1>3. \/ new[Bill(b)].paid <= mid[Bill(b)].paid
      \/ new[Bill(b)].paid <= new[Bill(b)].due
  BY DEF PaysOnlyDebt
<1>4. \/ mid[Bill(b)].paid <= db[Bill(b)].paid
      \/ mid[Bill(b)].paid <= mid[Bill(b)].due
  BY DEF PaysOnlyDebt
<1>5. mid[Bill(b)].due = new[Bill(b)].due
  BY DEF KeptBills, BillKept
<1> QED BY <1>2, <1>3, <1>4, <1>5

LEMMA DecidesNext ==
  ASSUME NEW db, Good(db), NEW payments \in SUBSET Payments, NEW mid, Deciding(db, payments, mid),
         NEW p \in payments, db[Payment(p)].present, NEW disposition, NEW new,
         new = Decision(mid, p, disposition)
  PROVE  Deciding(db, payments, new)
<1> DEFINE B == ContextOf(db, payments)
<1>1. /\ Good(mid) /\ Revision(db, mid, payments, B)
      /\ \A x \in Payments : SameOwner(db[Payment(x)], mid[Payment(x)])
      /\ PaysOnlyDebt(db, mid)
  BY Zenon DEF Deciding
<1>2. mid[Payment(p)].present /\ p \in Payments
  BY <1>1 DEF SameOwner
<1>3. /\ Good(new) /\ Revision(mid, new, {p}, ContextBills(mid, p, TRUE))
      /\ SameOwner(mid[Payment(p)], new[Payment(p)]) /\ PaysOnlyDebt(mid, new)
  BY <1>1, <1>2, DecisionGood
<1>4. ContextBills(mid, p, TRUE) \subseteq B
  <2>1. ContextBills(db, p, TRUE) \subseteq B
    BY DEF ContextOf
  <2>2. BillsOf(db[Payment(p)]) \subseteq B /\ SubjectBills(db, p) \subseteq B
    BY <2>1 DEF ContextBills
  <2>3. SubjectBills(mid, p) = SubjectBills(db, p)
    <3>1. KeptBills(db, mid) /\ mid[Payment(p)].user = db[Payment(p)].user
      BY <1>1, <1>2 DEF Revision, SameOwner
    <3> QED BY <3>1, SubjectBillsSame
  <2>4. BillsOf(mid[Payment(p)]) \subseteq B
    <3> SUFFICES ASSUME NEW b \in BillsOf(mid[Payment(p)]), b \notin B PROVE FALSE
      OBVIOUS
    <3>1. b \in Bills /\ mid[Payment(p)].taxes[b] > 0
      BY DEF BillsOf
    <3>2. mid[Payment(p)].taxes[b] = db[Payment(p)].taxes[b]
      BY <1>1, <1>2, <3>1 DEF Revision, SameTaxes
    <3>3. b \in BillsOf(db[Payment(p)])
      BY <3>1, <3>2 DEF BillsOf
    <3> QED BY <2>2, <3>3
  <2> QED BY <2>2, <2>3, <2>4 DEF ContextBills
<1>5. Revision(db, new, payments, B)
  <2>1. {p} \subseteq payments
    OBVIOUS
  <2>2. Revision(mid, new, payments, B)
    BY <1>3, <1>4, <2>1, RevisionWider
  <2> QED BY <1>1, <2>2, RevisionTwice, Zenon
<1>6. \A x \in Payments : SameOwner(db[Payment(x)], new[Payment(x)])
  <2> SUFFICES ASSUME NEW x \in Payments PROVE SameOwner(db[Payment(x)], new[Payment(x)])
    OBVIOUS
  <2>1. SameOwner(db[Payment(x)], mid[Payment(x)])
    BY <1>1
  <2>2. SameOwner(mid[Payment(x)], new[Payment(x)])
    <3>1. CASE x = p
      BY <1>3, <3>1
    <3>2. CASE x # p
      BY <1>3, <3>2 DEF Revision, SamePayments, SameOwner
    <3> QED BY <3>1, <3>2
  <2> QED BY <2>1, <2>2 DEF SameOwner
<1>7. PaysOnlyDebt(db, new)
  <2>1. Typed(db) /\ Typed(mid) /\ Typed(new) /\ KeptBills(mid, new)
    BY <1>1, <1>3 DEF Good, Revision
  <2> QED BY <1>1, <1>3, <2>1, PaysOnlyDebtTwice
<1> QED BY <1>3, <1>5, <1>6, <1>7 DEF Deciding

LEMMA DecisionsGood ==
  ASSUME NEW db, Good(db), NEW payments \in SUBSET Payments,
         \A p \in payments : db[Payment(p)].present, NEW disposition
  PROVE  Deciding(db, payments, Decisions(db, payments, disposition))
<1>1. PICK seq : seq = SetToSeq(payments)
  OBVIOUS
<1>2. PICK n : n = Cardinality(payments)
  OBVIOUS
<1>3. IsFiniteSet(payments)
  BY FiniteNames, FS_Subset
<1>4. n \in Nat /\ DOMAIN seq = 1..n /\ \A i \in 1..n : seq[i] \in payments
  BY <1>1, <1>2, <1>3, OrderOf
<1> DEFINE Fits(f) == f = [s \in SUBSET DOMAIN seq |->
             IF s = {} THEN db ELSE Decision(f[s \ {Max(s)}], seq[Max(s)], disposition)]
<1>5. Decisions(db, payments, disposition) = (CHOOSE f : Fits(f))[DOMAIN seq]
  BY <1>1, Zenon DEF Decisions, FoldLeft, MapThenFoldSet
<1>6. \A acc, x : Combine("decide", disposition, acc, x) = Decision(acc, x, disposition)
  BY DEF Combine
<1>7. \A f : Folds("decide", disposition, db, seq, n, f) <=> Fits(f)
  BY <1>4, <1>6, Zenon DEF Folds
<1> HIDE DEF Fits
<1>8. PICK f : f = CHOOSE g : Fits(g)
  OBVIOUS
<1>9. \E g : Folds("decide", disposition, db, seq, n, g)
  BY <1>4, FoldsExists
<1>10. Fits(f)
  BY <1>7, <1>8, <1>9, Zenon
<1>11. Folds("decide", disposition, db, seq, n, f)
       /\ Decisions(db, payments, disposition) = f[1..n]
  BY <1>4, <1>5, <1>7, <1>8, <1>10, Zenon
<1>12. PICK t : Series("decide", disposition, db, seq, n, t) /\ t[n] = f[1..n]
  BY <1>4, <1>11, FoldsSeries
<1> DEFINE T == {k \in Nat : k <= n => Deciding(db, payments, t[k])}
<1>13. 0 \in T
  <2>1. t[0] = db
    BY <1>12 DEF Series
  <2>2. Typed(db)
    BY DEF Good
  <2>3. PaysOnlyDebt(db, db)
    BY <2>2 DEF PaysOnlyDebt, Typed, IsBill
  <2>4. Deciding(db, payments, db)
    BY <2>3, RevisionSame DEF Deciding, SameOwner
  <2> QED BY <2>1, <2>4
<1>14. ASSUME NEW k \in Nat, k \in T
       PROVE  k + 1 \in T
  <2> SUFFICES ASSUME k + 1 <= n PROVE Deciding(db, payments, t[k + 1])
    OBVIOUS
  <2>1. k <= n /\ k + 1 \in 1..n /\ (k + 1) - 1 = k
    BY <1>4
  <2>2. Deciding(db, payments, t[k])
    BY <1>14, <2>1
  <2>3. PICK p : p = seq[k + 1]
    OBVIOUS
  <2>4. p \in payments /\ db[Payment(p)].present
    BY <1>4, <2>1, <2>3
  <2>5. t[k + 1] = Decision(t[k], p, disposition)
    <3>1. t[k + 1] = Combine("decide", disposition, t[k], p)
      BY <1>12, <2>1, <2>3, Zenon DEF Series
    <3> QED BY <1>6, <3>1, Zenon
  <2> QED BY <2>2, <2>4, <2>5, DecidesNext
<1>15. n \in T
  <2> HIDE DEF T
  <2> QED BY <1>4, <1>13, <1>14, NatSetInduction
<1>16. Deciding(db, payments, t[n])
  BY <1>4, <1>15
<1> QED BY <1>11, <1>12, <1>16, Zenon

(***************************************************************************)
(* What reconcile_payment_exemptions does to a payment.                    *)
(***************************************************************************)
Revises(db, new, payments) == Good(new) /\ Revision(db, new, payments, Bills)

LEMMA RevisesTwice ==
  ASSUME NEW db, NEW mid, NEW new, NEW payments, Revises(db, mid, payments),
         Revises(mid, new, payments)
  PROVE  Revises(db, new, payments)
BY RevisionTwice, Zenon DEF Revises

LEMMA MarkedRevises ==
  ASSUME NEW db, Good(db), NEW p \in Payments, NEW state, NEW auto, NEW new,
         new = [db EXCEPT ![Payment(p)] = Marked(db[Payment(p)], state, auto)],
         MayBe(state, db[Payment(p)])
  PROVE  Revises(db, new, {p})
<1>1. Replaced(db, p, Marked(db[Payment(p)], state, auto), new)
  BY DEF Replaced
<1>2. Good(new) /\ Revision(db, new, {p}, {})
  BY ONLY Good(db), p \in Payments, MayBe(state, db[Payment(p)]), <1>1, StatusGood, Zenon
<1> QED BY <1>2, RevisionOfRows, Zenon DEF Revises

LEMMA RelinkedRevises ==
  ASSUME NEW db, Good(db), NEW p \in Payments, NEW user, NEW new, new = Relinked(db, p, user)
  PROVE  Revises(db, new, {p})
<1>1. PICK old : old = db[Payment(p)]
  OBVIOUS
<1>2. PICK row : row = [old EXCEPT !.user = user]
  OBVIOUS
<1>3. IsPayment(old) /\ Spent(p, old) /\ DOMAIN db = Rows
  BY <1>1 DEF Good, Typed
<1>4. /\ DOMAIN row = PaymentFields /\ row.taxes = old.taxes /\ row.rest = old.rest
      /\ row.status = old.status /\ row.present = old.present
  BY <1>2, <1>3 DEF IsPayment, PaymentFields
<1>5. IsPayment(row) /\ Spent(p, row)
  BY <1>3, <1>4 DEF IsPayment, Spent, AllocatedOf
<1>6. Replaced(db, p, row, new)
  BY <1>1, <1>2, <1>3, RowsAre DEF Relinked, Replaced
<1>7. SameBut(db[Payment(p)].taxes, row.taxes, {})
  BY <1>1, <1>4 DEF SameBut
<1>8. Good(new) /\ Revision(db, new, {p}, {})
  BY <1>5, <1>6, <1>7, RowGood, Zenon
<1> QED BY <1>8, RevisionOfRows, Zenon DEF Revises

LEMMA ClearedRevises ==
  ASSUME NEW db, Good(db), NEW p \in Payments, NEW new, new = ClearAllocations(db, p)
  PROVE  Revises(db, new, {p}) /\ AllocatedOf(new[Payment(p)]) = 0
<1>1. Good(new) /\ Revision(db, new, {p}, BillsOf(db[Payment(p)])) /\ Cleared(db, p, new)
  BY ClearAllocationsGood, Zenon
<1>2. BillsOf(db[Payment(p)]) \subseteq Bills
  BY DEF BillsOf
<1>3. Revision(db, new, {p}, Bills)
  BY <1>1, <1>2, RevisionWider
<1>4. Untouched(new, p)
  BY <1>1, ClearedIs
<1>5. IsPayment(new[Payment(p)])
  BY <1>1 DEF Good, Typed
<1>6. AllocatedOf(new[Payment(p)]) = 0
  BY <1>4, <1>5, NoTaxesAre DEF Untouched
<1> QED BY <1>1, <1>3, <1>6 DEF Revises

LEMMA ExcludeRevises ==
  ASSUME NEW db, Good(db), NEW p \in Payments, NEW new, new = Exclude(db, p)
  PROVE  Revises(db, new, {p})
<1>1. PICK cleared : cleared = ClearAllocations(db, p)
  OBVIOUS
<1>2. Revises(db, cleared, {p}) /\ AllocatedOf(cleared[Payment(p)]) = 0
  BY <1>1, ClearedRevises
<1>3. PICK auto : auto = TRUE
  OBVIOUS
<1>4. PICK state : state = "EXEMPT"
  OBVIOUS
<1>5. DOMAIN cleared = Rows
  BY <1>2 DEF Revises, Good, Typed
<1>6. new = [cleared EXCEPT ![Payment(p)] = Marked(cleared[Payment(p)], state, auto)]
  BY <1>1, <1>3, <1>4, <1>5, RowsAre DEF Exclude, Marked
<1>7. MayBe(state, cleared[Payment(p)]) /\ Good(cleared)
  BY <1>2 DEF MayBe, Revises
<1>8. Revises(cleared, new, {p})
  BY <1>6, <1>7, MarkedRevises
<1> QED BY <1>2, <1>8, RevisesTwice

LEMMA RestoreRevises ==
  ASSUME NEW db, Good(db), NEW p \in Payments, NEW new, new = Restore(db, p)
  PROVE  Revises(db, new, {p})
<1>1. CASE ~db[Payment(p)].auto
  <2>1. new = db
    BY <1>1 DEF Restore
  <2> QED BY <2>1, RevisionSame DEF Revises
<1>2. CASE db[Payment(p)].auto
  <2>1. PICK cleared : cleared = ClearAllocations(db, p)
    OBVIOUS
  <2>2. Revises(db, cleared, {p}) /\ AllocatedOf(cleared[Payment(p)]) = 0
    BY <2>1, ClearedRevises
  <2>3. PICK auto : auto = FALSE
    OBVIOUS
  <2>4. PICK state : state = "PENDING"
    OBVIOUS
  <2>5. DOMAIN cleared = Rows
    BY <2>2 DEF Revises, Good, Typed
  <2>6. new = [cleared EXCEPT ![Payment(p)] = Marked(cleared[Payment(p)], state, auto)]
    BY <1>2, <2>1, <2>3, <2>4, <2>5, RowsAre DEF Restore, Marked
  <2>7. MayBe(state, cleared[Payment(p)]) /\ Good(cleared)
    BY <2>2, <2>4 DEF MayBe, Revises
  <2>8. Revises(cleared, new, {p})
    BY <2>6, <2>7, MarkedRevises
  <2> QED BY <2>2, <2>8, RevisesTwice
<1> QED BY <1>1, <1>2

LEMMA ReconciledRevises ==
  ASSUME NEW run, NEW db, Good(db), NEW p \in Payments, NEW new, new = Reconciled(run, db, p)
  PROVE  Revises(db, new, {p})
<1>1. PICK linked : linked = Relinked(db, p, UserFor(run.index, Payer[p], db[Payment(p)].user))
  OBVIOUS
<1>2. Revises(db, linked, {p})
  BY <1>1, RelinkedRevises
<1>3. Good(linked)
  BY <1>2 DEF Revises
<1>4. \/ new = Exclude(linked, p) \/ new = Restore(linked, p)
      \/ new = linked \/ new = db
  BY <1>1 DEF Reconciled
<1>5. CASE new = Exclude(linked, p)
  BY <1>2, <1>3, <1>5, ExcludeRevises, RevisesTwice
<1>6. CASE new = Restore(linked, p)
  BY <1>2, <1>3, <1>6, RestoreRevises, RevisesTwice
<1>7. CASE new = linked
  BY <1>2, <1>7
<1>8. CASE new = db
  BY <1>8, RevisionSame DEF Revises
<1> QED BY <1>4, <1>5, <1>6, <1>7, <1>8

LEMMA AllReconciledRevises ==
  ASSUME NEW run, NEW db, Good(db), NEW payments \in SUBSET Payments
  PROVE  Revises(db, AllReconciled(run, db, payments), payments)
<1>1. PICK seq : seq = SetToSeq(payments)
  OBVIOUS
<1>2. PICK n : n = Cardinality(payments)
  OBVIOUS
<1>3. IsFiniteSet(payments)
  BY FiniteNames, FS_Subset
<1>4. n \in Nat /\ DOMAIN seq = 1..n /\ \A i \in 1..n : seq[i] \in payments
  BY <1>1, <1>2, <1>3, OrderOf
<1> DEFINE Fits(f) == f = [s \in SUBSET DOMAIN seq |->
             IF s = {} THEN db ELSE Reconciled(run, f[s \ {Max(s)}], seq[Max(s)])]
<1>5. AllReconciled(run, db, payments) = (CHOOSE f : Fits(f))[DOMAIN seq]
  BY <1>1, Zenon DEF AllReconciled, FoldLeft, MapThenFoldSet
<1>6. \A acc, x : Combine("reconcile", run, acc, x) = Reconciled(run, acc, x)
  BY DEF Combine
<1>7. \A f : Folds("reconcile", run, db, seq, n, f) <=> Fits(f)
  BY <1>4, <1>6, Zenon DEF Folds
<1> HIDE DEF Fits
<1>8. PICK f : f = CHOOSE g : Fits(g)
  OBVIOUS
<1>9. \E g : Folds("reconcile", run, db, seq, n, g)
  BY <1>4, FoldsExists
<1>10. Fits(f)
  BY <1>7, <1>8, <1>9, Zenon
<1>11. Folds("reconcile", run, db, seq, n, f) /\ AllReconciled(run, db, payments) = f[1..n]
  BY <1>4, <1>5, <1>7, <1>8, <1>10, Zenon
<1>12. PICK t : Series("reconcile", run, db, seq, n, t) /\ t[n] = f[1..n]
  BY <1>4, <1>11, FoldsSeries
<1> DEFINE T == {k \in Nat : k <= n => Revises(db, t[k], payments)}
<1>13. 0 \in T
  <2>1. t[0] = db
    BY <1>12 DEF Series
  <2> QED BY <2>1, RevisionSame DEF Revises
<1>14. ASSUME NEW k \in Nat, k \in T
       PROVE  k + 1 \in T
  <2> SUFFICES ASSUME k + 1 <= n PROVE Revises(db, t[k + 1], payments)
    OBVIOUS
  <2>1. k <= n /\ k + 1 \in 1..n /\ (k + 1) - 1 = k
    BY <1>4
  <2>2. Revises(db, t[k], payments)
    BY <1>14, <2>1
  <2>3. PICK p : p = seq[k + 1]
    OBVIOUS
  <2>4. p \in payments /\ {p} \subseteq payments /\ p \in Payments
    BY <1>4, <2>1, <2>3
  <2>5. t[k + 1] = Reconciled(run, t[k], p)
    <3>1. t[k + 1] = Combine("reconcile", run, t[k], p)
      BY <1>12, <2>1, <2>3, Zenon DEF Series
    <3> QED BY <1>6, <3>1, Zenon
  <2>6. Revises(t[k], t[k + 1], {p})
    BY <2>2, <2>4, <2>5, ReconciledRevises DEF Revises
  <2>7. Revises(t[k], t[k + 1], payments)
    BY <2>4, <2>6, RevisionWider DEF Revises
  <2> QED BY <2>2, <2>7, RevisesTwice
<1>15. n \in T
  <2> HIDE DEF T
  <2> QED BY <1>4, <1>13, <1>14, NatSetInduction
<1>16. Revises(db, t[n], payments)
  BY <1>4, <1>15
<1> QED BY <1>11, <1>12, <1>16, Zenon

(***************************************************************************)
(* An adjustment of a bill, and its reversal.                              *)
(***************************************************************************)
Amended(db, b, row, new) == new = [db EXCEPT ![Bill(b)] = row]
LEMMA AmendedIs ==
  ASSUME NEW db, Good(db), NEW b \in Bills, NEW row, IsBill(row), NEW new, Amended(db, b, row, new)
  PROVE  /\ Typed(new) /\ OnlyBill(db, b, new) /\ new[Bill(b)] = row
         /\ \A x \in Bills : Allocated(new, x) = Allocated(db, x)
         /\ \A x \in Bills \ {b} : AddsUp(new, x)
         /\ \A p \in Payments : Spent(p, new[Payment(p)])
<1>1. DOMAIN db = Rows /\ Bill(b) \in Rows /\ Typed(db)
  BY RowsAre DEF Good, Typed
<1>2. new[Bill(b)] = row /\ DOMAIN new = Rows /\ \A r \in Rows : r # Bill(b) => new[r] = db[r]
  BY <1>1 DEF Amended
<1>3. OnlyBill(db, b, new)
  BY <1>1, <1>2, OnlyBillIs
<1>4. Typed(new)
  BY <1>1, <1>2, <1>3 DEF OnlyBill, Typed
<1>5. ASSUME NEW x \in Bills
      PROVE  Allocated(new, x) = Allocated(db, x)
  <2>1. \A p \in Payments : new[Payment(p)].taxes[x] = db[Payment(p)].taxes[x]
    BY <1>3 DEF OnlyBill
  <2> QED BY <2>1, AllocatedSame
<1>6. \A x \in Bills \ {b} : AddsUp(new, x)
  BY <1>3, <1>5 DEF OnlyBill, AddsUp, Good
<1>7. \A p \in Payments : Spent(p, new[Payment(p)])
  BY <1>3 DEF OnlyBill, Good
<1> QED BY <1>2, <1>3, <1>4, <1>5, <1>6, <1>7

Standing(bill, paid, new) ==
  IsBill(new) /\ Honest(new) /\ new.paid = paid /\ (bill.present => new.present)
LEMMA RecalculatedBillStands ==
  ASSUME NEW bill, IsBill(bill), NEW paid \in Nat, NEW new, new = RecalculatedBill(bill, paid)
  PROVE  Standing(bill, paid, new)
BY RecalculatedBillIs DEF Standing

(* create_assessment_adjustment recalculates the bill only.                *)
LEMMA AmendedAlone ==
  ASSUME NEW db, Good(db), NEW b \in Bills, NEW row, IsBill(row), row.present, NEW mid,
         Amended(db, b, row, mid), NEW new, new = RecalculateBill(mid, b)
  PROVE  /\ Good(new) /\ OnlyBill(db, b, new)
         /\ new[Bill(b)].present
<1>1. /\ Typed(mid) /\ OnlyBill(db, b, mid) /\ mid[Bill(b)] = row
      /\ \A x \in Bills : Allocated(mid, x) = Allocated(db, x)
      /\ \A x \in Bills \ {b} : AddsUp(mid, x)
      /\ \A p \in Payments : Spent(p, mid[Payment(p)])
  BY AmendedIs, Zenon
<1>2. OnlyBill(mid, b, new) /\ new[Bill(b)] = RecalculatedBill(mid[Bill(b)], Allocated(mid, b))
  BY <1>1, RecalculateBillIs, Zenon
<1>3. PICK paid : paid = Allocated(mid, b)
  OBVIOUS
<1>4. PICK fresh : fresh = new[Bill(b)]
  OBVIOUS
<1>5. paid \in Nat /\ fresh = RecalculatedBill(row, paid)
  BY <1>1, <1>2, <1>3, <1>4, ChargesAre
<1>6. IsBill(fresh) /\ Honest(fresh) /\ fresh.paid = paid /\ fresh.present
  <2>1. Standing(row, paid, fresh)
    BY <1>5, RecalculatedBillStands, Zenon
  <2> QED BY <2>1 DEF Standing
<1>7. OnlyBill(db, b, new)
  BY <1>1, <1>2 DEF OnlyBill, SameLines
<1>8. ASSUME NEW x \in Bills
      PROVE  AddsUp(new, x)
  <2>1. \A p \in Payments : new[Payment(p)].taxes[x] = mid[Payment(p)].taxes[x]
    BY <1>2 DEF OnlyBill
  <2>2. Allocated(new, x) = Allocated(mid, x)
    BY <2>1, AllocatedSame
  <2>3. CASE x = b
    BY <1>3, <1>4, <1>6, <2>2, <2>3 DEF AddsUp, Sound
  <2>4. CASE x # b
    BY <1>1, <1>2, <2>2, <2>4 DEF AddsUp, OnlyBill
  <2> QED BY <2>3, <2>4
<1>9. Typed(new)
  BY <1>1, <1>2, <1>4, <1>6 DEF Typed, OnlyBill
<1>10. \A p \in Payments : Spent(p, new[Payment(p)])
  BY <1>1, <1>2 DEF OnlyBill
<1> QED BY <1>4, <1>6, <1>7, <1>8, <1>9, <1>10 DEF Good

LEMMA AdjustmentIsInt ==
  ASSUME NEW bill, IsBill(bill),
         NEW action \in {"WAIVE_BALANCE", "VOID_BILL", "CREDIT", "DEBIT"}
  PROVE  AdjustmentOf(bill, action) \in Int
<1>1. bill.due \in Nat /\ bill.paid \in Nat /\ Debit \in Nat
  BY DebitAssumption DEF IsBill
<1>2. Outstanding(bill) \in Nat
  BY <1>1 DEF Outstanding
<1> QED BY <1>1, <1>2 DEF AdjustmentOf

LEMMA AdjustmentAdded ==
  ASSUME NEW db, Good(db), NEW b \in Bills, db[Bill(b)].present, NEW fresh,
         fresh = RecalculateBill(db, b), NEW amount \in Int, NEW mid,
         mid = [fresh EXCEPT ![Bill(b)].adjustments =
                  Append(@, [amount |-> amount, active |-> TRUE])],
         NEW new, new = RecalculateBill(mid, b)
  PROVE  Good(new) /\ OnlyBill(db, b, new) /\ new[Bill(b)].present
<1>1. Typed(db) /\ Sound(db[Bill(b)]) /\ db[Bill(b)].paid = Allocated(db, b)
  BY DEF Good, AddsUp
<1>2. /\ Typed(fresh) /\ OnlyBill(db, b, fresh) /\ Revision(db, fresh, {}, {b})
      /\ Sound(fresh[Bill(b)]) /\ fresh[Bill(b)].paid = db[Bill(b)].paid
  BY <1>1, RefreshedBill, Zenon
<1>3. Good(fresh)
  <2>1. ASSUME NEW x \in Bills
        PROVE  AddsUp(fresh, x)
    <3>1. \A p \in Payments : fresh[Payment(p)].taxes[x] = db[Payment(p)].taxes[x]
      BY <1>2 DEF OnlyBill
    <3>2. Allocated(fresh, x) = Allocated(db, x)
      BY <3>1, AllocatedSame
    <3>3. CASE x = b
      BY <1>1, <1>2, <3>2, <3>3 DEF AddsUp
    <3>4. CASE x # b
      BY <1>2, <3>2, <3>4 DEF AddsUp, OnlyBill, Good
    <3> QED BY <3>3, <3>4
  <2>2. \A p \in Payments : Spent(p, fresh[Payment(p)])
    BY <1>2 DEF OnlyBill, Good
  <2> QED BY <1>2, <2>1, <2>2 DEF Good
<1>4. PICK old : old = fresh[Bill(b)]
  OBVIOUS
<1>5. PICK longer : longer = Append(old.adjustments, [amount |-> amount, active |-> TRUE])
  OBVIOUS
<1>6. PICK row : row = [old EXCEPT !.adjustments = longer]
  OBVIOUS
<1>7. IsBill(old) /\ old.present /\ DOMAIN fresh = Rows
  BY <1>2, <1>4 DEF Typed, Revision, KeptBills, BillKept
<1>8. Amended(fresh, b, row, mid)
  BY <1>4, <1>5, <1>6, <1>7, RowsAre DEF Amended, IsBill, BillFields
<1>9. longer \in Adjustments
  BY <1>5, <1>7 DEF IsBill, Adjustments
<1>10. IsBill(row) /\ row.present
  BY <1>6, <1>7, <1>9 DEF IsBill, BillFields
<1>11. Good(new) /\ OnlyBill(fresh, b, new) /\ new[Bill(b)].present
  BY ONLY <1>3, <1>8, <1>10, b \in Bills, new = RecalculateBill(mid, b), AmendedAlone, Zenon
<1> QED BY <1>2, <1>11 DEF OnlyBill, SameLines

LEMMA AdjustmentReversed ==
  ASSUME NEW db, Good(db), NEW b \in Bills, NEW i \in DOMAIN db[Bill(b)].adjustments, NEW mid,
         mid = [db EXCEPT ![Bill(b)] = [@ EXCEPT !.adjustments[i].active = FALSE]],
         NEW new, Recalculation(mid, {b}, new)
  PROVE  /\ Good(new) /\ new[Bill(b)].present
         /\ \A p \in Payments : new[Payment(p)] = db[Payment(p)]
         /\ SameLines(db, new) /\ SameBills(db, new, {b}) /\ SamePeriods(db, new, {b})
<1>1. PICK old : old = db[Bill(b)]
  OBVIOUS
<1>2. IsBill(old) /\ Sound(old) /\ DOMAIN db = Rows
  BY <1>1 DEF Good, AddsUp, Typed
<1>3. PICK entry : entry = [old.adjustments[i] EXCEPT !.active = FALSE]
  OBVIOUS
<1>4. PICK shorter : shorter = [old.adjustments EXCEPT ![i] = entry]
  OBVIOUS
<1>5. PICK row : row = [old EXCEPT !.adjustments = shorter]
  OBVIOUS
<1>6. Amended(db, b, row, mid)
  <2>1. [old EXCEPT !.adjustments[i].active = FALSE] = row
    BY <1>1, <1>2, <1>3, <1>4, <1>5 DEF IsBill, BillFields
  <2> QED BY <1>1, <1>2, <2>1, RowsAre DEF Amended
<1>7. shorter \in Adjustments
  <2>1. PICK A : A = [amount : Int, active : BOOLEAN]
    OBVIOUS
  <2>2. old.adjustments \in Seq(A)
    BY <1>2, <2>1 DEF IsBill, Adjustments
  <2>3. old.adjustments[i] \in A
    BY <1>1, <2>2
  <2>4. entry \in A
    BY <1>3, <2>1, <2>3
  <2>5. shorter \in Seq(A)
    BY <1>1, <1>4, <2>2, <2>4
  <2> QED BY <2>1, <2>5 DEF Adjustments
<1>8. old.present
  <2>1. ASSUME ~old.present
        PROVE  FALSE
    <3>1. old.adjustments = <<>>
      BY <1>2, <2>1 DEF Sound, EmptyBill
    <3> QED BY <1>1, <3>1
  <2> QED BY <2>1
<1>9. IsBill(row) /\ row.present
  BY <1>2, <1>5, <1>7, <1>8 DEF IsBill, BillFields
<1>10. /\ Typed(mid) /\ OnlyBill(db, b, mid) /\ mid[Bill(b)] = row
       /\ \A x \in Bills : Allocated(mid, x) = Allocated(db, x)
       /\ \A x \in Bills \ {b} : AddsUp(mid, x)
       /\ \A p \in Payments : Spent(p, mid[Payment(p)])
  BY ONLY <1>6, <1>9, Good(db), b \in Bills, AmendedIs, Zenon
<1>11. {b} \in SUBSET Bills /\ \A x \in {b} : mid[Bill(x)].present
  BY <1>9, <1>10
<1>12. Good(new)
  BY <1>10, <1>11, RecalculationGood
<1>13. new[Bill(b)].present
  BY <1>10, <1>11, RecalculationTyped
<1>14. /\ \A p \in Payments : new[Payment(p)] = db[Payment(p)]
       /\ SameLines(db, new)
  BY <1>10, Zenon DEF Recalculation, OnlyBill, SameLines
<1>15. SameBills(db, new, {b}) /\ SamePeriods(db, new, {b})
  BY <1>10 DEF Recalculation, OnlyBill, SameBills, SamePeriods
<1> QED BY <1>12, <1>13, <1>14, <1>15

(***************************************************************************)
(* rebuild_assessments.                                                    *)
(***************************************************************************)
LEMMA RebuiltBillIs ==
  ASSUME NEW db, Good(db), NEW b \in Bills, NEW preferences, NEW new,
         new = RebuiltBill(db, b, preferences)
  PROVE  /\ IsBill(new) /\ Sound(new) /\ new.paid = Allocated(db, b)
         /\ db[Bill(b)].present /\ Decided(db, b) => new.present
<1>1. PICK lines : lines = LinesBilled(db, b, preferences)
  OBVIOUS
<1>2. PICK old : old = db[Bill(b)]
  OBVIOUS
<1>3. PICK paid : paid = Allocated(db, b)
  OBVIOUS
<1>4. IsBill(old) /\ Sound(old) /\ old.paid = paid /\ paid \in Nat
  BY <1>2, <1>3, ChargesAre DEF Good, AddsUp, Typed
<1>5. CASE lines # {}
  <2>1. PICK rebilled : rebilled = Rebilled(db, b, lines)
    OBVIOUS
  <2>2. new = RecalculatedBill(rebilled, paid)
    BY <1>1, <1>3, <1>5, <2>1, Zenon DEF RebuiltBill
  <2>3. PICK F : F = [l \in lines |-> LineTax(db, l)]
    OBVIOUS
  <2>4. lines \subseteq Lines /\ IsFiniteSet(lines)
    BY <1>1, FiniteNames, FS_Subset DEF LinesBilled
  <2>5. DOMAIN F = lines /\ Natural(F, lines) /\ Integral(F, lines)
    <3>1. \A l \in lines : LineTax(db, l) \in Nat
      BY <2>4, MoneyAssumption DEF LineTax, Lines
    <3> QED BY <2>3, <3>1 DEF Natural, Integral
  <2>6. SumOf(F) \in Nat
    BY <2>4, <2>5, SumOfIs, TotalInt
  <2>7. PICK tax : tax = SumOf(F)
    OBVIOUS
  <2>8. PICK user : user = db[Line(CHOOSE l \in lines : TRUE)].user
    OBVIOUS
  <2>9. PICK combined : combined = (b[2] \in Users)
    OBVIOUS
  <2>10. rebilled = [old EXCEPT !.present = TRUE, !.user = user, !.combined = combined,
                                !.calculated = tax, !.due = tax]
    BY <1>2, <2>1, <2>3, <2>7, <2>8, <2>9, Zenon DEF Rebilled
  <2>11. IsBill(rebilled) /\ rebilled.present
    BY <1>4, <2>6, <2>7, <2>10 DEF IsBill, BillFields
  <2>12. Standing(rebilled, paid, new)
    BY <1>4, <2>2, <2>11, RecalculatedBillStands, Zenon
  <2> QED BY <1>3, <2>11, <2>12 DEF Sound, Standing
<1>6. CASE lines = {}
  <2>1. new = Retired(db, b)
    BY <1>1, <1>6, Zenon DEF RebuiltBill
  <2>2. CASE old.present /\ Decided(db, b)
    <3>1. new = [old EXCEPT !.status = "REVIEW"]
      BY <1>2, <2>1, <2>2, Zenon DEF Retired
    <3>2. /\ DOMAIN new = BillFields /\ new.present /\ new.paid = old.paid /\ new.due = old.due
          /\ new.calculated = old.calculated /\ new.adjustment = old.adjustment
          /\ new.adjustments = old.adjustments
      BY <1>4, <2>2, <3>1 DEF IsBill, BillFields
    <3>3. IsBill(new)
      BY <1>4, <3>2 DEF IsBill
    <3>4. Sound(new)
      BY <1>4, <3>2 DEF Sound, Honest
    <3> QED BY <1>3, <1>4, <3>2, <3>3, <3>4
  <2>3. CASE ~ (old.present /\ Decided(db, b))
    <3>1. new = EmptyBill
      BY <1>2, <2>1, <2>3, Zenon DEF Retired
    <3>2. paid = 0
      <4>1. CASE ~old.present
        BY <1>4, <4>1, EmptyRows DEF Sound
      <4>2. CASE old.present
        <5>1. ~ (paid > 0)
          BY <1>3, <2>3, <4>2 DEF Decided
        <5> QED BY <1>4, <5>1
      <4> QED BY <4>1, <4>2
    <3> QED BY <1>2, <1>3, <2>3, <3>1, <3>2, EmptyRows
  <2> QED BY <2>2, <2>3
<1> QED BY <1>5, <1>6

Settled(db) == \A q \in Periods : SettledIn(db, q)
Survive(db, new) == \A b \in Bills : db[Bill(b)].present /\ Decided(db, b) => new[Bill(b)].present
LEMMA RebuildIs ==
  ASSUME NEW db, Good(db), NEW preferences, NEW new, new = RebuildAssessments(db, preferences)
  PROVE  /\ Good(new) /\ Settled(new) /\ Survive(db, new) /\ SameLines(db, new)
         /\ \A p \in Payments : new[Payment(p)] = db[Payment(p)]
<1>1. PICK mid : mid = [r \in Rows |-> IF r[1] = "bill" THEN RebuiltBill(db, r[2], preferences)
                                       ELSE db[r]]
  OBVIOUS
<1>2. new = RecalculatePeriods(mid, Bills)
  BY <1>1, Zenon DEF RebuildAssessments
<1>3. \A p \in Payments : mid[Payment(p)] = db[Payment(p)]
  BY <1>1, RowsAre, NameOf
<1>4. \A l \in Lines : mid[Line(l)] = db[Line(l)]
  BY <1>1, RowsAre, NameOf
<1>5. ASSUME NEW b \in Bills
      PROVE  mid[Bill(b)] = RebuiltBill(db, b, preferences)
  <2>1. PICK r : r = Bill(b)
    OBVIOUS
  <2>2. r \in Rows /\ r[1] = "bill" /\ r[2] = b
    BY <2>1, RowsAre, NameOf
  <2> QED BY <1>1, <2>1, <2>2
<1>6. Bills \in SUBSET Bills
  OBVIOUS
<1>7. /\ DOMAIN new = Rows
      /\ \A p \in Payments : new[Payment(p)] = mid[Payment(p)]
      /\ SameLines(mid, new)
      /\ \A b \in Bills : new[Bill(b)] = mid[Bill(b)]
      /\ \A q \in Periods : new[Period(q)] = IF q \in PeriodsOf(Bills) THEN PeriodTotals(new, q)
                                             ELSE mid[Period(q)]
  BY <1>2, <1>6, PeriodsRecalculated
<1>8. \A p \in Payments : new[Payment(p)] = db[Payment(p)]
  BY <1>3, <1>7
<1>9. ASSUME NEW b \in Bills
      PROVE  /\ IsBill(new[Bill(b)]) /\ AddsUp(new, b)
             /\ db[Bill(b)].present /\ Decided(db, b) => new[Bill(b)].present
  <2>1. PICK fresh : fresh = new[Bill(b)]
    OBVIOUS
  <2>2. fresh = RebuiltBill(db, b, preferences)
    BY <1>5, <1>7, <2>1
  <2>3. /\ IsBill(fresh) /\ Sound(fresh) /\ fresh.paid = Allocated(db, b)
        /\ db[Bill(b)].present /\ Decided(db, b) => fresh.present
    BY <2>2, RebuiltBillIs
  <2>4. Allocated(new, b) = Allocated(db, b)
    BY <1>8, AllocatedSame
  <2> QED BY <2>1, <2>3, <2>4 DEF AddsUp
<1>10. Good(new)
  <2>1. \A p \in Payments : IsPayment(new[Payment(p)]) /\ Spent(p, new[Payment(p)])
    BY <1>8 DEF Good, Typed
  <2> QED BY <1>7, <1>9, <2>1 DEF Good, Typed
<1>11. Settled(new)
  <2> SUFFICES ASSUME NEW q \in Periods PROVE SettledIn(new, q)
    BY DEF Settled
  <2>1. q \in PeriodsOf(Bills)
    <3>1. PICK c \in Characters : TRUE
      BY NamesAssumption
    <3>2. <<q, c>> \in Bills /\ <<q, c>>[1] = q
      BY DEF Bills, Keys
    <3> QED BY <3>2, Zenon DEF PeriodsOf
  <2> QED BY <1>7, <2>1 DEF SettledIn
<1>12. SameLines(db, new)
  BY <1>4, <1>7 DEF SameLines
<1> QED BY <1>8, <1>9, <1>10, <1>11, <1>12 DEF Survive

(***************************************************************************)
(* What a transaction sees: the committed rows under its own writes.  The  *)
(* commit of another transaction leaves alone the rows this one has locked *)
(* and what the payments give to the bills it has locked, so that its view *)
(* still adds up afterwards.                                               *)
(***************************************************************************)
ViewOf(db, w) == [r \in Rows |-> IF r \in DOMAIN w THEN w[r] ELSE db[r]]
Accounts(h) == (\A b \in Bills : Bill(b) \in h) /\ \A q \in Periods : Period(q) \in h
PaysNothing(w) == \A p \in Payments : Payment(p) \notin DOMAIN w
Respects(db, new, h) ==
  /\ \A r \in Rows \cap h : new[r] = db[r]
  /\ \A p \in Payments, b \in Bills :
       Bill(b) \in h => new[Payment(p)].taxes[b] = db[Payment(p)].taxes[b]

LEMMA ViewOfIs ==
  ASSUME NEW db, NEW w
  PROVE  /\ DOMAIN ViewOf(db, w) = Rows
         /\ \A r \in Rows : ViewOf(db, w)[r] = IF r \in DOMAIN w THEN w[r] ELSE db[r]
BY DEF ViewOf

LEMMA DecidedSame ==
  ASSUME NEW db, NEW new, NEW b \in Bills, Allocated(new, b) = Allocated(db, b),
         new[Bill(b)] = db[Bill(b)]
  PROVE  Decided(new, b) = Decided(db, b)
BY DEF Decided

LEMMA ViewGood ==
  ASSUME NEW db, NEW new, Good(new), NEW w, NEW h, DOMAIN w \subseteq h, Respects(db, new, h),
         Accounts(h) \/ PaysNothing(w), NEW old, old = ViewOf(db, w), Good(old),
         NEW view, view = ViewOf(new, w)
  PROVE  Good(view)
<1>1. /\ DOMAIN view = Rows
      /\ \A r \in Rows : view[r] = IF r \in DOMAIN w THEN w[r] ELSE new[r]
      /\ \A r \in Rows : old[r] = IF r \in DOMAIN w THEN w[r] ELSE db[r]
  BY ViewOfIs
<1>2. \A r \in Rows \cap h : view[r] = old[r]
  BY <1>1 DEF Respects
<1>3. \A r \in Rows : view[r] = old[r] \/ (r \notin DOMAIN w /\ view[r] = new[r])
  BY <1>1
<1>4. Typed(view)
  <2>1. \A p \in Payments : IsPayment(view[Payment(p)])
    BY <1>3, RowsAre DEF Good, Typed
  <2>2. \A b \in Bills : IsBill(view[Bill(b)])
    BY <1>3, RowsAre DEF Good, Typed
  <2> QED BY <1>1, <2>1, <2>2 DEF Typed
<1>5. \A p \in Payments : Spent(p, view[Payment(p)])
  BY <1>3, RowsAre DEF Good
<1>6. ASSUME NEW b \in Bills, Bill(b) \in h
      PROVE  AddsUp(view, b)
  <2>1. \A p \in Payments : view[Payment(p)].taxes[b] = old[Payment(p)].taxes[b]
    BY <1>1, <1>6, RowsAre DEF Respects
  <2>2. Allocated(view, b) = Allocated(old, b)
    BY <2>1, AllocatedSame
  <2>3. view[Bill(b)] = old[Bill(b)]
    BY <1>2, <1>6, RowsAre
  <2> QED BY <2>2, <2>3 DEF AddsUp, Good
<1>7. ASSUME NEW b \in Bills, Bill(b) \notin h
      PROVE  AddsUp(view, b)
  <2>1. PaysNothing(w)
    BY <1>7 DEF Accounts
  <2>2. \A p \in Payments : view[Payment(p)] = new[Payment(p)]
    BY <1>1, <2>1, RowsAre DEF PaysNothing
  <2>3. Allocated(view, b) = Allocated(new, b)
    BY <2>2, AllocatedSame
  <2>4. view[Bill(b)] = new[Bill(b)]
    BY <1>1, <1>7, RowsAre
  <2> QED BY <2>3, <2>4 DEF AddsUp, Good
<1> QED BY <1>4, <1>5, <1>6, <1>7 DEF Good

LEMMA ViewSurvives ==
  ASSUME NEW db, NEW new, NEW w, NEW h, DOMAIN w \subseteq h, Respects(db, new, h),
         NEW old, old = ViewOf(db, w), Survive(db, old), NEW view, view = ViewOf(new, w)
  PROVE  Survive(new, view)
<1> SUFFICES ASSUME NEW b \in Bills, new[Bill(b)].present, Decided(new, b)
             PROVE  view[Bill(b)].present
  BY DEF Survive
<1>1. /\ view[Bill(b)] = IF Bill(b) \in DOMAIN w THEN w[Bill(b)] ELSE new[Bill(b)]
      /\ old[Bill(b)] = IF Bill(b) \in DOMAIN w THEN w[Bill(b)] ELSE db[Bill(b)]
  BY ViewOfIs, RowsAre
<1>2. CASE Bill(b) \in DOMAIN w
  <2>1. Bill(b) \in h /\ new[Bill(b)] = db[Bill(b)]
    BY <1>2, RowsAre DEF Respects
  <2>2. \A p \in Payments : new[Payment(p)].taxes[b] = db[Payment(p)].taxes[b]
    BY <2>1 DEF Respects
  <2>3. Allocated(new, b) = Allocated(db, b)
    BY <2>2, AllocatedSame
  <2>4. db[Bill(b)].present /\ Decided(db, b)
    BY <2>1, <2>3, DecidedSame
  <2> QED BY <1>1, <1>2, <2>4 DEF Survive
<1>3. CASE Bill(b) \notin DOMAIN w
  BY <1>1, <1>3
<1> QED BY <1>2, <1>3

LEMMA SameBillsSettle ==
  ASSUME NEW db, NEW new, \A b \in Bills : new[Bill(b)] = db[Bill(b)],
         \A q \in Periods : new[Period(q)] = db[Period(q)], Settled(db)
  PROVE  Settled(new)
<1> SUFFICES ASSUME NEW q \in Periods PROVE SettledIn(new, q)
  BY DEF Settled
<1>1. SameTotals(db, new, q)
  BY DEF SameTotals, Bills
<1>2. PeriodTotals(new, q) = PeriodTotals(db, q)
  BY <1>1, PeriodTotalsSame
<1> QED BY <1>2 DEF Settled, SettledIn

SameAccounts(old, view) ==
  /\ \A b \in Bills : view[Bill(b)] = old[Bill(b)]
  /\ \A q \in Periods : view[Period(q)] = old[Period(q)]
LEMMA ViewSettles ==
  ASSUME NEW db, NEW new, NEW w, NEW h, Respects(db, new, h), Accounts(h), Settled(ViewOf(db, w))
  PROVE  Settled(ViewOf(new, w))
<1>1. PICK old : old = ViewOf(db, w)
  OBVIOUS
<1>2. PICK view : view = ViewOf(new, w)
  OBVIOUS
<1>3. \A r \in Rows \cap h : view[r] = old[r]
  BY <1>1, <1>2, ViewOfIs DEF Respects
<1>4. SameAccounts(old, view)
  BY <1>3, RowsAre DEF Accounts, SameAccounts
<1>5. Settled(view)
  BY <1>1, <1>4, SameBillsSettle DEF SameAccounts
<1> QED BY <1>2, <1>5

(***************************************************************************)
(* What is true of a transaction: db are the committed rows, h the rows it *)
(* has locked, w those it has written, run where it is.                    *)
(***************************************************************************)
Job(db, h, w, run) ==
  /\ "at" \in DOMAIN run
  /\ run.at = "decide" => \A p \in run.payments : /\ p \in Payments /\ Payment(p) \in h
                                                  /\ db[Payment(p)].present
  /\ run.at = "editing" => run.payment \in Payments /\ IsPayment(run.row) /\ run.row.present
  /\ run.at \in {"adjusted", "totalled", "rebuild", "import"} => PaysNothing(w)
  /\ run.at = "rebuild" => /\ \A q \in Periods : Period(q) \in h
                           /\ \A b \in Bills : Bill(b) \notin DOMAIN w
  /\ run.at = "payments" => run.scope \subseteq Payments
  /\ run.at \in {"import", "payments", "notify"} => Accounts(h) /\ Settled(ViewOf(db, w))
Holder(db, h, w, run) ==
  /\ h \subseteq Rows /\ DOMAIN w \subseteq h
  /\ Good(ViewOf(db, w)) /\ Survive(db, ViewOf(db, w))
  /\ Accounts(h) \/ PaysNothing(w)
  /\ Job(db, h, w, run)

LEMMA HolderKeeps ==
  ASSUME NEW db, NEW new, Good(new), NEW w, NEW h, NEW run, Holder(db, h, w, run),
         Respects(db, new, h)
  PROVE  Holder(new, h, w, run)
<1>1. PICK old : old = ViewOf(db, w)
  OBVIOUS
<1>2. PICK view : view = ViewOf(new, w)
  OBVIOUS
<1>3. /\ h \subseteq Rows /\ DOMAIN w \subseteq h /\ Good(old) /\ Survive(db, old)
      /\ Accounts(h) \/ PaysNothing(w)
      /\ Job(db, h, w, run)
  BY <1>1 DEF Holder
<1>4. Good(view)
  BY <1>1, <1>2, <1>3, ViewGood
<1>5. Survive(new, view)
  BY <1>1, <1>2, <1>3, ViewSurvives
<1>6. ASSUME NEW at, at = run.at, at \in {"import", "payments", "notify"}
      PROVE  Accounts(h) /\ Settled(view)
  <2>1. Accounts(h) /\ Settled(ViewOf(db, w))
    BY <1>3, <1>6 DEF Job
  <2> QED BY <1>2, <1>3, <2>1, ViewSettles
<1>7. run.at = "decide" => \A p \in run.payments : /\ p \in Payments /\ Payment(p) \in h
                                                   /\ new[Payment(p)].present
  BY <1>3, RowsAre DEF Job, Respects
<1>8. Job(new, h, w, run)
  BY <1>2, <1>3, <1>6, <1>7 DEF Job
<1> QED BY <1>2, <1>3, <1>4, <1>5, <1>8 DEF Holder

LEMMA NothingHeld ==
  ASSUME NEW db, Good(db)
  PROVE  Holder(db, {}, <<>>, Idle)
<1>1. DOMAIN <<>> = {}
  OBVIOUS
<1>2. PICK view : view = ViewOf(db, <<>>)
  OBVIOUS
<1>3. DOMAIN view = Rows /\ \A r \in Rows : view[r] = db[r]
  BY <1>1, <1>2, ViewOfIs
<1>4. /\ \A p \in Payments : view[Payment(p)] = db[Payment(p)]
      /\ \A b \in Bills : view[Bill(b)] = db[Bill(b)]
  BY <1>3, RowsAre
<1>5. \A b \in Bills : Allocated(view, b) = Allocated(db, b)
  BY <1>4, AllocatedSame
<1>6. Good(view)
  BY <1>3, <1>4, <1>5 DEF Good, Typed, AddsUp
<1>7. Survive(db, view)
  BY <1>4 DEF Survive
<1>8. Job(db, {}, <<>>, Idle)
  BY DEF Job, Idle
<1> QED BY <1>1, <1>2, <1>6, <1>7, <1>8 DEF Holder, PaysNothing

(***************************************************************************)
(* The inductive invariant: the committed rows add up, no two transactions *)
(* lock one row, and every transaction is as above.                        *)
(***************************************************************************)
Locking ==
  /\ DOMAIN held = Tasks /\ DOMAIN writes = Tasks /\ DOMAIN task = Tasks
  /\ \A t, u \in Tasks : t # u => held[t] \cap held[u] = {}
BillingInv ==
  /\ Good(saved) /\ Locking
  /\ \A t \in Tasks : Holder(saved, held[t], writes[t], task[t])
Local(t, db) == \A u \in Tasks \ {t} : Respects(saved, db, held[u])

LEMMA Standstill ==
  ASSUME BillingInv, UNCHANGED <<saved, held, writes, task>>
  PROVE  BillingInv'
BY DEF BillingInv, Locking

LEMMA TaskKeeps ==
  ASSUME BillingInv, NEW t \in Tasks, NEW next, task' = [task EXCEPT ![t] = next],
         UNCHANGED <<saved, held, writes>>, Job(saved, held[t], writes[t], next)
  PROVE  BillingInv'
<1>1. ASSUME NEW u \in Tasks
      PROVE  Holder(saved, held[u], writes[u], task'[u])
  <2>1. CASE u = t
    BY <2>1 DEF BillingInv, Locking, Holder
  <2>2. CASE u # t
    BY <2>2 DEF BillingInv, Locking
  <2> QED BY <2>1, <2>2
<1>2. Good(saved') /\ Locking'
  BY DEF BillingInv, Locking
<1>3. \A u \in Tasks : Holder(saved', held'[u], writes'[u], task'[u])
  BY <1>1
<1> QED BY <1>2, <1>3 DEF BillingInv

LEMMA CommitKeeps ==
  ASSUME BillingInv, NEW t \in Tasks, NEW db, Good(db), Local(t, db), Commit(t, db)
  PROVE  BillingInv'
<1>1. /\ saved' = db /\ held' = [held EXCEPT ![t] = {}]
      /\ writes' = [writes EXCEPT ![t] = <<>>] /\ task' = [task EXCEPT ![t] = Idle]
  BY DEF Commit, End
<1>2. DOMAIN held = Tasks /\ DOMAIN writes = Tasks /\ DOMAIN task = Tasks
  BY DEF BillingInv, Locking
<1>3. Locking'
  BY <1>1 DEF BillingInv, Locking
<1>4. ASSUME NEW u \in Tasks
      PROVE  Holder(db, held'[u], writes'[u], task'[u])
  <2>1. CASE u = t
    <3>1. held'[u] = {} /\ writes'[u] = <<>> /\ task'[u] = Idle
      BY <1>1, <1>2, <2>1
    <3>2. Holder(db, {}, <<>>, Idle)
      BY NothingHeld
    <3> QED BY <3>1, <3>2
  <2>2. CASE u # t
    <3>1. held'[u] = held[u] /\ writes'[u] = writes[u] /\ task'[u] = task[u]
      BY <1>1, <1>2, <2>2
    <3>2. Respects(saved, db, held[u]) /\ Holder(saved, held[u], writes[u], task[u])
      BY <2>2 DEF Local, BillingInv
    <3>3. Holder(db, held[u], writes[u], task[u])
      BY <3>2, HolderKeeps
    <3> QED BY <3>1, <3>3
  <2> QED BY <2>1, <2>2
<1>5. Good(saved')
  BY <1>1
<1>6. \A u \in Tasks : Holder(saved', held'[u], writes'[u], task'[u])
  BY <1>1, <1>4
<1> QED BY <1>3, <1>5, <1>6 DEF BillingInv

LEMMA EndKeeps ==
  ASSUME BillingInv, NEW t \in Tasks, End(t), UNCHANGED saved
  PROVE  BillingInv'
<1>1. Commit(t, saved)
  BY DEF Commit
<1>2. Good(saved) /\ Local(t, saved)
  BY DEF BillingInv, Local, Respects
<1> QED BY <1>1, <1>2, CommitKeeps

(* The writes of a statement: what its transaction then sees.              *)
LEMMA SameRowsGood ==
  ASSUME NEW db, Good(db), NEW new, DOMAIN new = Rows, \A r \in Rows : new[r] = db[r]
  PROVE  Good(new) /\ (Settled(db) => Settled(new))
<1>1. /\ \A p \in Payments : new[Payment(p)] = db[Payment(p)]
      /\ \A b \in Bills : new[Bill(b)] = db[Bill(b)]
      /\ \A q \in Periods : new[Period(q)] = db[Period(q)]
  BY RowsAre
<1>2. \A b \in Bills : Allocated(new, b) = Allocated(db, b)
  BY <1>1, AllocatedSame
<1>3. Good(new)
  BY <1>1, <1>2 DEF Good, Typed, AddsUp
<1>4. Settled(db) => Settled(new)
  BY <1>1, SameBillsSettle
<1> QED BY <1>3, <1>4

LEMMA WrittenView ==
  ASSUME NEW db, NEW w, w = Changed(db), NEW view, view = ViewOf(saved, w)
  PROVE  /\ DOMAIN view = Rows /\ \A r \in Rows : view[r] = db[r]
         /\ \A r \in DOMAIN w : r \in Rows /\ db[r] # saved[r]
<1>1. DOMAIN w = {r \in Rows : db[r] # saved[r]} /\ \A r \in DOMAIN w : w[r] = db[r]
  BY DEF Changed
<1>2. view = [r \in Rows |-> IF r \in DOMAIN w THEN w[r] ELSE saved[r]]
  BY DEF ViewOf
<1> QED BY <1>1, <1>2

Confined(db, new, locks) == \A r \in Rows \ locks : new[r] = db[r]
LEMMA WriteKeeps ==
  ASSUME BillingInv, NEW t \in Tasks, NEW locks \in SUBSET Rows, NEW db, NEW next, Write(t, locks, db, next),
         Good(db), Confined(saved, db, held[t] \cup locks), Survive(saved, db),
         Accounts(held[t] \cup locks) \/ (\A p \in Payments : db[Payment(p)] = saved[Payment(p)]),
         Job(saved, held[t] \cup locks, Changed(db), next)
  PROVE  BillingInv'
<1>1. /\ Unlocked(t, locks) /\ held' = [held EXCEPT ![t] = held[t] \cup locks]
      /\ writes' = [writes EXCEPT ![t] = Changed(db)]
      /\ task' = [task EXCEPT ![t] = next] /\ saved' = saved
  BY DEF Write
<1>2. DOMAIN held = Tasks /\ DOMAIN writes = Tasks /\ DOMAIN task = Tasks
  BY DEF BillingInv, Locking
<1>3. Locking'
  <2>1. \A u \in Tasks : held'[u] = IF u = t THEN held[t] \cup locks ELSE held[u]
    BY <1>1, <1>2
  <2>2. \A u \in Tasks \ {t} : held[u] \cap locks = {}
    BY <1>1 DEF Unlocked
  <2>3. DOMAIN held' = Tasks /\ DOMAIN writes' = Tasks /\ DOMAIN task' = Tasks
    BY <1>1, <1>2
  <2>4. \A u, v \in Tasks : u # v => held'[u] \cap held'[v] = {}
    BY <2>1, <2>2 DEF BillingInv, Locking
  <2> QED BY <2>3, <2>4 DEF Locking
<1>4. PICK h : h = held[t] \cup locks
  OBVIOUS
<1>5. PICK w : w = Changed(db)
  OBVIOUS
<1>6. Holder(saved, h, w, next)
  <2>1. PICK view : view = ViewOf(saved, w)
    OBVIOUS
  <2>2. /\ DOMAIN view = Rows /\ \A r \in Rows : view[r] = db[r]
        /\ \A r \in DOMAIN w : r \in Rows /\ db[r] # saved[r]
    BY <1>5, <2>1, WrittenView
  <2>3. Good(view)
    BY <2>2, SameRowsGood
  <2>4. Survive(saved, view)
    BY <2>2, RowsAre DEF Survive
  <2>5. held[t] \subseteq Rows
    BY DEF BillingInv, Holder
  <2>6. h \subseteq Rows /\ DOMAIN w \subseteq h
    BY <1>4, <2>2, <2>5 DEF Confined
  <2>7. Accounts(h) \/ PaysNothing(w)
    BY <1>4, <2>2 DEF PaysNothing
  <2>8. Job(saved, h, w, next)
    BY <1>4, <1>5
  <2> QED BY <2>1, <2>3, <2>4, <2>6, <2>7, <2>8 DEF Holder
<1>7. ASSUME NEW u \in Tasks
      PROVE  Holder(saved, held'[u], writes'[u], task'[u])
  <2>1. CASE u = t
    <3>1. held'[u] = h /\ writes'[u] = w /\ task'[u] = next
      BY <1>1, <1>2, <1>4, <1>5, <2>1
    <3> QED BY <1>6, <3>1
  <2>2. CASE u # t
    <3>1. held'[u] = held[u] /\ writes'[u] = writes[u] /\ task'[u] = task[u]
      BY <1>1, <1>2, <2>2
    <3> QED BY <3>1 DEF BillingInv
  <2> QED BY <2>1, <2>2
<1>8. Good(saved')
  BY <1>1 DEF BillingInv
<1>9. \A u \in Tasks : Holder(saved', held'[u], writes'[u], task'[u])
  BY <1>1, <1>7
<1> QED BY <1>3, <1>8, <1>9 DEF BillingInv

(* The rows another transaction has locked are out of the way of a         *)
(* revision whose rows are free.                                           *)
LEMMA RevisionLocal ==
  ASSUME BillingInv, NEW t \in Tasks, NEW db, NEW payments \in SUBSET Payments, NEW bills \in SUBSET Bills,
         Revision(saved, db, payments, bills), Unlocked(t, {Payment(p) : p \in payments}),
         Unlocked(t, BillAndPeriodRows(bills))
  PROVE  Local(t, db)
<1> SUFFICES ASSUME NEW u \in Tasks \ {t} PROVE Respects(saved, db, held[u])
  BY DEF Local
<1>1. \A p \in payments : Payment(p) \notin held[u]
  BY DEF Unlocked
<1>2. held[u] \cap BillAndPeriodRows(bills) = {}
  BY DEF Unlocked
<1>3. \A b \in bills : Bill(b) \notin held[u] /\ Period(b[1]) \notin held[u]
  BY <1>2 DEF BillAndPeriodRows
<1>4. ASSUME NEW p \in Payments, Payment(p) \in held[u]
      PROVE  db[Payment(p)] = saved[Payment(p)]
  BY <1>1, <1>4 DEF Revision, SamePayments
<1>5. ASSUME NEW b \in Bills, Bill(b) \in held[u]
      PROVE  /\ db[Bill(b)] = saved[Bill(b)]
             /\ \A p \in Payments : db[Payment(p)].taxes[b] = saved[Payment(p)].taxes[b]
  BY <1>3, <1>5 DEF Revision, SameBills, SameTaxes
<1>6. ASSUME NEW q \in Periods, Period(q) \in held[u]
      PROVE  db[Period(q)] = saved[Period(q)]
  <2>1. q \notin PeriodsOf(bills)
    BY <1>3, <1>6 DEF PeriodsOf
  <2> QED BY <2>1 DEF Revision, SamePeriods
<1>7. \A l \in Lines : db[Line(l)] = saved[Line(l)]
  BY DEF Revision, SameLines
<1>8. \A r \in Rows \cap held[u] : db[r] = saved[r]
  BY <1>4, <1>5, <1>6, <1>7, RowsAre
<1> QED BY <1>5, <1>8 DEF Respects

LEMMA AllocatedNothing ==
  ASSUME NEW db, NEW b \in Bills, \A p \in Payments : db[Payment(p)].taxes[b] = 0
  PROVE  Allocated(db, b) = 0
<1>1. PICK F : F = [p \in Payments |-> db[Payment(p)].taxes[b]]
  OBVIOUS
<1>2. DOMAIN F = Payments /\ \A p \in Payments : F[p] = 0
  BY <1>1
<1>3. Integral(F, Payments)
  BY <1>2 DEF Integral
<1>4. SumOf(F) = Total(F, Payments) /\ Total(F, Payments) = 0
  BY <1>2, <1>3, SumOfIs, TotalZero, FiniteNames
<1> QED BY <1>1, <1>4 DEF Allocated
LEMMA NothingAllocated ==
  AllocatedOf(EmptyPayment) = 0
<1>1. IsPayment(EmptyPayment) /\ EmptyPayment.taxes = NoTaxes
  BY EmptyRows
<1>2. EmptyPayment.rest = 0
  BY DEF EmptyPayment
<1>3. PICK row : row = EmptyPayment
  OBVIOUS
<1>4. AllocatedOf(row) = row.rest
  BY <1>1, <1>3, NoTaxesAre
<1> QED BY <1>2, <1>3, <1>4

(***************************************************************************)
(* The initial rows.                                                       *)
(***************************************************************************)
LEMMA StartsWithEmptyRows ==
  ASSUME BillingInit
  PROVE  BillingInv
<1>1. /\ DOMAIN saved = Rows
      /\ \A p \in Payments : saved[Payment(p)] = EmptyPayment
      /\ \A b \in Bills : saved[Bill(b)] = EmptyBill
  <2>1. saved = [r \in Rows |-> CASE r[1] = "payment" -> EmptyPayment
                                  [] r[1] = "bill" -> EmptyBill
                                  [] r[1] = "period" -> EmptyPeriod
                                  [] r[1] = "line" -> EmptyLine]
    BY DEF BillingInit
  <2>2. ASSUME NEW p \in Payments PROVE saved[Payment(p)] = EmptyPayment
    <3>1. Payment(p)[1] = "payment"
      BY DEF Payment
    <3>2. Payment(p) \in Rows
      BY RowsAre
    <3> QED BY <2>1, <3>1, <3>2
  <2>3. ASSUME NEW b \in Bills PROVE saved[Bill(b)] = EmptyBill
    <3>1. Bill(b)[1] = "bill"
      BY DEF Bill
    <3>2. Bill(b) \in Rows
      BY RowsAre
    <3> QED BY <2>1, <3>1, <3>2
  <2> QED BY <2>1, <2>2, <2>3
<1>2. ASSUME NEW p \in Payments
      PROVE  IsPayment(saved[Payment(p)]) /\ Spent(p, saved[Payment(p)])
  <2>1. AllocatedOf(EmptyPayment) = 0
    BY NothingAllocated
  <2>2. Amount[p] \in Nat
    BY MoneyAssumption
  <2>3. EmptyPayment.status # "EXEMPT"
    BY DEF EmptyPayment
  <2> QED BY <1>1, <2>1, <2>2, <2>3, EmptyRows DEF Spent
<1>3. ASSUME NEW b \in Bills
      PROVE  IsBill(saved[Bill(b)]) /\ AddsUp(saved, b)
  <2>1. \A p \in Payments : saved[Payment(p)].taxes[b] = 0
    BY <1>1, EmptyRows DEF NoTaxes
  <2>2. Allocated(saved, b) = 0
    BY <2>1, AllocatedNothing
  <2> QED BY <1>1, <2>2, EmptyRows DEF AddsUp
<1>4. Good(saved)
  BY <1>1, <1>2, <1>3 DEF Good, Typed
<1>5. \A t \in Tasks : held[t] = {} /\ writes[t] = <<>> /\ task[t] = Idle
  BY DEF BillingInit
<1>6. Locking
  BY DEF BillingInit, Locking
<1>7. ASSUME NEW t \in Tasks
      PROVE  Holder(saved, held[t], writes[t], task[t])
  <2>1. Holder(saved, {}, <<>>, Idle)
    BY <1>4, NothingHeld
  <2> QED BY <1>5, <2>1
<1> QED BY <1>4, <1>6, <1>7 DEF BillingInv

(***************************************************************************)
(* Every operation of a director keeps the invariant.                      *)
(***************************************************************************)
LEMMA AgentsAreTasks ==
  Directors \subseteq Tasks /\ Audits \subseteq Tasks
BY DEF Tasks

LEMMA LockPaymentsKeeps ==
  ASSUME BillingInv, NEW d \in Tasks, NEW payments \in SUBSET Payments, NEW disposition,
         LockPayments(d, payments, disposition)
  PROVE  BillingInv'
<1>1. PICK next : next = [at |-> "decide", payments |-> payments, disposition |-> disposition]
  OBVIOUS
<1>2. PICK locks : locks = {Payment(p) : p \in payments}
  OBVIOUS
<1>3. Write(d, locks, saved, next) /\ \A p \in payments : saved[Payment(p)].present
  BY <1>1, <1>2, Zenon DEF LockPayments
<1>4. locks \in SUBSET Rows /\ \A p \in payments : Payment(p) \in locks
  BY <1>2, RowsAre
<1>5. Good(saved) /\ Survive(saved, saved) /\ Confined(saved, saved, held[d] \cup locks)
  BY DEF BillingInv, Survive, Confined
<1>6. Job(saved, held[d] \cup locks, Changed(saved), next)
  <2>1. "at" \in DOMAIN next /\ next.at = "decide" /\ next.payments = payments
    BY <1>1
  <2> QED BY <1>3, <1>4, <2>1 DEF Job
<1> QED BY <1>3, <1>4, <1>5, <1>6, WriteKeeps

LEMMA DecideKeeps ==
  ASSUME BillingInv, NEW d \in Tasks, Decide(d)
  PROVE  BillingInv' /\ Deciding(saved, task[d].payments, saved')
<1>1. PICK payments : payments = task[d].payments
  OBVIOUS
<1>2. PICK bills : bills = ContextOf(saved, payments)
  OBVIOUS
<1>3. PICK db : db = Decisions(saved, payments, task[d].disposition)
  OBVIOUS
<1>4. /\ Stage(d, "decide") /\ Unlocked(d, BillAndPeriodRows(bills)) /\ Commit(d, db)
  BY <1>1, <1>2, <1>3, Zenon DEF Decide, ContextOf
<1>5. Good(saved) /\ Holder(saved, held[d], writes[d], task[d])
  BY DEF BillingInv
<1>6. \A p \in payments : /\ p \in Payments /\ Payment(p) \in held[d]
                          /\ saved[Payment(p)].present
  BY <1>1, <1>4, <1>5 DEF Holder, Job, Stage
<1>7. payments \in SUBSET Payments
  BY <1>6
<1>8. Deciding(saved, payments, db)
  BY <1>3, <1>5, <1>6, <1>7, DecisionsGood
<1>9. bills \in SUBSET Bills
  BY <1>2 DEF ContextOf, ContextBills, BillsOf, SubjectBills
<1>10. Unlocked(d, {Payment(p) : p \in payments})
  <2> SUFFICES ASSUME NEW u \in Tasks \ {d}, NEW p \in payments PROVE Payment(p) \notin held[u]
    BY DEF Unlocked
  <2> QED BY <1>6 DEF BillingInv, Locking
<1>11. Good(db) /\ Revision(saved, db, payments, bills)
  BY <1>2, <1>8 DEF Deciding
<1>12. Local(d, db)
  BY <1>4, <1>7, <1>9, <1>10, <1>11, RevisionLocal
<1>13. BillingInv'
  BY <1>4, <1>11, <1>12, CommitKeeps
<1>14. saved' = db
  BY <1>4 DEF Commit
<1> QED BY <1>1, <1>8, <1>13, <1>14

LEMMA AdjustBillKeeps ==
  ASSUME BillingInv, NEW d \in Tasks, NEW b \in Bills,
         NEW action \in {"WAIVE_BALANCE", "VOID_BILL", "CREDIT", "DEBIT"}, AdjustBill(d, b, action)
  PROVE  BillingInv'
<1>1. PICK fresh : fresh = RecalculateBill(saved, b)
  OBVIOUS
<1>2. PICK amount : amount = AdjustmentOf(fresh[Bill(b)], action)
  OBVIOUS
<1>3. PICK mid : mid = [fresh EXCEPT ![Bill(b)].adjustments =
                          Append(@, [amount |-> amount, active |-> TRUE])]
  OBVIOUS
<1>4. PICK db : db = RecalculateBill(mid, b)
  OBVIOUS
<1>5. PICK next : next = [at |-> "adjusted", period |-> b[1]]
  OBVIOUS
<1>6. PICK locks : locks = {Bill(b)}
  OBVIOUS
<1>7. saved[Bill(b)].present /\ Write(d, locks, db, next)
  BY <1>1, <1>2, <1>3, <1>4, <1>5, <1>6, Zenon DEF AdjustBill
<1>8. Good(saved)
  BY DEF BillingInv
<1>9. amount \in Int
  <2>1. Typed(saved) /\ Sound(saved[Bill(b)]) /\ saved[Bill(b)].paid = Allocated(saved, b)
    BY <1>8 DEF Good, AddsUp
  <2>2. /\ Typed(fresh) /\ Revision(saved, fresh, {}, {b}) /\ OnlyBill(saved, b, fresh)
        /\ Sound(fresh[Bill(b)]) /\ fresh[Bill(b)].paid = saved[Bill(b)].paid
    BY <1>1, <1>7, <2>1, RefreshedBill
  <2>3. IsBill(fresh[Bill(b)])
    BY <2>2 DEF Typed
  <2> QED BY <1>2, <2>3, AdjustmentIsInt
<1>10. Good(db) /\ OnlyBill(saved, b, db) /\ db[Bill(b)].present
  BY <1>1, <1>3, <1>4, <1>7, <1>8, <1>9, AdjustmentAdded
<1>11. \A p \in Payments : db[Payment(p)] = saved[Payment(p)]
  BY <1>10 DEF OnlyBill
<1>12. Survive(saved, db)
  BY <1>10 DEF Survive, OnlyBill
<1>13. Confined(saved, db, held[d] \cup locks)
  <2> SUFFICES ASSUME NEW r \in Rows, r # Bill(b) PROVE db[r] = saved[r]
    BY <1>6 DEF Confined
  <2> QED BY <1>10, RowsAre DEF OnlyBill, SameLines
<1>14. locks \in SUBSET Rows
  BY <1>6, RowsAre
<1>15. Job(saved, held[d] \cup locks, Changed(db), next)
  <2>1. "at" \in DOMAIN next /\ next.at = "adjusted"
    BY <1>5
  <2>2. PaysNothing(Changed(db))
    BY <1>11 DEF PaysNothing, Changed
  <2> QED BY <2>1, <2>2 DEF Job
<1> QED BY <1>7, <1>10, <1>11, <1>12, <1>13, <1>14, <1>15, WriteKeeps

LEMMA ReadPeriodKeeps ==
  ASSUME BillingInv, NEW d \in Tasks, ReadPeriod(d)
  PROVE  BillingInv'
<1>1. PICK next : next = [at |-> "totalled", period |-> task[d].period,
                          totals |-> PeriodTotals(View(d), task[d].period)]
  OBVIOUS
<1>2. /\ task[d].at = "adjusted" /\ task' = [task EXCEPT ![d] = next]
      /\ UNCHANGED <<saved, held, writes>>
  BY <1>1 DEF ReadPeriod, Stage
<1>3. Job(saved, held[d], writes[d], next)
  <2>1. "at" \in DOMAIN next /\ next.at = "totalled"
    BY <1>1
  <2>2. PaysNothing(writes[d])
    BY <1>2 DEF BillingInv, Holder, Job
  <2> QED BY <2>1, <2>2 DEF Job
<1> QED BY <1>2, <1>3, TaskKeeps

(* The view of a transaction that has written nothing of the payments.     *)
LEMMA ViewIs ==
  ASSUME NEW t \in Tasks, BillingInv, NEW view, view = View(t)
  PROVE  /\ Good(view) /\ Survive(saved, view) /\ DOMAIN view = Rows
         /\ Job(saved, held[t], writes[t], task[t])
         /\ Confined(saved, view, held[t])
         /\ PaysNothing(writes[t]) => \A p \in Payments : view[Payment(p)] = saved[Payment(p)]
<1>1. view = ViewOf(saved, writes[t])
  BY DEF View, ViewOf
<1>2. Holder(saved, held[t], writes[t], task[t])
  BY DEF BillingInv
<1>3. DOMAIN view = Rows /\ \A r \in Rows : view[r] = IF r \in DOMAIN writes[t] THEN writes[t][r]
                                                      ELSE saved[r]
  BY <1>1, ViewOfIs
<1>4. Confined(saved, view, held[t])
  BY <1>2, <1>3 DEF Confined, Holder
<1>5. PaysNothing(writes[t]) => \A p \in Payments : view[Payment(p)] = saved[Payment(p)]
  BY <1>3, RowsAre DEF PaysNothing
<1>6. Good(view) /\ Survive(saved, view) /\ Job(saved, held[t], writes[t], task[t])
  BY <1>1, <1>2 DEF Holder
<1> QED BY <1>3, <1>4, <1>5, <1>6

LEMMA SavePeriodKeeps ==
  ASSUME BillingInv, NEW d \in Tasks, SavePeriod(d)
  PROVE  BillingInv' /\ Survive(saved, saved')
<1>1. PICK view : view = View(d)
  OBVIOUS
<1>2. PICK period : period = Period(task[d].period)
  OBVIOUS
<1>3. PICK totals : totals = task[d].totals
  OBVIOUS
<1>4. PICK db : db = [view EXCEPT ![period] = totals]
  OBVIOUS
<1>5. task[d].at = "totalled" /\ Unlocked(d, {period}) /\ Commit(d, db)
  BY <1>1, <1>2, <1>3, <1>4, Zenon DEF SavePeriod, Stage
<1>6. /\ Good(view) /\ Survive(saved, view) /\ DOMAIN view = Rows
      /\ Job(saved, held[d], writes[d], task[d])
      /\ Confined(saved, view, held[d])
      /\ PaysNothing(writes[d]) => \A p \in Payments : view[Payment(p)] = saved[Payment(p)]
  BY <1>1, ViewIs
<1>7. \A p \in Payments : view[Payment(p)] = saved[Payment(p)]
  BY <1>5, <1>6 DEF Job
<1>8. DOMAIN db = Rows /\ \A r \in Rows : r # period => db[r] = view[r]
  BY <1>4, <1>6
<1>9. /\ \A p \in Payments : db[Payment(p)] = view[Payment(p)]
      /\ \A b \in Bills : db[Bill(b)] = view[Bill(b)]
  BY <1>2, <1>8, RowsAre, RowsApart
<1>10. \A b \in Bills : Allocated(db, b) = Allocated(view, b)
  BY <1>9, AllocatedSame
<1>11. Good(db)
  BY <1>6, <1>8, <1>9, <1>10 DEF Good, Typed, AddsUp
<1>12. Survive(saved, db)
  BY <1>6, <1>9 DEF Survive
<1>13. Local(d, db)
  <2> SUFFICES ASSUME NEW u \in Tasks \ {d} PROVE Respects(saved, db, held[u])
    BY DEF Local
  <2>1. period \notin held[u] /\ held[u] \cap held[d] = {}
    BY <1>5 DEF Unlocked, BillingInv, Locking
  <2>2. \A r \in Rows \cap held[u] : db[r] = saved[r]
    BY <1>6, <1>8, <2>1 DEF Confined
  <2> QED BY <1>7, <1>9, <2>2 DEF Respects
<1>14. BillingInv' /\ saved' = db
  BY <1>5, <1>11, <1>13, CommitKeeps DEF Commit
<1> QED BY <1>12, <1>14

LEMMA ReverseAdjustmentKeeps ==
  ASSUME BillingInv, NEW d \in Tasks, NEW b \in Bills, NEW i \in DOMAIN saved[Bill(b)].adjustments,
         ReverseAdjustment(d, b, i)
  PROVE  BillingInv' /\ Survive(saved, saved')
<1>1. PICK mid : mid = [saved EXCEPT ![Bill(b)] = [@ EXCEPT !.adjustments[i].active = FALSE]]
  OBVIOUS
<1>2. PICK bills : bills = {b}
  OBVIOUS
<1>3. PICK db : db = Recalculate(mid, bills)
  OBVIOUS
<1>4. Unlocked(d, BillAndPeriodRows(bills)) /\ Commit(d, db)
  BY <1>1, <1>2, <1>3, Zenon DEF ReverseAdjustment
<1>5. bills \in SUBSET Bills /\ Good(saved)
  BY <1>2 DEF BillingInv
<1>6. Recalculation(mid, bills, db)
  BY <1>3, <1>5, RecalculateIs
<1>7. Recalculation(mid, {b}, db)
  BY <1>2, <1>6
<1>8. /\ Good(db) /\ db[Bill(b)].present
      /\ \A p \in Payments : db[Payment(p)] = saved[Payment(p)]
      /\ SameLines(saved, db) /\ SameBills(saved, db, {b}) /\ SamePeriods(saved, db, {b})
  BY <1>1, <1>5, <1>7, AdjustmentReversed, Zenon
<1>9. Local(d, db)
  <2> SUFFICES ASSUME NEW u \in Tasks \ {d} PROVE Respects(saved, db, held[u])
    BY DEF Local
  <2>1. Bill(b) \notin held[u] /\ Period(b[1]) \notin held[u]
    BY <1>2, <1>4 DEF Unlocked, BillAndPeriodRows
  <2>2. ASSUME NEW x \in Bills, Bill(x) \in held[u]
        PROVE  db[Bill(x)] = saved[Bill(x)]
    BY <1>8, <2>1, <2>2 DEF SameBills
  <2>3. ASSUME NEW q \in Periods, Period(q) \in held[u]
        PROVE  db[Period(q)] = saved[Period(q)]
    <3>1. q \notin PeriodsOf({b})
      BY <2>1, <2>3 DEF PeriodsOf
    <3> QED BY <1>8, <3>1 DEF SamePeriods
  <2>4. \A r \in Rows \cap held[u] : db[r] = saved[r]
    BY <1>8, <2>2, <2>3, RowsAre DEF SameLines
  <2> QED BY <1>8, <2>4 DEF Respects
<1>10. Survive(saved, db)
  BY <1>8 DEF Survive, SameBills
<1>11. BillingInv' /\ saved' = db
  BY <1>4, <1>8, <1>9, CommitKeeps DEF Commit
<1> QED BY <1>10, <1>11

LEMMA OpenPaymentKeeps ==
  ASSUME BillingInv, NEW d \in Tasks, NEW p \in Payments, OpenPayment(d, p)
  PROVE  BillingInv'
<1>1. PICK next : next = [at |-> "editing", payment |-> p, row |-> saved[Payment(p)]]
  OBVIOUS
<1>2. /\ saved[Payment(p)].present /\ task' = [task EXCEPT ![d] = next]
      /\ UNCHANGED <<saved, held, writes>>
  BY <1>1 DEF OpenPayment
<1>3. Job(saved, held[d], writes[d], next)
  <2>1. "at" \in DOMAIN next /\ next.at = "editing" /\ next.payment = p /\ next.row = saved[Payment(p)]
    BY <1>1
  <2>2. IsPayment(saved[Payment(p)])
    BY DEF BillingInv, Good, Typed
  <2> QED BY <1>2, <2>1, <2>2 DEF Job
<1> QED BY <1>2, <1>3, TaskKeeps

(* What the form writes, and the recalculation of the bills it had and has. *)
LEMMA PaymentRewritten ==
  ASSUME NEW db, Good(db), NEW p \in Payments, NEW row, IsPayment(row), row.present,
         AllocatedOf(row) <= Amount[p], \A b \in BillsOf(row) : db[Bill(b)].present,
         NEW mid, Replaced(db, p, row, mid), NEW done, done = RecalculatePayment(mid, p),
         NEW bills, bills = BillsOf(db[Payment(p)]) \cup BillsOf(row),
         NEW new, Recalculation(done, bills, new)
  PROVE  Good(new) /\ Revision(db, new, {p}, bills)
<1>1. Typed(db) /\ DOMAIN db = Rows
  BY DEF Good, Typed
<1>2. OnlyRow(db, p, row, mid)
  BY <1>1, RowReplaced
<1>3. SameBut(db[Payment(p)].taxes, row.taxes, bills)
  <2> SUFFICES ASSUME NEW b \in Bills \ bills PROVE row.taxes[b] = db[Payment(p)].taxes[b]
    BY DEF SameBut
  <2>1. ~ (row.taxes[b] > 0) /\ ~ (db[Payment(p)].taxes[b] > 0)
    BY DEF BillsOf
  <2>2. row.taxes[b] \in Nat /\ db[Payment(p)].taxes[b] \in Nat
    BY <1>1 DEF Typed, IsPayment
  <2> QED BY <2>1, <2>2
<1>4. Typed(mid)
  BY <1>1, <1>3, RowRevises
<1>5. mid[Payment(p)] = row
  BY <1>2 DEF OnlyRow
<1>6. PICK marked : /\ Replaced(mid, p, WithStatusOf(p, mid[Payment(p)]), marked)
                    /\ Recalculation(marked, BillsOf(mid[Payment(p)]), done)
  BY <1>4, RecalculatePaymentIs
<1>7. PICK state : state = WithStatusOf(p, row)
  OBVIOUS
<1>8. Replaced(mid, p, state, marked) /\ Recalculation(marked, BillsOf(row), done)
  BY <1>5, <1>6, <1>7
<1>9. /\ IsPayment(state) /\ state.taxes = row.taxes /\ state.rest = row.rest
      /\ SameOwner(row, state) /\ AllocatedOf(state) = AllocatedOf(row)
      /\ BillsOf(state) = BillsOf(row)
      /\ state.status = "EXEMPT" => AllocatedOf(row) = 0
  BY <1>7, WithStatusOfIs
<1>10. Replaced(db, p, state, marked)
  BY <1>1, <1>8 DEF Replaced
<1>11. SameBut(db[Payment(p)].taxes, state.taxes, bills)
  BY <1>3, <1>9
<1>12. Typed(marked) /\ Revision(db, marked, {p}, bills) /\ OnlyRow(db, p, state, marked)
  BY <1>1, <1>9, <1>10, <1>11, RowRevises
<1>13. PICK used : used = BillsOf(row)
  OBVIOUS
<1>14. Recalculation(marked, used, done)
  BY <1>13, <1>8
<1>15. used \in SUBSET Bills /\ bills \in SUBSET Bills /\ used \subseteq bills
  BY <1>13 DEF BillsOf
<1>16. \A b \in Bills : marked[Bill(b)] = db[Bill(b)]
  BY <1>12 DEF OnlyRow
<1>17. \A b \in Bills : Honest(marked[Bill(b)])
  BY <1>16 DEF Good, AddsUp, Sound
<1>18. Typed(done) /\ \A b \in Bills : Allocated(done, b) = Allocated(marked, b)
  <2>1. Typed(done)
    BY <1>14, <1>12, <1>15, RecalculationTyped
  <2>2. ASSUME NEW b \in Bills PROVE Allocated(done, b) = Allocated(marked, b)
    BY <1>14, <1>12, <1>15, RecalculationTyped
  <2> QED BY <2>1, <2>2
<1>19. ASSUME NEW b \in used
       PROVE  Honest(done[Bill(b)]) /\ done[Bill(b)].present = marked[Bill(b)].present
  BY <1>14, <1>12, <1>15, RecalculationTyped
<1>20. Revision(marked, done, {}, used)
  <2>1. \A b \in used : Honest(marked[Bill(b)])
    BY <1>15, <1>17
  <2> QED BY <1>14, <1>12, <1>15, <2>1, RecalculationRevises
<1>21. \A b \in Bills \ used : done[Bill(b)] = marked[Bill(b)]
  BY <1>14 DEF Recalculation
<1>22. \A b \in bills : Honest(done[Bill(b)])
  <2> SUFFICES ASSUME NEW b \in bills PROVE Honest(done[Bill(b)])
    OBVIOUS
  <2>1. CASE b \in used
    BY <1>19, <2>1
  <2>2. CASE b \notin used
    <3>1. done[Bill(b)] = marked[Bill(b)] /\ b \in Bills
      BY <1>15, <1>21, <2>2
    <3> QED BY <1>17, <3>1
  <2> QED BY <2>1, <2>2
<1>23. Revision(done, new, {}, bills)
  BY <1>15, <1>18, <1>22, RecalculationRevises
<1>24. Revision(db, new, {p}, bills)
  <2>1. PICK chosen : chosen = {p}
    OBVIOUS
  <2>2. {} \subseteq chosen /\ bills \subseteq bills
    OBVIOUS
  <2>3. Revision(marked, done, chosen, bills) /\ Revision(done, new, chosen, bills)
    BY <1>15, <1>20, <1>23, <2>2, RevisionWider
  <2>4. Revision(db, marked, chosen, bills)
    BY <1>12, <2>1
  <2>5. Revision(db, done, chosen, bills)
    BY <2>3, <2>4, RevisionTwice
  <2>6. Revision(db, new, chosen, bills)
    BY <2>3, <2>5, RevisionTwice
  <2> QED BY <2>1, <2>6
<1>25. \A b \in bills : done[Bill(b)].present
  <2> SUFFICES ASSUME NEW b \in bills PROVE done[Bill(b)].present
    OBVIOUS
  <2>1. db[Bill(b)].present
    BY AllocatedBillsExist
  <2>2. done[Bill(b)].present = marked[Bill(b)].present
    <3>1. CASE b \in used
      BY <1>19, <3>1
    <3>2. CASE b \notin used
      <4>1. done[Bill(b)] = marked[Bill(b)]
        BY <1>15, <1>21, <3>2
      <4> QED BY <4>1
    <3> QED BY <3>1, <3>2
  <2> QED BY <1>15, <1>16, <2>1, <2>2
<1>26. \A b \in Bills \ bills : AddsUp(done, b)
  <2> SUFFICES ASSUME NEW b \in Bills \ bills PROVE AddsUp(done, b)
    OBVIOUS
  <2>1. done[Bill(b)] = db[Bill(b)]
    BY <1>15, <1>16, <1>21
  <2>2. \A q \in Payments : marked[Payment(q)].taxes[b] = db[Payment(q)].taxes[b]
    BY <1>12 DEF Revision, SameTaxes
  <2>3. Allocated(done, b) = Allocated(db, b)
    BY <1>18, <2>2, AllocatedSame
  <2> QED BY <2>1, <2>3 DEF Good, AddsUp
<1>27. \A q \in Payments : Spent(q, done[Payment(q)])
  <2> SUFFICES ASSUME NEW q \in Payments PROVE Spent(q, done[Payment(q)])
    OBVIOUS
  <2>1. done[Payment(q)] = marked[Payment(q)]
    BY <1>8 DEF Recalculation
  <2>2. CASE q = p
    <3>1. done[Payment(q)] = state
      BY <1>12, <2>1, <2>2 DEF OnlyRow
    <3>2. Spent(p, state)
      BY <1>9 DEF Spent, SameOwner
    <3> QED BY <2>2, <3>1, <3>2
  <2>3. CASE q # p
    BY <1>12, <2>1, <2>3 DEF OnlyRow, SamePayments, Good
  <2> QED BY <2>2, <2>3
<1>28. Good(new)
  BY <1>15, <1>18, <1>25, <1>26, <1>27, RecalculationGood
<1> QED BY <1>24, <1>28

LEMMA SavePaymentKeeps ==
  ASSUME BillingInv, NEW d \in Tasks, NEW taxes \in [Bills -> Nat], NEW category, NEW rest \in Nat,
         SavePayment(d, taxes, category, rest)
  PROVE  BillingInv' /\ Survive(saved, saved')
<1>1. PICK p : p = task[d].payment
  OBVIOUS
<1>2. PICK row : row = [task[d].row EXCEPT !.taxes = taxes, !.category = category, !.rest = rest]
  OBVIOUS
<1>3. PICK bills : bills = BillsOf(saved[Payment(p)]) \cup BillsOf(row)
  OBVIOUS
<1>4. PICK mid : mid = [saved EXCEPT ![Payment(p)] = row]
  OBVIOUS
<1>5. PICK done : done = RecalculatePayment(mid, p)
  OBVIOUS
<1>6. PICK db : db = Recalculate(done, bills)
  OBVIOUS
<1>7. PICK locks : locks = {Payment(p)} \cup BillAndPeriodRows(bills)
  OBVIOUS
<1>8. /\ task[d].at = "editing" /\ AllocatedOf(row) <= Amount[p]
      /\ \A b \in BillsOf(row) : saved[Bill(b)].present
      /\ Unlocked(d, locks) /\ Commit(d, db)
  BY <1>1, <1>2, <1>3, <1>4, <1>5, <1>6, <1>7, Zenon DEF SavePayment, Stage
<1>9. p \in Payments /\ IsPayment(task[d].row) /\ task[d].row.present /\ Good(saved)
  BY <1>1, <1>8 DEF BillingInv, Holder, Job
<1>10. IsPayment(row) /\ row.present
  BY <1>2, <1>9 DEF IsPayment, PaymentFields
<1>11. bills \in SUBSET Bills
  BY <1>3 DEF BillsOf
<1>12. Recalculation(done, bills, db)
  BY <1>6, <1>11, RecalculateIs
<1>13. Replaced(saved, p, row, mid)
  BY <1>4 DEF Replaced
<1>14. Good(db) /\ Revision(saved, db, {p}, bills)
  BY <1>3, <1>5, <1>8, <1>9, <1>10, <1>12, <1>13, PaymentRewritten
<1>15. PICK payments : payments = {p}
  OBVIOUS
<1>16. payments \in SUBSET Payments /\ Revision(saved, db, payments, bills)
  BY <1>9, <1>14, <1>15
<1>17. Unlocked(d, {Payment(x) : x \in payments}) /\ Unlocked(d, BillAndPeriodRows(bills))
  BY <1>7, <1>8, <1>15 DEF Unlocked
<1>18. Local(d, db)
  BY <1>11, <1>16, <1>17, RevisionLocal
<1>19. Survive(saved, db)
  BY <1>14 DEF Revision, KeptBills, BillKept, Survive
<1>20. BillingInv' /\ saved' = db
  BY <1>8, <1>14, <1>18, CommitKeeps DEF Commit
<1> QED BY <1>19, <1>20

LEMMA KeepAllocationsKeeps ==
  ASSUME BillingInv, NEW d \in Tasks, KeepAllocations(d)
  PROVE  BillingInv' /\ Survive(saved, saved')
<1>1. PICK row : row = saved[Payment(task[d].payment)]
  OBVIOUS
<1>2. task[d].at = "editing" /\ SavePayment(d, row.taxes, row.category, row.rest)
  BY <1>1, Zenon DEF KeepAllocations, Stage
<1>3. IsPayment(row)
  BY <1>1, <1>2 DEF BillingInv, Holder, Job, Good, Typed
<1>4. PICK taxes : taxes = row.taxes
  OBVIOUS
<1>5. PICK rest : rest = row.rest
  OBVIOUS
<1>6. taxes \in [Bills -> Nat] /\ rest \in Nat /\ SavePayment(d, taxes, row.category, rest)
  BY <1>2, <1>3, <1>4, <1>5 DEF IsPayment
<1> QED BY <1>6, SavePaymentKeeps

(***************************************************************************)
(* Every step of an audit keeps the invariant.                             *)
(***************************************************************************)
LEMMA AuditTaskKeeps ==
  ASSUME BillingInv, NEW a \in Tasks, CheckAudits(a) \/ CreateAudit(a) \/ RefreshSources(a) \/ ExecuteAudit(a)
  PROVE  BillingInv'
<1>1. PICK next : /\ task' = [task EXCEPT ![a] = next] /\ "at" \in DOMAIN next
                  /\ next.at \in {"checked", "queued", "refreshed", "reconcile"}
  <2>1. CASE CheckAudits(a)
    <3>1. PICK next : next = [at |-> "checked"]
      OBVIOUS
    <3>2. task' = [task EXCEPT ![a] = next]
      BY <2>1, <3>1, Zenon DEF CheckAudits
    <3>3. "at" \in DOMAIN next /\ next.at \in {"checked", "queued", "refreshed", "reconcile"}
      BY <3>1
    <3> QED BY <3>2, <3>3
  <2>2. CASE CreateAudit(a)
    <3>1. PICK next : next = [at |-> "queued"]
      OBVIOUS
    <3>2. task' = [task EXCEPT ![a] = next]
      BY <2>2, <3>1, Zenon DEF CreateAudit
    <3>3. "at" \in DOMAIN next /\ next.at \in {"checked", "queued", "refreshed", "reconcile"}
      BY <3>1
    <3> QED BY <3>2, <3>3
  <2>3. CASE RefreshSources(a)
    <3>1. PICK next : next = [at |-> "refreshed"]
      OBVIOUS
    <3>2. task' = [task EXCEPT ![a] = next]
      BY <2>3, <3>1, Zenon DEF RefreshSources
    <3>3. "at" \in DOMAIN next /\ next.at \in {"checked", "queued", "refreshed", "reconcile"}
      BY <3>1
    <3> QED BY <3>2, <3>3
  <2>4. CASE ExecuteAudit(a)
    <3>1. PICK next : next = [at |-> "reconcile", index |-> Index, full |-> rechecked # Index]
      OBVIOUS
    <3>2. task' = [task EXCEPT ![a] = next]
      BY <2>4, <3>1, Zenon DEF ExecuteAudit
    <3>3. "at" \in DOMAIN next /\ next.at \in {"checked", "queued", "refreshed", "reconcile"}
      BY <3>1
    <3> QED BY <3>2, <3>3
  <2> QED BY <2>1, <2>2, <2>3, <2>4
<1>2. UNCHANGED <<saved, held, writes>>
  BY DEF CheckAudits, CreateAudit, RefreshSources, ExecuteAudit
<1>3. Job(saved, held[a], writes[a], next)
  BY <1>1 DEF Job
<1> QED BY <1>1, <1>2, <1>3, TaskKeeps

LEMMA SynchronizeLinesKeeps ==
  ASSUME BillingInv, NEW a \in Tasks, NEW shown, SynchronizeLines(a, shown)
  PROVE  BillingInv'
<1>1. PICK locks : locks = {Period(q) : q \in Periods} \cup {Line(l) : l \in Lines}
  OBVIOUS
<1>2. PICK next : next = [task[a] EXCEPT !.at = "rebuild"]
  OBVIOUS
<1>3. PICK db : /\ Write(a, locks, db, next) /\ DOMAIN db = Rows
                /\ \A r \in Rows : (\A l \in Lines : r # Line(l)) => db[r] = saved[r]
  <2>1. PICK written : written = shown \cup {l \in Lines : task[a].full /\ saved[Line(l)].present}
    OBVIOUS
  <2>2. PICK index : index = task[a].index
    OBVIOUS
  <2> DEFINE Row(l) == LET user == UserFor(index, l[2], IF l \in shown THEN NoUser ELSE saved[Line(l)].user)
                       IN [present |-> TRUE, user |-> user, exempt |-> Matches(index, l[2], user)]
  <2>3. PICK db : db = [r \in Rows |-> IF \E l \in written : r = Line(l) THEN Row(r[2]) ELSE saved[r]]
    OBVIOUS
  <2>4. Write(a, locks, db, next)
    BY <1>1, <1>2, <2>1, <2>2, <2>3, Zenon DEF SynchronizeLines
  <2>5. ASSUME NEW r \in Rows, \A l \in Lines : r # Line(l), NEW l, r = Line(l)
        PROVE  FALSE
    BY <2>5, RowsAre, RowsApart, Zenon
  <2> HIDE DEF Row
  <2>6. DOMAIN db = Rows
    BY <2>3
  <2>7. ASSUME NEW r \in Rows, \A l \in Lines : r # Line(l)
        PROVE  db[r] = saved[r]
    <3>1. ~ \E l \in written : r = Line(l)
      BY <2>5, <2>7
    <3> QED BY <2>3, <3>1
  <2> QED BY <2>4, <2>6, <2>7
<1>4. /\ \A p \in Payments : db[Payment(p)] = saved[Payment(p)]
      /\ \A b \in Bills : db[Bill(b)] = saved[Bill(b)]
  BY <1>3, RowsAre, RowsApart
<1>5. Good(saved)
  BY DEF BillingInv
<1>6. \A b \in Bills : Allocated(db, b) = Allocated(saved, b)
  BY <1>4, AllocatedSame
<1>7. Good(db) /\ Survive(saved, db)
  BY <1>3, <1>4, <1>5, <1>6 DEF Good, Typed, AddsUp, Survive
<1>8. Confined(saved, db, held[a] \cup locks)
  <2> SUFFICES ASSUME NEW r \in Rows, r \notin locks PROVE db[r] = saved[r]
    BY DEF Confined
  <2>1. \A l \in Lines : r # Line(l)
    BY <1>1
  <2> QED BY <1>3, <2>1
<1>9. locks \in SUBSET Rows
  BY <1>1, RowsAre
<1>10. task[a].at = "reconcile" /\ "at" \in DOMAIN task[a]
  BY DEF SynchronizeLines, Stage, BillingInv, Holder, Job
<1>11. Job(saved, held[a] \cup locks, Changed(db), next)
  <2>1. "at" \in DOMAIN next /\ next.at = "rebuild"
    BY <1>2, <1>10
  <2>2. \A r \in DOMAIN Changed(db) : db[r] # saved[r]
    BY DEF Changed
  <2>3. PaysNothing(Changed(db)) /\ \A b \in Bills : Bill(b) \notin DOMAIN Changed(db)
    BY <1>4, <2>2 DEF PaysNothing
  <2>4. \A q \in Periods : Period(q) \in held[a] \cup locks
    BY <1>1
  <2> QED BY <2>1, <2>3, <2>4 DEF Job
<1> QED BY <1>3, <1>4, <1>7, <1>8, <1>9, <1>11, WriteKeeps

(* What Job says of the transaction once its rows are written.             *)
LEMMA WrittenIs ==
  ASSUME NEW db, Good(db), Settled(db)
  PROVE  Settled(ViewOf(saved, Changed(db)))
<1>1. PICK w : w = Changed(db)
  OBVIOUS
<1>2. PICK view : view = ViewOf(saved, w)
  OBVIOUS
<1>3. /\ DOMAIN view = Rows /\ \A r \in Rows : view[r] = db[r]
      /\ \A r \in DOMAIN w : r \in Rows /\ db[r] # saved[r]
  BY <1>1, <1>2, WrittenView
<1>4. Settled(view)
  BY <1>3, SameRowsGood
<1> QED BY <1>1, <1>2, <1>4

LEMMA RebuildKeeps ==
  ASSUME BillingInv, NEW a \in Tasks, Rebuild(a)
  PROVE  BillingInv'
<1>1. PICK locks : locks = {Bill(b) : b \in Bills}
  OBVIOUS
<1>2. PICK next : next = [task[a] EXCEPT !.at = "import"]
  OBVIOUS
<1>3. PICK view : view = View(a)
  OBVIOUS
<1>4. PICK db : db = RebuildAssessments(view, combine)
  OBVIOUS
<1>5. task[a].at = "rebuild" /\ Write(a, locks, db, next)
  BY <1>1, <1>2, <1>3, <1>4, Zenon DEF Rebuild, Stage
<1>6. /\ Good(view) /\ Survive(saved, view) /\ DOMAIN view = Rows
      /\ Job(saved, held[a], writes[a], task[a])
      /\ Confined(saved, view, held[a])
      /\ PaysNothing(writes[a]) => \A p \in Payments : view[Payment(p)] = saved[Payment(p)]
  BY <1>3, ViewIs
<1>7. /\ PaysNothing(writes[a]) /\ "at" \in DOMAIN task[a]
      /\ \A q \in Periods : Period(q) \in held[a]
      /\ \A b \in Bills : Bill(b) \notin DOMAIN writes[a]
  BY <1>5, <1>6 DEF Job
<1>8. /\ Good(db) /\ Settled(db) /\ Survive(view, db) /\ SameLines(view, db)
      /\ \A p \in Payments : db[Payment(p)] = view[Payment(p)]
  BY <1>4, <1>6, RebuildIs
<1>9. \A p \in Payments : db[Payment(p)] = saved[Payment(p)] /\ view[Payment(p)] = saved[Payment(p)]
  BY <1>6, <1>7, <1>8
<1>10. \A b \in Bills : view[Bill(b)] = saved[Bill(b)]
  BY <1>3, <1>7, RowsAre DEF View
<1>11. Survive(saved, db)
  <2> SUFFICES ASSUME NEW b \in Bills, saved[Bill(b)].present, Decided(saved, b)
               PROVE  db[Bill(b)].present
    BY DEF Survive
  <2>1. Allocated(view, b) = Allocated(saved, b)
    BY <1>9, AllocatedSame
  <2>2. Decided(view, b) /\ view[Bill(b)].present
    BY <1>10, <2>1, DecidedSame
  <2> QED BY <1>8, <2>2 DEF Survive
<1>12. locks \in SUBSET Rows /\ \A b \in Bills : Bill(b) \in locks
  BY <1>1, RowsAre
<1>13. Accounts(held[a] \cup locks)
  BY <1>7, <1>12 DEF Accounts
<1>14. Confined(saved, db, held[a] \cup locks)
  <2> SUFFICES ASSUME NEW r \in Rows, r \notin held[a], r \notin locks PROVE db[r] = saved[r]
    BY DEF Confined
  <2>1. view[r] = saved[r]
    BY <1>6 DEF Confined
  <2>2. \/ \E p \in Payments : r = Payment(p)
        \/ \E l \in Lines : r = Line(l)
    BY <1>7, <1>12, RowsAre
  <2> QED BY <1>8, <1>9, <2>1, <2>2 DEF SameLines
<1>15. Job(saved, held[a] \cup locks, Changed(db), next)
  <2>1. "at" \in DOMAIN next /\ next.at = "import"
    BY <1>2, <1>7
  <2>2. \A r \in DOMAIN Changed(db) : db[r] # saved[r]
    BY DEF Changed
  <2>3. PaysNothing(Changed(db))
    BY <1>9, <2>2 DEF PaysNothing
  <2>4. Settled(ViewOf(saved, Changed(db)))
    BY <1>8, WrittenIs
  <2> QED BY <1>13, <2>1, <2>3, <2>4 DEF Job
<1> QED BY <1>5, <1>8, <1>11, <1>12, <1>13, <1>14, <1>15, WriteKeeps

(* An audit that has rebuilt the accounts holds all of them.               *)
LEMMA AccountsHeld ==
  ASSUME BillingInv, NEW a \in Tasks, task[a].at \in {"import", "payments", "notify"},
         NEW view, view = View(a)
  PROVE  Accounts(held[a]) /\ Settled(view)
<1>1. view = ViewOf(saved, writes[a])
  BY DEF View, ViewOf
<1>2. PICK at : at = task[a].at
  OBVIOUS
<1>3. Job(saved, held[a], writes[a], task[a])
  BY DEF BillingInv, Holder
<1> QED BY <1>1, <1>2, <1>3 DEF Job

LEMMA StaysConfined ==
  ASSUME NEW db, NEW mid, NEW new, NEW h, NEW locks, Confined(db, mid, h), Confined(mid, new, locks)
  PROVE  Confined(db, new, h \cup locks)
BY DEF Confined

LEMMA AccountsWider ==
  ASSUME NEW h, NEW locks, Accounts(h)
  PROVE  Accounts(h \cup locks)
BY DEF Accounts

LEMMA ImportPaymentsKeeps ==
  ASSUME BillingInv, NEW a \in Tasks, NEW imported \in SUBSET Payments, ImportPayments(a, imported)
  PROVE  BillingInv'
<1>1. PICK view : view = View(a)
  OBVIOUS
<1>2. PICK locks : locks = {Payment(p) : p \in imported}
  OBVIOUS
<1> DEFINE D == [r \in Rows |-> IF \E p \in imported : r = Payment(p)
                                THEN [EmptyPayment EXCEPT !.present = TRUE, !.user = owner[Payer[r[2]]]]
                                ELSE View(a)[r]]
           S == imported \cup {p \in Payments : task[a].full /\ saved[Payment(p)].present}
<1>3. PICK next : next = [at |-> "payments", index |-> task[a].index, full |-> task[a].full,
                          scope |-> S, actions |-> [p \in S |-> PaymentAction(task[a].index, p, D[Payment(p)])]]
  OBVIOUS
<1>4. Write(a, {Payment(p) : p \in imported}, D, next)
  BY <1>3, Zenon DEF ImportPayments
<1>5. PICK db : db = D
  OBVIOUS
<1>6. PICK scope : scope = S
  OBVIOUS
<1> HIDE DEF D, S
<1>7. /\ Write(a, locks, db, next) /\ "at" \in DOMAIN next /\ next.at = "payments"
      /\ next.scope = scope
  <2>1. "at" \in DOMAIN next /\ next.at = "payments" /\ next.scope = S
    BY <1>3
  <2> QED BY <1>2, <1>5, <1>6, <1>4, <2>1
<1>8. db = [r \in Rows |-> IF \E p \in imported : r = Payment(p)
                           THEN [EmptyPayment EXCEPT !.present = TRUE, !.user = owner[Payer[r[2]]]]
                           ELSE view[r]]
  BY <1>1, <1>5, Zenon DEF D
<1>9. task[a].at = "import" /\ \A p \in imported : ~saved[Payment(p)].present
  BY DEF ImportPayments, Stage
<1>10. /\ Good(view) /\ Survive(saved, view) /\ DOMAIN view = Rows
       /\ Job(saved, held[a], writes[a], task[a])
       /\ Confined(saved, view, held[a])
       /\ PaysNothing(writes[a]) => \A p \in Payments : view[Payment(p)] = saved[Payment(p)]
  BY <1>1, ViewIs
<1>11. Accounts(held[a]) /\ Settled(view)
  BY <1>1, <1>9, AccountsHeld
<1>12. \A p \in Payments : view[Payment(p)] = saved[Payment(p)]
  BY <1>9, <1>10 DEF Job
<1>13. ASSUME NEW p \in imported
       PROVE  /\ IsPayment(db[Payment(p)]) /\ Spent(p, db[Payment(p)])
              /\ db[Payment(p)].taxes = view[Payment(p)].taxes
  <2>1. PICK user : user = owner[Payer[Payment(p)[2]]]
    OBVIOUS
  <2>2. PICK row : row = [EmptyPayment EXCEPT !.present = TRUE, !.user = user]
    OBVIOUS
  <2>3. db[Payment(p)] = row
    BY <1>8, <2>1, <2>2, RowsAre
  <2>4. /\ IsPayment(row) /\ row.taxes = NoTaxes /\ row.rest = 0 /\ row.present
        /\ row.status = "PENDING"
    BY <2>2, EmptyRows DEF EmptyPayment, IsPayment, PaymentFields
  <2>5. AllocatedOf(row) = 0
    BY <2>4, NoTaxesAre
  <2>6. Amount[p] \in Nat
    BY MoneyAssumption
  <2>7. Spent(p, row)
    BY <2>4, <2>5, <2>6 DEF Spent
  <2>8. view[Payment(p)].taxes = NoTaxes
    <3>1. Spent(p, view[Payment(p)]) /\ ~view[Payment(p)].present
      BY <1>9, <1>10, <1>12 DEF Good
    <3> QED BY <3>1 DEF Spent
  <2> QED BY <2>3, <2>4, <2>7, <2>8
<1>14. DOMAIN db = Rows /\ \A r \in Rows : r \notin locks => db[r] = view[r]
  BY <1>2, <1>8
<1>15. /\ \A b \in Bills : db[Bill(b)] = view[Bill(b)]
       /\ \A q \in Periods : db[Period(q)] = view[Period(q)]
  BY <1>2, <1>14, RowsAre, RowsApart
<1>16. ASSUME NEW p \in Payments
       PROVE  /\ IsPayment(db[Payment(p)]) /\ Spent(p, db[Payment(p)])
              /\ db[Payment(p)].taxes = view[Payment(p)].taxes
  <2>1. CASE p \in imported
    BY <1>13, <2>1
  <2>2. CASE p \notin imported
    <3>1. Payment(p) \notin locks
      BY <1>2, <2>2, RowsApart
    <3>2. db[Payment(p)] = view[Payment(p)]
      BY <1>14, <3>1, RowsAre
    <3> QED BY <1>10, <3>2 DEF Good, Typed
  <2> QED BY <2>1, <2>2
<1>17. \A b \in Bills : Allocated(db, b) = Allocated(view, b)
  BY <1>16, AllocatedSame
<1>18. Good(db)
  BY <1>10, <1>14, <1>15, <1>16, <1>17 DEF Good, Typed, AddsUp
<1>19. Settled(db)
  BY <1>11, <1>15, SameBillsSettle
<1>20. Survive(saved, db)
  BY <1>10, <1>15 DEF Survive
<1>21. Confined(saved, db, held[a] \cup locks)
  <2>1. Confined(view, db, locks)
    BY <1>14 DEF Confined
  <2> QED BY <1>10, <2>1, StaysConfined
<1>22. locks \in SUBSET Rows /\ Accounts(held[a] \cup locks)
  BY <1>2, <1>11, RowsAre, AccountsWider
<1>23. Job(saved, held[a] \cup locks, Changed(db), next)
  <2>1. Settled(ViewOf(saved, Changed(db)))
    BY <1>18, <1>19, WrittenIs
  <2>2. next.scope \subseteq Payments
    BY <1>6, <1>7 DEF S
  <2> QED BY <1>7, <1>22, <2>1, <2>2 DEF Job
<1> QED BY <1>7, <1>18, <1>20, <1>21, <1>22, <1>23, WriteKeeps

LEMMA ReconcilePaymentsKeeps ==
  ASSUME BillingInv, NEW a \in Tasks, ReconcilePayments(a)
  PROVE  BillingInv'
<1>1. PICK view : view = View(a)
  OBVIOUS
<1>2. PICK touched : touched = {p \in task[a].scope : task[a].actions[p] # "none"}
  OBVIOUS
<1>3. PICK locks : locks = {Payment(p) : p \in touched}
  OBVIOUS
<1>4. PICK db : db = AllReconciled(task[a], view, touched)
  OBVIOUS
<1>5. PICK next : next = [task[a] EXCEPT !.at = "notify"]
  OBVIOUS
<1>6. task[a].at = "payments" /\ Write(a, locks, db, next)
  BY <1>1, <1>2, <1>3, <1>4, <1>5, Zenon DEF ReconcilePayments, Stage
<1>7. /\ Good(view) /\ Survive(saved, view) /\ DOMAIN view = Rows
      /\ Job(saved, held[a], writes[a], task[a])
      /\ Confined(saved, view, held[a])
      /\ PaysNothing(writes[a]) => \A p \in Payments : view[Payment(p)] = saved[Payment(p)]
  BY <1>1, ViewIs
<1>8. Accounts(held[a]) /\ Settled(view)
  BY <1>1, <1>6, AccountsHeld
<1>9. touched \in SUBSET Payments /\ "at" \in DOMAIN task[a]
  BY <1>2, <1>6, <1>7 DEF Job
<1>10. Revises(view, db, touched)
  BY <1>4, <1>7, <1>9, AllReconciledRevises
<1>11. Good(db) /\ Revision(view, db, touched, Bills)
  BY <1>10 DEF Revises
<1>12. Settled(db)
  BY <1>8, <1>11 DEF Revision, StillSettled, Settled
<1>13. Survive(saved, db)
  BY <1>7, <1>11 DEF Revision, KeptBills, BillKept, Survive
<1>14. locks \in SUBSET Rows /\ Accounts(held[a] \cup locks)
  BY <1>3, <1>8, <1>9, RowsAre, AccountsWider
<1>15. Confined(saved, db, held[a] \cup locks)
  <2> SUFFICES ASSUME NEW r \in Rows, r \notin held[a], r \notin locks PROVE db[r] = saved[r]
    BY DEF Confined
  <2>1. view[r] = saved[r]
    BY <1>7 DEF Confined
  <2>2. \/ \E p \in Payments \ touched : r = Payment(p)
        \/ \E l \in Lines : r = Line(l)
    BY <1>3, <1>8, RowsAre DEF Accounts
  <2> QED BY <1>11, <2>1, <2>2 DEF Revision, SamePayments, SameLines
<1>16. Job(saved, held[a] \cup locks, Changed(db), next)
  <2>1. Settled(ViewOf(saved, Changed(db)))
    BY <1>11, <1>12, WrittenIs
  <2>2. "at" \in DOMAIN next /\ next.at = "notify"
    BY <1>5, <1>9
  <2> QED BY <1>14, <2>1, <2>2 DEF Job
<1> QED BY <1>6, <1>11, <1>13, <1>14, <1>15, <1>16, WriteKeeps

LEMMA CommitAuditKeeps ==
  ASSUME BillingInv, NEW a \in Tasks, CommitAudit(a)
  PROVE  BillingInv' /\ Settled(saved') /\ Survive(saved, saved')
<1>1. PICK view : view = View(a)
  OBVIOUS
<1>2. task[a].at = "notify" /\ Commit(a, view)
  BY <1>1 DEF CommitAudit, Stage
<1>3. /\ Good(view) /\ Survive(saved, view) /\ DOMAIN view = Rows
      /\ Job(saved, held[a], writes[a], task[a])
      /\ Confined(saved, view, held[a])
      /\ PaysNothing(writes[a]) => \A p \in Payments : view[Payment(p)] = saved[Payment(p)]
  BY <1>1, ViewIs
<1>4. Accounts(held[a]) /\ Settled(view)
  BY <1>1, <1>2, AccountsHeld
<1>5. Local(a, view)
  <2> SUFFICES ASSUME NEW u \in Tasks \ {a} PROVE Respects(saved, view, held[u])
    BY DEF Local
  <2>1. held[u] \cap held[a] = {}
    BY DEF BillingInv, Locking
  <2>2. \A r \in Rows \cap held[u] : view[r] = saved[r]
    BY <1>3, <2>1 DEF Confined
  <2>3. \A b \in Bills : Bill(b) \notin held[u]
    BY <1>4, <2>1 DEF Accounts
  <2> QED BY <2>2, <2>3 DEF Respects
<1>6. BillingInv' /\ saved' = view
  BY <1>2, <1>3, <1>5, CommitKeeps DEF Commit
<1> QED BY <1>3, <1>4, <1>6

(***************************************************************************)
(* Every step keeps the invariant and every bill a decision depends on.    *)
(***************************************************************************)
LEMMA StandingStill ==
  ASSUME saved' = saved
  PROVE  Survive(saved, saved')
BY DEF Survive

LEMMA DirectorStep ==
  ASSUME BillingInv, NEW d \in Directors, Decides(d) \/ Adjusts(d) \/ Edits(d)
  PROVE  BillingInv' /\ Survive(saved, saved')
<1>1. d \in Tasks
  BY AgentsAreTasks
<1>2. ASSUME NEW payments \in SUBSET Payments, NEW disposition \in Dispositions,
             LockPayments(d, payments, disposition)
      PROVE  BillingInv' /\ Survive(saved, saved')
  <2>1. BillingInv'
    BY <1>1, <1>2, LockPaymentsKeeps
  <2>2. saved' = saved
    BY <1>2 DEF LockPayments, Write
  <2> QED BY <2>1, <2>2, StandingStill
<1>3. CASE Decide(d)
  <2>1. BillingInv' /\ Deciding(saved, task[d].payments, saved')
    BY <1>1, <1>3, DecideKeeps
  <2>2. Survive(saved, saved')
    BY <2>1 DEF Deciding, Revision, KeptBills, BillKept, Survive
  <2> QED BY <2>1, <2>2
<1>4. CASE DecideRefused(d)
  <2>1. End(d) /\ saved' = saved
    BY <1>4 DEF DecideRefused
  <2> QED BY <1>1, <2>1, EndKeeps, StandingStill
<1>5. ASSUME NEW b \in Bills, NEW action \in {"WAIVE_BALANCE", "VOID_BILL", "CREDIT", "DEBIT"},
             AdjustBill(d, b, action)
      PROVE  BillingInv' /\ Survive(saved, saved')
  <2>1. BillingInv'
    BY <1>1, <1>5, AdjustBillKeeps
  <2>2. saved' = saved
    BY <1>5 DEF AdjustBill, Write
  <2> QED BY <2>1, <2>2, StandingStill
<1>6. CASE ReadPeriod(d)
  <2>1. saved' = saved
    BY <1>6 DEF ReadPeriod
  <2> QED BY <1>1, <1>6, <2>1, ReadPeriodKeeps, StandingStill
<1>7. CASE SavePeriod(d)
  BY <1>1, <1>7, SavePeriodKeeps
<1>8. ASSUME NEW b \in Bills, NEW i \in DOMAIN saved[Bill(b)].adjustments, ReverseAdjustment(d, b, i)
      PROVE  BillingInv' /\ Survive(saved, saved')
  BY <1>1, <1>8, ReverseAdjustmentKeeps
<1>9. ASSUME NEW p \in Payments, OpenPayment(d, p)
      PROVE  BillingInv' /\ Survive(saved, saved')
  <2>1. saved' = saved
    BY <1>9 DEF OpenPayment
  <2> QED BY <1>1, <1>9, <2>1, OpenPaymentKeeps, StandingStill
<1>10. ASSUME NEW b \in Bills, SavePayment(d, [NoTaxes EXCEPT ![b] = 1], "none", 0)
       PROVE  BillingInv' /\ Survive(saved, saved')
  <2>1. PICK taxes : taxes = [NoTaxes EXCEPT ![b] = 1]
    OBVIOUS
  <2>2. taxes \in [Bills -> Nat]
    BY <2>1 DEF NoTaxes
  <2>3. PICK rest : rest = 0
    OBVIOUS
  <2>4. SavePayment(d, taxes, "none", rest) /\ rest \in Nat
    BY <1>10, <2>1, <2>3
  <2> QED BY <1>1, <2>2, <2>4, SavePaymentKeeps
<1>11. CASE SavePayment(d, NoTaxes, "DONATION", 1)
  <2>1. NoTaxes \in [Bills -> Nat]
    BY DEF NoTaxes
  <2>2. PICK rest : rest = 1
    OBVIOUS
  <2>3. SavePayment(d, NoTaxes, "DONATION", rest) /\ rest \in Nat
    BY <1>11, <2>2
  <2> QED BY <1>1, <2>1, <2>3, SavePaymentKeeps
<1>12. CASE KeepAllocations(d)
  BY <1>1, <1>12, KeepAllocationsKeeps
<1>13. CASE Decides(d)
  BY <1>2, <1>3, <1>4, <1>13 DEF Decides
<1>14. CASE Adjusts(d)
  BY <1>5, <1>6, <1>7, <1>8, <1>14 DEF Adjusts
<1>15. CASE Edits(d)
  BY <1>9, <1>10, <1>11, <1>12, <1>15 DEF Edits
<1> QED BY <1>13, <1>14, <1>15

LEMMA AuditStep ==
  ASSUME BillingInv, NEW a \in Audits, Reconciles(a)
  PROVE  BillingInv' /\ Survive(saved, saved')
<1>1. a \in Tasks
  BY AgentsAreTasks
<1>2. CASE CheckAudits(a) \/ CreateAudit(a) \/ RefreshSources(a) \/ ExecuteAudit(a)
  <2>1. saved' = saved
    BY <1>2 DEF CheckAudits, CreateAudit, RefreshSources, ExecuteAudit
  <2> QED BY <1>1, <1>2, <2>1, AuditTaskKeeps, StandingStill
<1>3. CASE ExpireStale(a)
  <2>1. UNCHANGED <<saved, held, writes, task>>
    BY <1>3 DEF ExpireStale
  <2>2. saved' = saved
    BY <2>1
  <2> QED BY <2>1, <2>2, Standstill, StandingStill
<1>4. ASSUME NEW shown \in Windows, SynchronizeLines(a, shown)
      PROVE  BillingInv' /\ Survive(saved, saved')
  <2>1. BillingInv'
    BY <1>1, <1>4, SynchronizeLinesKeeps
  <2>2. saved' = saved
    BY <1>4 DEF SynchronizeLines, Write
  <2> QED BY <2>1, <2>2, StandingStill
<1>5. CASE Rebuild(a)
  <2>1. saved' = saved
    BY <1>5 DEF Rebuild, Write
  <2> QED BY <1>1, <1>5, <2>1, RebuildKeeps, StandingStill
<1>6. ASSUME NEW imported \in SUBSET Payments, ImportPayments(a, imported)
      PROVE  BillingInv' /\ Survive(saved, saved')
  <2>1. saved' = saved
    BY <1>6 DEF ImportPayments, Write
  <2> QED BY <1>1, <1>6, <2>1, ImportPaymentsKeeps, StandingStill
<1>7. CASE ReconcilePayments(a)
  <2>1. saved' = saved
    BY <1>7 DEF ReconcilePayments, Write
  <2> QED BY <1>1, <1>7, <2>1, ReconcilePaymentsKeeps, StandingStill
<1>8. CASE CommitAudit(a)
  BY <1>1, <1>8, CommitAuditKeeps
<1> QED BY <1>2, <1>3, <1>4, <1>5, <1>6, <1>7, <1>8 DEF Reconciles

LEMMA BillingStep ==
  ASSUME BillingInv, [BillingNext]_billing
  PROVE  BillingInv' /\ Survive(saved, saved')
<1>1. CASE \E d \in Directors : Decides(d) \/ Adjusts(d) \/ Edits(d)
  BY <1>1, DirectorStep
<1>2. CASE \E a \in Audits : Reconciles(a)
  BY <1>2, AuditStep
<1>3. ASSUME NEW t \in Tasks, Rollback(t)
      PROVE  BillingInv' /\ Survive(saved, saved')
  <2>1. End(t) /\ saved' = saved
    BY <1>3 DEF Rollback
  <2> QED BY <2>1, EndKeeps, StandingStill
<1>4. CASE Environment
  <2>1. UNCHANGED <<saved, held, writes, task>>
    BY <1>4 DEF Environment, ChangeExemption, ChangeOwner, ChangePreference, Event
  <2>2. saved' = saved
    BY <2>1
  <2> QED BY <2>1, <2>2, Standstill, StandingStill
<1>5. CASE UNCHANGED billing
  <2>1. UNCHANGED <<saved, held, writes, task>>
    BY <1>5 DEF billing
  <2>2. saved' = saved
    BY <2>1
  <2> QED BY <2>1, <2>2, Standstill, StandingStill
<1> QED BY <1>1, <1>2, <1>3, <1>4, <1>5 DEF BillingNext

LEMMA AlwaysSound ==
  BillingSpec => []BillingInv
<1>1. BillingInit => BillingInv
  BY StartsWithEmptyRows
<1>2. BillingInv /\ [BillingNext]_billing => BillingInv'
  BY BillingStep
<1> QED BY <1>1, <1>2, PTL DEF BillingSpec

(* However decisions, exemptions, adjustments, edits and audits overlap,   *)
(* a committed bill caches the sum of its allocations, the total of its    *)
(* active adjustments and what is due from both: recalculate_assessment    *)
(* runs on locked rows, before the commit, after every write to any of     *)
(* them.                                                                   *)
THEOREM BillsAlwaysAddUp ==
  BillingSpec => []BillsAddUp
<1>1. BillingInv => BillsAddUp
  BY DEF BillingInv, Good, AddsUp, Sound, Honest, BillsAddUp, BillAddsUp
<1> QED BY <1>1, AlwaysSound, PTL

(* No payment is allocated beyond its amount, whichever director decides   *)
(* it, and one that exclude_payment_for_exemption has set aside pays       *)
(* nothing: decide_payment reads what remains of the row it has locked.    *)
THEOREM PaymentsAreSpentOnce ==
  BillingSpec => []PaymentsSpentOnce
<1>1. BillingInv => PaymentsSpentOnce
  BY DEF BillingInv, Good, Spent, PaymentsSpentOnce
<1> QED BY <1>1, AlwaysSound, PTL

(* The commit of an audit leaves every period with the totals of its       *)
(* bills: synchronize_periods and rebuild_assessments have saved, and so   *)
(* locked, every period and bill, and nothing has charged them since.      *)
THEOREM AuditsSettle ==
  BillingSpec => AuditSettles
<1>1. BillingInv /\ [BillingNext]_billing =>
        [\A a \in Audits : CommitAudit(a) =>
           \A q \in Periods : saved'[Period(q)] = PeriodTotals(saved', q)]_billing
  <2> SUFFICES ASSUME BillingInv, NEW a \in Audits, CommitAudit(a), NEW q \in Periods
               PROVE  saved'[Period(q)] = PeriodTotals(saved', q)
    BY Zenon
  <2>1. a \in Tasks
    BY AgentsAreTasks
  <2>2. Settled(saved')
    BY <2>1, CommitAuditKeeps
  <2> QED BY <2>2 DEF Settled, SettledIn
<1> QED BY <1>1, AlwaysSound, PTL DEF BillingSpec, AuditSettles

(* decide_payment gives a bill no more than it owes when the decision      *)
(* commits, and rebuild_assessments retires no bill that carries an        *)
(* allocation or an adjustment, in any order of directors and audits.      *)
THEOREM DecisionsAlwaysHold ==
  BillingSpec => DecisionsHold
<1>1. BillingInv /\ [BillingNext]_billing =>
        [\A d \in Directors : Decide(d) =>
           \A b \in Bills : saved'[Bill(b)].paid > saved[Bill(b)].paid =>
                              saved'[Bill(b)].paid <= saved'[Bill(b)].due]_billing
  <2> SUFFICES ASSUME BillingInv, NEW d \in Directors, Decide(d), NEW b \in Bills,
                      saved'[Bill(b)].paid > saved[Bill(b)].paid
               PROVE  saved'[Bill(b)].paid <= saved'[Bill(b)].due
    BY Zenon
  <2>1. d \in Tasks
    BY AgentsAreTasks
  <2>2. Deciding(saved, task[d].payments, saved')
    BY <2>1, DecideKeeps
  <2>3. PICK old : old = saved[Bill(b)].paid
    OBVIOUS
  <2>4. PICK new : new = saved'[Bill(b)].paid
    OBVIOUS
  <2>5. new <= old \/ new <= saved'[Bill(b)].due
    BY <2>2, <2>3, <2>4 DEF Deciding, PaysOnlyDebt
  <2>6. old \in Nat /\ new \in Nat
    BY <2>2, <2>3, <2>4 DEF BillingInv, Deciding, Good, Typed, IsBill
  <2> QED BY <2>3, <2>4, <2>5, <2>6
<1>2. BillingInv /\ [BillingNext]_billing =>
        [\A b \in Bills : saved[Bill(b)].present /\ Decided(saved, b) => saved'[Bill(b)].present]_billing
  <2> SUFFICES ASSUME BillingInv, [BillingNext]_billing, NEW b \in Bills, saved[Bill(b)].present,
                      Decided(saved, b)
               PROVE  saved'[Bill(b)].present
    BY Zenon
  <2>1. Survive(saved, saved')
    BY BillingStep
  <2> QED BY <2>1 DEF Survive
<1>3. BillingSpec => DecisionTakesOnlyDebt
  BY <1>1, AlwaysSound, PTL DEF BillingSpec, DecisionTakesOnlyDebt
<1>4. BillingSpec => DecidedBillsSurvive
  BY <1>2, AlwaysSound, PTL DEF BillingSpec, DecidedBillsSurvive
<1> QED BY <1>3, <1>4, PTL DEF DecisionsHold
=============================================================================
