----------------------------- MODULE MirrorJobs -----------------------------
(***************************************************************************)
(* The public archive mirror of ESI History: jobs run by workers under one *)
(* database session lock (tasks.py, job_lock.py), the download of a file   *)
(* into a deterministic temporary path, its retention as a hard-linked     *)
(* revision and the replacement of the current payload (public_archive.py, *)
(* revisions.py).                                                          *)
(*                                                                         *)
(* The archive is modelled with its inodes: the temporary path, the        *)
(* current path and the revision paths of a file are names of inodes, and  *)
(* an open handle keeps writing into its inode whatever becomes of the     *)
(* names.  A payload is streamed in two chunks, so that two writers can    *)
(* mix.  A step is one database statement or one call on the file system;  *)
(* those that touch the database need the worker's session.                *)
(***************************************************************************)
EXTENDS Integers, Sequences, FiniteSets

CONSTANTS Workers, Jobs, Files, Nobody,
          MaxVersion,   \* payloads the provider may publish for a file
          MaxRequests,  \* bound of the jobs users ask for
          MaxDeliveries,  \* bound of the deliveries of one message
          MaxAttempts,  \* public_max_files_per_run
          MaxRevisions, \* bound of the revisions of a file
          MaxInodes,    \* bound of the inodes of the archive
          MaxKills,     \* bound of the workers killed
          MaxLosses,    \* bound of the database sessions lost
          MaxFaults     \* bound of both together

ASSUME NobodyAssumption == Nobody \notin Workers \cup Jobs
ASSUME FilesAssumption == Files # {}
ASSUME VersionAssumption == MaxVersion >= 1
ASSUME BoundsAssumption == {MaxVersion, MaxRevisions, MaxRequests, MaxDeliveries, 
                            MaxAttempts, MaxInodes, MaxKills, MaxLosses,
                            MaxFaults} \subseteq Nat

VARIABLES
  status, digest,          \* PublicArchiveFile: status and payload_sha256
  revisions,               \* PublicArchiveRevision: the digests in their order
  temp, target, retained,  \* the names of a file: inodes, or None
  content,                 \* what an inode holds
  job,                     \* ArchiveJob.status
  message, publishing, requests,  \* the broker, and the page that asked for the job
  lock, session,           \* the session lock, and whose session is alive
  pc, mine, file, handle, version, attempts, errors,  \* the workers
  kills, losses

rows     == <<status, digest, revisions>>
names    == <<temp, target, retained>>
archive  == <<names, content>>
broker   == <<message, publishing, requests>>
jobs     == <<job, broker>>
locking  == <<lock, session>>
transfer == <<file, handle, version>>
local    == <<mine, transfer, attempts, errors>>
bounds   == <<kills, losses>>
vars == <<rows, archive, jobs, locking, pc, local, bounds>>

Inodes == 1..MaxInodes
None == 0
Versions == 1..MaxVersion
Hole == 0
Contents == (Versions \cup {Hole}) \X (Versions \cup {Hole})
Payload(v) == <<v, v>>
Size(c) == IF c[2] # Hole THEN 2 ELSE IF c[1] # Hole THEN 1 ELSE 0
NoFile == CHOOSE f \in Files : TRUE

Terminal == {"SUCCEEDED", "FAILED"}
Waiting == {"PENDING", "FAILED"}
Steps == {"idle", "start", "refused", "recover", "claim", "reset", "catalog",
          "verify", "choose", "open", "head", "tail", "assert", "retainOld",
          "recordOld", "link", "record", "replace", "store", "unlink", "cleanup",
          "failed", "finish", "release"}

TypeOK ==
  /\ status \in [Files -> {"PENDING", "DOWNLOADING", "STORED", "FAILED"}]
  /\ digest \in [Files -> Contents]
  /\ revisions \in [Files -> Seq(Contents)]
  /\ temp \in [Files -> Inodes \cup {None}] /\ target \in [Files -> Inodes \cup {None}]
  /\ retained \in [Files -> [Contents -> Inodes \cup {None}]]
  /\ content \in [Inodes -> Contents]
  /\ job \in [Jobs -> {"none", "QUEUED", "RUNNING"} \cup Terminal]
  /\ message \in [Jobs -> 0..MaxDeliveries] /\ publishing \in [Jobs -> BOOLEAN]
  /\ requests \in 0..MaxRequests
  /\ lock \in Workers \cup {Nobody} /\ session \in [Workers -> BOOLEAN]
  /\ pc \in [Workers -> Steps]
  /\ mine \in [Workers -> Jobs \cup {Nobody}] /\ file \in [Workers -> Files]
  /\ handle \in [Workers -> Inodes \cup {None}]
  /\ version \in [Workers -> Versions]
  /\ attempts \in [Workers -> 0..MaxAttempts] /\ errors \in [Workers -> BOOLEAN]
  /\ kills \in 0..MaxKills /\ losses \in 0..MaxLosses

(* Files are new, or were stored before revisions were introduced. *)
Init ==
  /\ status \in [Files -> {"PENDING", "STORED"}]
  /\ digest = [f \in Files |-> IF status[f] = "STORED" THEN Payload(1) ELSE Payload(Hole)]
  /\ revisions = [f \in Files |-> << >>]
  /\ temp = [f \in Files |-> None]
  /\ \E number \in [Files -> Inodes] :
       /\ \A f, g \in Files : f # g => number[f] # number[g]
       /\ \A f \in Files : number[f] <= Cardinality(Files)
       /\ target = [f \in Files |-> IF status[f] = "STORED" THEN number[f] ELSE None]
  /\ retained = [f \in Files |-> [c \in Contents |-> None]]
  /\ content = [i \in Inodes |-> IF \E f \in Files : target[f] = i
                                 THEN Payload(1) ELSE Payload(Hole)]
  /\ job = [j \in Jobs |-> "none"]
  /\ message = [j \in Jobs |-> 0] /\ publishing = [j \in Jobs |-> FALSE]
  /\ requests = 0
  /\ lock = Nobody /\ session = [w \in Workers |-> TRUE]
  /\ pc = [w \in Workers |-> "idle"]
  /\ mine = [w \in Workers |-> Nobody]
  /\ file = [w \in Workers |-> NoFile]
  /\ handle = [w \in Workers |-> None]
  /\ version = [w \in Workers |-> 1]
  /\ attempts = [w \in Workers |-> 0] /\ errors = [w \in Workers |-> FALSE]
  /\ kills = 0 /\ losses = 0

Goto(w, step) == pc' = [pc EXCEPT ![w] = step]
At(w, step) == pc[w] = step
(* A statement on the worker's connection; without it, it raises. *)
OnDatabase(w, step) == At(w, step) /\ session[w]

-----------------------------------------------------------------------------
(* Jobs: _run_job.                                                         *)

(* A row nobody refers to any more makes room for the next request. *)
Unused(j) ==
  /\ job[j] \in {"none"} \cup Terminal
  /\ message[j] = 0 /\ ~publishing[j]
  /\ \A w \in Workers : mine[w] # j

Create(j) == Unused(j) /\ job' = [job EXCEPT ![j] = "QUEUED"]

(* start_job: the row, then the message.  The broker may accept the        *)
(* message and the answer still be lost: the page then fails the job,      *)
(* whatever has become of it.                                              *)
StartJob(j) ==
  /\ requests < MaxRequests /\ requests' = requests + 1
  /\ Create(j)
  /\ \E copies \in 1..MaxDeliveries : message' = [message EXCEPT ![j] = copies]
  /\ publishing' = [publishing EXCEPT ![j] = TRUE]
  /\ UNCHANGED <<rows, archive, locking, pc, local, bounds>>

Published(j) ==
  /\ publishing[j] /\ publishing' = [publishing EXCEPT ![j] = FALSE]
  /\ \/ UNCHANGED <<job, message>>
     \/ /\ job' = [job EXCEPT ![j] = "FAILED"]
        /\ message' \in {message, [message EXCEPT ![j] = 0]}
  /\ UNCHANGED <<rows, archive, requests, locking, pc, local, bounds>>

Start(w, j) ==
  /\ At(w, "idle") /\ Goto(w, "start")
  /\ mine' = [mine EXCEPT ![w] = j]
  /\ session' = [session EXCEPT ![w] = TRUE]
  /\ UNCHANGED <<rows, archive, lock, transfer, attempts, errors, bounds>>

(* run_archive_job; a message may be delivered more than once. *)
Deliver(w, j) ==
  /\ message[j] > 0 /\ message' = [message EXCEPT ![j] = @ - 1]
  /\ Start(w, j)
  /\ UNCHANGED <<job, publishing, requests>>

(* scheduled_public_archive_sync creates the row of the job it runs. *)
Schedule(w, j) ==
  /\ Create(j) /\ Start(w, j)
  /\ UNCHANGED broker

(* GET_LOCK does not wait. *)
AcquireLock(w) ==
  /\ OnDatabase(w, "start")
  /\ \/ lock = Nobody /\ lock' = w /\ Goto(w, "recover")
     \/ lock # Nobody /\ UNCHANGED lock /\ Goto(w, "refused")
  /\ UNCHANGED <<rows, archive, jobs, session, local, bounds>>

(* What an idle worker last did is forgotten. *)
Return(w) ==
  /\ Goto(w, "idle")
  /\ handle' = [handle EXCEPT ![w] = None] /\ version' = [version EXCEPT ![w] = 1]
  /\ file' = [file EXCEPT ![w] = NoFile]
  /\ mine' = [mine EXCEPT ![w] = Nobody]
  /\ attempts' = [attempts EXCEPT ![w] = 0] /\ errors' = [errors EXCEPT ![w] = FALSE]

Refuse(w) ==
  /\ OnDatabase(w, "refused")
  /\ job' = [job EXCEPT ![mine[w]] = IF @ = "QUEUED" THEN "FAILED" ELSE @]
  /\ Return(w)
  /\ UNCHANGED <<rows, archive, broker, locking, bounds>>

\* Mutant: only expired requests are failed, not what a dead worker left.
RecoverExpired(w) ==
  /\ OnDatabase(w, "recover")
  /\ \E expired \in SUBSET {j \in Jobs : job[j] = "QUEUED"} :
       job' = [j \in Jobs |-> IF j # mine[w] /\ j \in expired THEN "FAILED" ELSE job[j]]
  /\ Goto(w, "claim")
  /\ UNCHANGED <<rows, archive, broker, locking, local, bounds>>
(* The lock holder fails every other RUNNING job, and the QUEUED ones that *)
(* are older than six hours.                                               *)
Recover(w) ==
  /\ OnDatabase(w, "recover")
  /\ \E expired \in SUBSET {j \in Jobs : job[j] = "QUEUED"} :
       job' = [j \in Jobs |-> IF j # mine[w] /\ (job[j] = "RUNNING" \/ j \in expired)
                              THEN "FAILED" ELSE job[j]]
  /\ Goto(w, "claim")
  /\ UNCHANGED <<rows, archive, broker, locking, local, bounds>>

\* Mutant: a job is claimed whatever its status.
ClaimAlways(w) ==
  /\ OnDatabase(w, "claim")
  /\ job' = [job EXCEPT ![mine[w]] = "RUNNING"] /\ Goto(w, "reset")
  /\ UNCHANGED <<rows, archive, broker, locking, local, bounds>>
(* Only a QUEUED job is started. *)
Claim(w) ==
  /\ OnDatabase(w, "claim")
  /\ \/ /\ job[mine[w]] = "QUEUED"
        /\ job' = [job EXCEPT ![mine[w]] = "RUNNING"] /\ Goto(w, "reset")
     \/ job[mine[w]] # "QUEUED" /\ UNCHANGED job /\ Goto(w, "release")
  /\ UNCHANGED <<rows, archive, broker, locking, local, bounds>>

(* Downloads a dead worker left are pending again.  The kind of a job,     *)
(* which no step but the next depends on, is chosen here: a verification,  *)
(* or a catalog that a synchronisation follows with downloads.             *)
Reset(w) ==
  /\ OnDatabase(w, "reset")
  /\ status' = [f \in Files |-> IF status[f] = "DOWNLOADING" THEN "PENDING" ELSE status[f]]
  /\ \E work \in {"verify", "catalog"} : Goto(w, work)
  /\ UNCHANGED <<digest, revisions, archive, jobs, locking, local, bounds>>

(* catalog_enabled_datasets: an entry that differs from what is known makes *)
(* its file pending; the batch may stop after any entry.                   *)
Catalog(w) ==
  /\ OnDatabase(w, "catalog")
  /\ \/ \E f \in Files :
          /\ status[f] \in {"STORED", "FAILED"}
          /\ status' = [status EXCEPT ![f] = "PENDING"]
          /\ UNCHANGED pc
     \/ (\E next \in {"choose", "finish"} : Goto(w, next)) /\ UNCHANGED status
  /\ UNCHANGED <<digest, revisions, archive, jobs, locking, local, bounds>>

(* verify_archive_files compares sizes, in one pass over the rows. *)
Verify(w) ==
  /\ OnDatabase(w, "verify")
  /\ status' = [f \in Files |->
       IF status[f] = "STORED"
          /\ (target[f] = None \/ Size(content[target[f]]) # Size(digest[f]))
       THEN "PENDING" ELSE status[f]]
  /\ Goto(w, "finish")
  /\ UNCHANGED <<digest, revisions, archive, jobs, locking, local, bounds>>

Finish(w) ==
  /\ OnDatabase(w, "finish")
  /\ job' = [job EXCEPT ![mine[w]] = IF errors[w] THEN "FAILED" ELSE "SUCCEEDED"]
  /\ Goto(w, "release")
  /\ UNCHANGED <<rows, archive, broker, locking, local, bounds>>

ReleaseLock(w) ==
  /\ OnDatabase(w, "release")
  /\ lock' = Nobody
  /\ Return(w)
  /\ UNCHANGED <<rows, archive, jobs, session, bounds>>

-----------------------------------------------------------------------------
(* A download: sync_public_archive and _download_file.                     *)

(* The batch takes the next waiting file, or ends at a limit. *)
Choose(w) ==
  /\ OnDatabase(w, "choose")
  /\ \/ \E f \in Files :
          /\ status[f] \in Waiting /\ attempts[w] < MaxAttempts
          /\ Len(revisions[f]) < MaxRevisions
          /\ attempts' = [attempts EXCEPT ![w] = @ + 1]
          /\ file' = [file EXCEPT ![w] = f]
          /\ status' = [status EXCEPT ![f] = "DOWNLOADING"]
          /\ Goto(w, "open")
     \/ Goto(w, "finish") /\ UNCHANGED <<status, attempts, file>>
  /\ UNCHANGED <<digest, revisions, archive, jobs, locking, mine, handle,
                 version, errors, bounds>>

Named(i) == \E f \in Files : i \in {temp[f], target[f]}
                             \/ \E c \in Contents : retained[f][c] = i
Free == {i \in Inodes : ~Named(i) /\ \A w \in Workers : handle[w] # i}

(* O_CREAT | O_TRUNC: a temporary path that exists keeps its inode.  The   *)
(* provider serves whichever payload it has published by then.             *)
Open(w) ==
  /\ At(w, "open")
  /\ LET f == file[w] IN
     \E i \in IF temp[f] # None THEN {temp[f]} ELSE {k \in Free : \A l \in Free : k <= l} :
       /\ temp' = [temp EXCEPT ![f] = i]
       /\ content' = [content EXCEPT ![i] = Payload(Hole)]
       /\ handle' = [handle EXCEPT ![w] = i]
  /\ \E v \in Versions : version' = [version EXCEPT ![w] = v]
  /\ Goto(w, "head")
  /\ UNCHANGED <<rows, target, retained, jobs, locking, mine, file,
                 attempts, errors, bounds>>

Written(c, chunk, v) == IF chunk = 1 THEN <<v, c[2]>> ELSE <<c[1], v>>

(* A chunk is written; a response that ends early is an exception. *)
Stream(w, step, chunk, next) ==
  /\ At(w, step)
  /\ content' = [content EXCEPT ![handle[w]] = Written(@, chunk, version[w])]
  /\ Goto(w, next)
  /\ UNCHANGED <<rows, names, jobs, locking, local, bounds>>

AssertLock(w) ==
  /\ OnDatabase(w, "assert")
  /\ Goto(w, IF target[file[w]] # None THEN "retainOld" ELSE "link")
  /\ handle' = [handle EXCEPT ![w] = None]
  /\ UNCHANGED <<rows, archive, jobs, locking, mine, file, version,
                 attempts, errors, bounds>>

(* os.link under the digest.  A name that exists must hold the same bytes. *)
Retain(w, f, inode, d, next) ==
  \/ /\ retained[f][d] = None
     /\ retained' = [retained EXCEPT ![f][d] = inode] /\ Goto(w, next)
  \/ /\ retained[f][d] # None /\ UNCHANGED retained
     /\ Goto(w, IF content[retained[f][d]] = d /\ Size(content[inode]) = Size(d)
                THEN next ELSE "cleanup")

(* A payload stored before revisions existed becomes the first of them. *)
RetainOld(w) ==
  /\ OnDatabase(w, "retainOld")
  /\ LET f == file[w] IN
       \/ /\ revisions[f] = << >> /\ target[f] # None
          /\ Retain(w, f, target[f], content[target[f]], "recordOld")
       \/ revisions[f] # << >> /\ Goto(w, "link") /\ UNCHANGED retained
  /\ UNCHANGED <<rows, temp, target, content, jobs, locking, local, bounds>>

(* The row of a revision: the latest is touched, another digest appended. *)
Observed(f, d) ==
  IF revisions[f] # << >> /\ revisions[f][Len(revisions[f])] = d
  THEN revisions ELSE [revisions EXCEPT ![f] = Append(@, d)]

RecordOld(w) ==
  /\ OnDatabase(w, "recordOld")
  /\ revisions' = Observed(file[w], content[target[file[w]]])
  /\ Goto(w, "link")
  /\ UNCHANGED <<status, digest, archive, jobs, locking, local, bounds>>

(* A temporary file that is gone is not retained, and then not replaced. *)
Link(w) ==
  /\ At(w, "link")
  /\ LET f == file[w] IN
       \/ temp[f] # None /\ Retain(w, f, temp[f], Payload(version[w]), "record")
       \/ temp[f] = None /\ Goto(w, "replace") /\ UNCHANGED retained
  /\ UNCHANGED <<rows, temp, target, content, jobs, locking, local, bounds>>

(* A new row also notes the size of the temporary file, which must be there. *)
Record(w) ==
  /\ OnDatabase(w, "record")
  /\ LET later == Observed(file[w], Payload(version[w])) IN
       \/ /\ later = revisions \/ temp[file[w]] # None
          /\ revisions' = later /\ Goto(w, "replace")
       \/ /\ later # revisions /\ temp[file[w]] = None
          /\ Goto(w, "cleanup") /\ UNCHANGED revisions
  /\ UNCHANGED <<status, digest, archive, jobs, locking, local, bounds>>

Replace(w) ==
  /\ At(w, "replace")
  /\ LET f == file[w] IN
       \/ /\ temp[f] # None
          /\ target' = [target EXCEPT ![f] = temp[f]] /\ temp' = [temp EXCEPT ![f] = None]
          /\ Goto(w, "store")
       \/ temp[f] = None /\ Goto(w, "cleanup") /\ UNCHANGED <<temp, target>>
  /\ UNCHANGED <<rows, retained, content, jobs, locking, local, bounds>>

Store(w) ==
  /\ OnDatabase(w, "store")
  /\ status' = [status EXCEPT ![file[w]] = "STORED"]
  /\ digest' = [digest EXCEPT ![file[w]] = Payload(version[w])]
  /\ Goto(w, "unlink")
  /\ UNCHANGED <<revisions, archive, jobs, locking, local, bounds>>

\* Mutant: a failed download leaves its temporary path.
UnlinkOnSuccess(w) ==
  /\ \/ At(w, "unlink") /\ Goto(w, "choose") /\ temp' = [temp EXCEPT ![file[w]] = None]
     \/ At(w, "cleanup") /\ Goto(w, "failed") /\ UNCHANGED temp
  /\ UNCHANGED <<rows, target, retained, content, jobs, locking, local, bounds>>
(* finally: the temporary path is unlinked, whoever created it; bytes that *)
(* have no other name and no reader are gone.                              *)
Unlink(w) ==
  /\ \/ At(w, "unlink") /\ Goto(w, "choose")
     \/ At(w, "cleanup") /\ Goto(w, "failed")
  /\ temp' = [temp EXCEPT ![file[w]] = None]
  /\ LET f == file[w]
         last == {i \in {temp[f]} \ {None} : /\ \A c \in Contents : retained[f][c] # i
                                            /\ \A u \in Workers : handle[u] # i}
     IN  content' = [i \in Inodes |-> IF i \in last THEN Payload(Hole) ELSE content[i]]
  /\ version' = [version EXCEPT ![w] = 1]
  /\ UNCHANGED <<rows, target, retained, jobs, locking, mine, file, handle,
                 attempts, errors, bounds>>

MarkFailed(w) ==
  /\ OnDatabase(w, "failed")
  /\ status' = [status EXCEPT ![file[w]] = "FAILED"]
  /\ errors' = [errors EXCEPT ![w] = TRUE]
  /\ Goto(w, "choose")
  /\ UNCHANGED <<digest, revisions, archive, jobs, locking, mine, transfer,
                 attempts, bounds>>

-----------------------------------------------------------------------------
(* Failures.                                                               *)

Handled == {"catalog", "verify", "choose", "failed"}
InDownload == {"head", "tail", "assert", "retainOld", "recordOld", "link", "record",
               "replace", "store"}
OnDisk == {"idle", "open", "unlink", "cleanup"} \cup InDownload

(* Anything the download does may raise: a transfer that fails, ends early *)
(* or runs too long, a full disk, a statement that fails or times out.     *)
DownloadRaises(w) ==
  /\ pc[w] \in InDownload /\ Goto(w, "cleanup")
  /\ handle' = [handle EXCEPT ![w] = None]
  /\ UNCHANGED <<rows, archive, jobs, locking, mine, file, version,
                 attempts, errors, bounds>>

(* An exception of the batch fails its job. *)
BatchRaises(w) ==
  /\ pc[w] \in Handled /\ session[w]
  /\ errors' = [errors EXCEPT ![w] = TRUE] /\ Goto(w, "finish")
  /\ UNCHANGED <<rows, archive, jobs, locking, mine, transfer, attempts, bounds>>

(* On a lost session the statements of the handlers raise too. *)
TaskRaises(w) ==
  /\ ~session[w] /\ pc[w] \notin OnDisk
  /\ Return(w)
  /\ UNCHANGED <<rows, archive, jobs, locking, bounds>>

LoseSession(w) ==
  /\ ~At(w, "idle") /\ session[w] /\ losses < MaxLosses /\ kills + losses < MaxFaults
  /\ losses' = losses + 1
  /\ session' = [session EXCEPT ![w] = FALSE]
  /\ lock' = IF lock = w THEN Nobody ELSE lock
  /\ UNCHANGED <<rows, archive, jobs, pc, local, kills>>

\* Mutant: the lock outlives the session that took it.
KillKeepsLock(w) ==
  /\ ~At(w, "idle") /\ kills < MaxKills /\ kills + losses < MaxFaults
  /\ kills' = kills + 1
  /\ Return(w)
  /\ UNCHANGED <<rows, archive, jobs, locking, losses>>
(* The process ends and its session with it; nothing is cleaned up. *)
Kill(w) ==
  /\ ~At(w, "idle") /\ kills < MaxKills /\ kills + losses < MaxFaults
  /\ kills' = kills + 1
  /\ lock' = IF lock = w THEN Nobody ELSE lock
  /\ Return(w)
  /\ UNCHANGED <<rows, archive, jobs, session, losses>>

RunJob(w) ==
  \/ AcquireLock(w) \/ Refuse(w) \/ Recover(w) \/ Claim(w) \/ Reset(w)
  \/ Catalog(w) \/ Verify(w) \/ Finish(w) \/ ReleaseLock(w)
Download(w) ==
  \/ Choose(w) \/ Open(w) \/ Stream(w, "head", 1, "tail") \/ Stream(w, "tail", 2, "assert")
  \/ AssertLock(w) \/ RetainOld(w) \/ RecordOld(w) \/ Link(w) \/ Record(w) \/ Replace(w)
  \/ Store(w) \/ Unlink(w) \/ MarkFailed(w)
Step(w) ==
  RunJob(w) \/ Download(w) \/ DownloadRaises(w) \/ BatchRaises(w) \/ TaskRaises(w)

Next ==
  \/ \E j \in Jobs : StartJob(j) \/ Published(j)
  \/ \E w \in Workers, j \in Jobs : Deliver(w, j) \/ Schedule(w, j)
  \/ \E w \in Workers : Step(w) \/ LoseSession(w) \/ Kill(w)

Spec == Init /\ [][Next]_vars

(* Workers run and are bounded by time limits; the broker hands out what   *)
(* it holds; the schedule fires every hour, whenever a worker is free.     *)
FairSpec ==
  /\ Spec
  /\ \A w \in Workers : WF_vars(Step(w))
  /\ \A j \in Jobs : WF_vars(Published(j)) /\ SF_vars(\E w \in Workers : Deliver(w, j))
  /\ SF_vars(\E w \in Workers, j \in Jobs : Schedule(w, j))
=============================================================================
