-------------------------- MODULE MirrorProperties --------------------------
(* What the public archive mirror promises (MirrorJobs).                   *)
EXTENDS MirrorJobs, TLC

(* Workers and jobs are interchangeable; no liveness is checked with this. *)
Symmetry == Permutations(Workers) \cup Permutations(Jobs)

(* "Only complete validated files replace data": whatever is killed, and   *)
(* whenever, the current path of a file holds one whole published payload. *)
CurrentIsWhole ==
  \A f \in Files : target[f] # None => \E v \in Versions : content[target[f]] = Payload(v)

(* A stored file is the payload its row names; unless it predates the      *)
(* revisions, that payload is the latest revision and is retained intact.  *)
StoredIsRetained ==
  \A f \in Files : status[f] = "STORED" =>
    /\ target[f] # None /\ content[target[f]] = digest[f]
    /\ revisions[f] # << >> =>
         /\ revisions[f][Len(revisions[f])] = digest[f]
         /\ retained[f][digest[f]] # None
         /\ content[retained[f][digest[f]]] = digest[f]

(* Retained payloads are immutable: every revision row names a path that   *)
(* still holds the bytes of its digest.                                    *)
RevisionsIntact ==
  \A f \in Files : \A i \in DOMAIN revisions[f] :
    LET inode == retained[f][revisions[f][i]]
    IN  inode # None /\ content[inode] = revisions[f][i]

(* Failed downloads never touch them; it takes a worker that dies between  *)
(* the retention of a payload and its publication.                         *)
RevisionsIntactUnlessKilled == kills = 0 => RevisionsIntact

(* The payloads and the rows that name them agree, at the current paths,   *)
(* in the revisions and between the two (_download, replace, retain).      *)
PayloadsAreIntact == CurrentIsWhole /\ StoredIsRetained /\ RevisionsIntactUnlessKilled

(* The lock makes the archive single-writer: once a worker has claimed its *)
(* job no other is RUNNING, whatever dead workers left behind, and the     *)
(* files being downloaded are the holder's.                                *)
OneJobRuns ==
  /\ Cardinality({j \in Jobs : job[j] = "RUNNING"}) <= 1
  /\ \A w \in Workers : pc[w] \in {"choose", "open", "store"} /\ session[w] =>
       /\ lock = w
       /\ \A f \in Files : status[f] = "DOWNLOADING" => f = file[w]

(* A job that ended, was refused, recovered or expired is never run after  *)
(* that, however often its message is delivered: only a new request is     *)
(* QUEUED again.                                                           *)
EndedNeverRuns ==
  [][\A j \in Jobs : job[j] \in Terminal => job'[j] # "RUNNING"]_vars

(* A job whose worker died or lost its session is not shown as running for *)
(* ever: a later run of the schedule recovers it (tasks.py:26-35).         *)
Orphaned(j) == job[j] = "RUNNING" /\ \A w \in Workers : mine[w] # j
OrphansRecovered == \A j \in Jobs : Orphaned(j) ~> job[j] # "RUNNING"
=============================================================================
