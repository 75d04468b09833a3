--------------------------- MODULE RetainedLogs ---------------------------
(***************************************************************************)
(* The scan of the retained log of one reviewed worker during a rollback   *)
(* (ops/deploy/docker_host.py _log_batches, _scan_new_logs,                *)
(* _classify_log_batch; ops/deploy/recovered_logs.py).                     *)
(*                                                                         *)
(* A log is a sequence of records, each with the second it was written in, *)
(* a kind, and of whom or from which logger it is:                         *)
(*   info       nothing the scan looks for                                 *)
(*   fatal      an error nobody reviewed                                   *)
(*   task       one of the four reviewed ESI tasks failed                  *)
(*   missing    the assets of character "of" were answered 404             *)
(*   assets     the task that lists assets failed                          *)
(*   limit      Discord answered 429 or 503                                *)
(*   denied     Discord refused the guild owner's nickname                 *)
(*   retry      the nickname task is retried, with its exact traceback     *)
(*   compact    the same, with the denial in the same record               *)
(*   exhausted  the nickname task gave up                                  *)
(* Sizes and deadlines are left out: a record or an incident over its      *)
(* bound, or a late answer, fails the scan, as any failed command does.    *)
(***************************************************************************)
EXTENDS Integers, Sequences, SequencesExt, FiniteSets

CONSTANTS
  BatchSize,        \* records of one ordinary batch
  MayLimit          \* the worker is the services worker

ASSUME BatchAssumption == BatchSize \in Nat \ {0}

Retries == {"retry", "compact"}
Denials == {"denied", "compact"}
OwnerKinds == Retries \cup Denials \cup {"exhausted"}
Relevant(r) == r.kind \in OwnerKinds

-----------------------------------------------------------------------------
(* The batches of a log, as sets of its positions.  Records that may       *)
(* belong to an owner's incident are spooled and come last, one batch for  *)
(* each second they were written in; the others come as they are read.     *)
Before(log, i) == {j \in 1..(i - 1) : ~Relevant(log[j])}
Ordinary(log) ==
  [n \in DOMAIN log |->
     {i \in DOMAIN log : /\ ~Relevant(log[i])
                         /\ Cardinality(Before(log, i)) \div BatchSize = n - 1}]
SameSecond(log, positions, i) == {j \in positions : log[j].at = log[i].at}
Owned(log, positions) == {i \in positions : Relevant(log[i])}
Incidents(log) ==
  LET owners == Owned(log, DOMAIN log) IN {SameSecond(log, owners, i) : i \in owners}

-----------------------------------------------------------------------------
(* What the review accepts: a record of before the verification, followed  *)
(* by a success of what failed.  A failure of the assets task uses up one  *)
(* character of the newest 404s of its second.                             *)
NoIncident == [at |-> -1, characters |-> {}, consumed |-> 0]
Accepts(r, incident, status, started) ==
  /\ r.at < started
  /\ \/ r.kind = "task" /\ r.at < status.task
     \/ r.kind = "missing" /\ r.at < status.assets
     \/ /\ r.kind = "assets" /\ r.at < status.assets
        /\ incident.at = r.at /\ incident.consumed < Cardinality(incident.characters)
     \/ r.kind = "limit" /\ MayLimit
Retained(r, incident) ==
  CASE r.kind = "missing" ->
         IF incident.at = r.at
         THEN [incident EXCEPT !.characters = @ \cup {r.of}]
         ELSE [at |-> r.at, characters |-> {r.of}, consumed |-> 0]
    [] r.kind = "assets" -> [incident EXCEPT !.consumed = @ + 1]
    [] OTHER -> incident

(* The strict rules for the rest.  The records of an owner's incident are  *)
(* taken together: each logger retries once and was denied once, and one   *)
(* that gave up retried before.                                            *)
Loggers(log, batch, kinds) == {log[i].of : i \in {j \in batch : log[j].kind \in kinds}}
Once(log, batch) ==
  \A i, j \in batch :
    log[i].of = log[j].of /\ i # j =>
      /\ ~(log[i].kind \in Retries /\ log[j].kind \in Retries)
      /\ log[i].kind # log[j].kind
OwnersIncident(log, batch) ==
  LET retried == Loggers(log, batch, Retries) IN
  /\ retried # {} /\ retried = Loggers(log, batch, Denials)
  /\ Loggers(log, batch, {"exhausted"}) \subseteq retried \cap Loggers(log, batch, {"denied"})
  /\ Once(log, batch)
Strict(r) == r.kind \notin OwnerKinds \cup {"info"}
(* A batch is read in its order, from the incident that those before left. *)
Read(state, r, status, started) ==
  IF Accepts(r, state.incident, status, started)
  THEN [state EXCEPT !.incident = Retained(r, @)]
  ELSE [state EXCEPT !.refused = @ \/ Strict(r)]
Review(log, batch, incident, status, started) ==
  MapThenFoldSet(LAMBDA r, state : Read(state, r, status, started),
                 [incident |-> incident, refused |-> FALSE],
                 LAMBDA i : log[i], Max, batch)
ClassifyBatch(log, batch, incident, status, started) ==
  LET owners == Owned(log, batch)
  IN [Review(log, batch, incident, status, started) EXCEPT !.refused =
        @ \/ \E i \in owners : ~OwnersIncident(log, SameSecond(log, owners, i))]

(* A scan passes when no batch was refused; a refused one does not stop it.*)
(* Owners' incidents leave the incident of the review as it is.            *)
ScanBatch(state, log, batch, status, started) ==
  LET c == ClassifyBatch(log, batch, state.incident, status, started)
  IN [incident |-> c.incident, refused |-> state.refused \/ c.refused]
Scan(log, status, started) ==
  LET read == FoldLeft(LAMBDA state, batch : ScanBatch(state, log, batch, status, started),
                       [incident |-> NoIncident, refused |-> FALSE], Ordinary(log))
  IN /\ ~read.refused
     /\ \A batch \in Incidents(log) :
          ~ClassifyBatch(log, batch, read.incident, status, started).refused
=============================================================================
