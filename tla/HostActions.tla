----------------------------- MODULE HostActions -----------------------------
(* The guarded host operations of VPS Health: the three views that ask for  *)
(* one, the root agent that runs it behind a unix socket, and the pages     *)
(* that copy the agent's verdict back into the database row.                *)
(*                                                                          *)
(* A view writes its row, sends the request and waits three seconds for the *)
(* answer; the agent keeps a file per operation, one thread for the one     *)
(* operation it allows, and only the files survive its restart.  Web        *)
(* workers may be killed between two statements, the agent may be killed at *)
(* any point, its file writes and the compose commands may fail.            *)
EXTENDS Naturals, FiniteSets

CONSTANTS
    Restarts,      \* the requests to restart the Auth services
    Scales,        \* the requests to set the worker count
    Scans,         \* the requests for an update scan
    Pages,         \* dashboards and detail pages that synchronise a row
    Counts,        \* the worker counts an operator may ask for
    FirstCount,    \* the count in .env, and running, at the start
    MaxTroubles,   \* bound: kills of the agent, kills of a web worker in the
                   \* middle of a request, and failed writes of the agent
    None

Requests == Restarts \cup Scales \cup Scans
ASSUME NoneAssumption == None \notin Requests

VARIABLES
    status,        \* of the database row of a request
    linked,        \* its agent_action_id is set
    view,          \* how far the view of a request is
    target,        \* target_worker_count of a request
    page,          \* the row a page is synchronising and what it was told
    agent,         \* "up" or "down"
    inbox,         \* requests on the agent's socket
    active,        \* active_action_id
    timed,         \* the operations with a last_action_time in this process
    file,          \* status in the agent's file of a request
    thread,        \* how far perform_action is for a request
    env,           \* BUH_AUTH_WORKER_COUNT in .env
    scaled,        \* the workers compose runs
    writer,        \* the request that wrote .env last
    applied,       \* requests whose command ended well
    troubles

row == <<status, linked>>
webVars == <<row, view, target, page>>
agentVars == <<agent, inbox, active, timed, file, thread>>
hostVars == <<env, scaled, writer, applied>>
actionVars == <<webVars, agentVars, hostVars, troubles>>

Statuses == {"QUEUED", "ACCEPTED", "RUNNING", "SUCCEEDED", "FAILED"}
Final == {"SUCCEEDED", "FAILED"}

NoPage == [req |-> None, told |-> "none"]

\* The operation of a request; the agent keeps one cooldown for each.
Operation(r) == CASE r \in Restarts -> "restart_auth"
                  [] r \in Scales   -> "set_workers"
                  [] r \in Scans    -> "check_updates"

\* STATUS_MAP: what a status in the agent's file is called in the database.
StatusMap(s) == CASE s = "accepted"  -> "ACCEPTED"
                  [] s = "running"   -> "RUNNING"
                  [] s = "succeeded" -> "SUCCEEDED"
                  [] s = "failed"    -> "FAILED"

ActionsInit ==
    /\ status = [r \in Requests |-> "none"] /\ linked = [r \in Requests |-> FALSE]
    /\ view = [r \in Requests |-> "idle"]
    /\ target = [r \in Requests |-> None]
    /\ page = [p \in Pages |-> NoPage]
    /\ agent = "up" /\ inbox = {} /\ active = None /\ timed = {}
    /\ file = [r \in Requests |-> "none"]
    /\ thread = [r \in Requests |-> "none"]
    /\ env = FirstCount /\ scaled = FirstCount
    /\ writer = None /\ applied = {}
    /\ troubles = 0

-----------------------------------------------------------------------------
(* The views. *)

\* check_updates refuses while the row of an earlier scan is not settled;
\* the other two views have no such test.
UnsettledScan == \E s \in Scans : status[s] \in Statuses \ Final

Allow(r) ==
    /\ view[r] = "idle" /\ r \in Scans
    /\ ~UnsettledScan
    /\ view' = [view EXCEPT ![r] = "allowed"]
    /\ UNCHANGED <<row, target, page, agentVars, hostVars, troubles>>

\* OperationalAction.objects.create, committed at once.
CreateRow(r) ==
    /\ view[r] = (IF r \in Scans THEN "allowed" ELSE "idle")
    /\ status' = [status EXCEPT ![r] = "QUEUED"] /\ UNCHANGED linked
    /\ IF r \in Scales THEN \E c \in Counts : target' = [target EXCEPT ![r] = c]
                       ELSE UNCHANGED target
    /\ view' = [view EXCEPT ![r] = "created"]
    /\ UNCHANGED <<page, agentVars, hostVars, troubles>>

\* AgentUnavailable: the view marks the row failed, which keeps no agent id.
Refused(r) ==
    /\ status' = [status EXCEPT ![r] = "FAILED"] /\ UNCHANGED linked
    /\ view' = [view EXCEPT ![r] = "done"]

\* request_agent connects and sends; without an agent it fails at once.
Submit(r) ==
    /\ view[r] = "created"
    /\ \/ /\ agent = "up"
          /\ view' = [view EXCEPT ![r] = "waiting"]
          /\ inbox' = inbox \cup {r}
          /\ UNCHANGED row
       \/ agent = "down" /\ Refused(r) /\ UNCHANGED inbox
    /\ UNCHANGED <<target, page, agent, active, timed, file, thread,
                   hostVars, troubles>>

\* Three seconds pass without an answer, or the connection breaks.
GiveUp(r) ==
    /\ view[r] \in {"waiting", "answered"}
    /\ Refused(r)
    /\ UNCHANGED <<target, page, agentVars, hostVars, troubles>>

SaveAccepted(r) ==
    /\ view[r] = "answered"
    /\ status' = [status EXCEPT ![r] = "ACCEPTED"] /\ linked' = [linked EXCEPT ![r] = TRUE]
    /\ view' = [view EXCEPT ![r] = "done"]
    /\ UNCHANGED <<target, page, agentVars, hostVars, troubles>>

\* The web worker dies in the middle of a view: the restart it asked for,
\* a deployment, a worker timeout.
KillView(r) ==
    /\ troubles < MaxTroubles
    /\ view[r] \in {"created", "waiting", "answered"}
    /\ view' = [view EXCEPT ![r] = "done"]
    /\ troubles' = troubles + 1
    /\ UNCHANGED <<row, target, page, agentVars, hostVars>>

-----------------------------------------------------------------------------
(* synchronize_action, called by the live page and by the detail page. *)

\* The row is loaded and the agent asked.  Without an agent, or when it does
\* not know the action, the page shows the row as it is.
AskStatus(p, r) ==
    /\ page[p].req = None
    /\ linked[r] /\ status[r] \notin Final
    /\ agent = "up" /\ file[r] # "none"
    /\ page' = [page EXCEPT ![p] = [req |-> r, told |-> file[r]]]
    /\ UNCHANGED <<row, view, target, agentVars, hostVars, troubles>>

SaveStatus(p) ==
    /\ page[p].req # None
    /\ status' = [status EXCEPT ![page[p].req] = StatusMap(page[p].told)] /\ UNCHANGED linked
    /\ page' = [page EXCEPT ![p] = NoPage]
    /\ UNCHANGED <<view, target, agentVars, hostVars, troubles>>

-----------------------------------------------------------------------------
(* The agent. *)

\* Mutant: the test of active_action_id is dropped.
AcceptsBusy(r) == TRUE

\* accept_action, under action_lock: nothing else may be active, and the
\* cooldown of the operation must have passed; how long ago the last one was
\* accepted is left open.
MayAccept(r) == active = None
MayRefuse(r) == active # None \/ Operation(r) \in timed

Accept(r) ==
    /\ r \in inbox
    /\ MayAccept(r)
    /\ file' = [file EXCEPT ![r] = "accepted"]
    /\ timed' = timed \cup {Operation(r)}
    /\ active' = r
    /\ thread' = [thread EXCEPT ![r] = "started"]
    /\ inbox' = inbox \ {r}
    /\ view' = [view EXCEPT ![r] = IF @ = "waiting" THEN "answered" ELSE @]
    /\ UNCHANGED <<row, target, page, agent, hostVars, troubles>>

\* A ValueError, or the file cannot be written: nothing is remembered.
Reject(r) ==
    /\ r \in inbox
    /\ \/ MayRefuse(r) /\ UNCHANGED troubles
       \/ MayAccept(r) /\ troubles < MaxTroubles /\ troubles' = troubles + 1
    /\ inbox' = inbox \ {r}
    /\ IF view[r] = "waiting" THEN Refused(r) ELSE UNCHANGED <<row, view>>
    /\ UNCHANGED <<target, page, agent, active, timed, file, thread,
                   hostVars>>

\* perform_action writes "running" outside its try.
MarkRunning(r) ==
    /\ thread[r] = "started"
    /\ file' = [file EXCEPT ![r] = "running"]
    /\ thread' = [thread EXCEPT ![r] = "applying"]
    /\ UNCHANGED <<webVars, agent, inbox, active, timed, hostVars, troubles>>

\* write_worker_count, before the compose command; it may raise.
WriteCount(r) ==
    /\ thread[r] = "applying" /\ r \in Scales
    /\ \/ /\ env' = target[r] /\ writer' = r
          /\ thread' = [thread EXCEPT ![r] = "scaling"]
          /\ UNCHANGED troubles
       \/ /\ troubles < MaxTroubles /\ troubles' = troubles + 1
          /\ thread' = [thread EXCEPT ![r] = "failed"]
          /\ UNCHANGED <<env, writer>>
    /\ UNCHANGED <<webVars, agent, inbox, active, timed, file, scaled,
                   applied>>

\* The compose command, or the scan.  A command that fails or runs out of its
\* 180 seconds may have scaled the service all the same.
RunCommand(r) ==
    /\ thread[r] = (IF r \in Scales THEN "scaling" ELSE "applying")
    /\ \/ /\ thread' = [thread EXCEPT ![r] = "succeeded"]
          /\ applied' = applied \cup {r}
          /\ scaled' = IF r \in Scales THEN target[r] ELSE scaled
       \/ /\ thread' = [thread EXCEPT ![r] = "failed"]
          /\ UNCHANGED applied
          /\ scaled' \in {scaled} \cup (IF r \in Scales THEN {target[r]} ELSE {})
    /\ UNCHANGED <<webVars, agent, inbox, active, timed, file, env, writer, troubles>>

\* The outcome is persisted; only then is active_action_id cleared.
Conclude(r) ==
    /\ thread[r] \in {"succeeded", "failed"}
    /\ file' = [file EXCEPT ![r] = thread[r]]
    /\ thread' = [thread EXCEPT ![r] = "clearing"]
    /\ UNCHANGED <<webVars, agent, inbox, active, timed, hostVars, troubles>>

ClearActive(r) ==
    /\ thread[r] = "clearing"
    /\ active' = IF active = r THEN None ELSE active
    /\ thread' = [thread EXCEPT ![r] = "none"]
    /\ UNCHANGED <<webVars, agent, inbox, timed, file, hostVars, troubles>>

\* Either file write of the thread raises outside its try: the thread ends
\* and active_action_id is never cleared.
LoseThread(r) ==
    /\ thread[r] \in {"started", "succeeded", "failed"}
    /\ troubles < MaxTroubles
    /\ troubles' = troubles + 1
    /\ thread' = [thread EXCEPT ![r] = "none"]
    /\ UNCHANGED <<webVars, agent, inbox, active, timed, file, hostVars>>

\* The agent is killed with its threads and globals; a compose command it was
\* running may have done its work.
Crash ==
    /\ agent = "up" /\ troubles < MaxTroubles
    /\ troubles' = troubles + 1
    /\ agent' = "down" /\ inbox' = {} /\ active' = None /\ timed' = {}
    /\ thread' = [r \in Requests |-> "none"]
    /\ scaled' \in {scaled} \cup {target[r] : r \in {s \in Scales : thread[s] = "scaling"}}
    /\ UNCHANGED <<webVars, file, env, writer, applied>>

\* Mutant: an operation that was accepted and not begun keeps its file.
PrepareRunning(s) == IF s = "running" THEN "failed" ELSE s

\* Mutant: every operation of an earlier agent is called failed.
PrepareEvery(s) == IF s # "none" THEN "failed" ELSE s

\* prepare_runtime: an operation a file shows unfinished did not complete.
PrepareFile(s) == IF s \in {"accepted", "running"} THEN "failed" ELSE s

Start ==
    /\ agent = "down"
    /\ file' = [r \in Requests |-> PrepareFile(file[r])]
    /\ agent' = "up"
    /\ UNCHANGED <<webVars, inbox, active, timed, thread, hostVars, troubles>>

-----------------------------------------------------------------------------
ViewStep(r) ==
    \/ Allow(r) \/ CreateRow(r) \/ Submit(r) \/ GiveUp(r) \/ SaveAccepted(r)

Work(r) ==
    \/ MarkRunning(r) \/ WriteCount(r) \/ RunCommand(r)
    \/ Conclude(r) \/ ClearActive(r)

ActionsNext ==
    \/ \E r \in Requests : ViewStep(r) \/ KillView(r)
    \/ \E r \in Requests : Accept(r) \/ Reject(r) \/ Work(r) \/ LoseThread(r)
    \/ \E p \in Pages : SaveStatus(p) \/ \E r \in Requests : AskStatus(p, r)
    \/ Crash \/ Start

ActionsSpec == ActionsInit /\ [][ActionsNext]_actionVars
=============================================================================
