---------------------------- MODULE TokenRefresh ----------------------------
(***************************************************************************)
(* The row-locked refresh of rotating ESI tokens                           *)
(* (apps/structure-ops/src/buh_structure_ops/token_refresh.py).            *)
(*                                                                         *)
(* Several tasks hold copies of the same token row.  A refresh presents    *)
(* the row's refresh token (its grant) to the single sign-on service,      *)
(* which accepts every grant once and answers with the next one.  The      *)
(* guard reloads the row under a row lock before it presents anything, and *)
(* deletes a refused row in the same critical section.                     *)
(*                                                                         *)
(* One row lock brackets one transaction: what a task does to a row        *)
(* without asking the service is one action; asking (Ask) and committing   *)
(* the answer (Save) are two more, the lock being held between them.       *)
(***************************************************************************)
EXTENDS Integers, FiniteSets

CONSTANTS Tasks, Tokens, Free, Gone,
          MaxClock,     \* bound of the clock
          MaxGrants,    \* bound of the grants the service issues
          MaxOwner,     \* bound of the changes of identity of a row
          MaxKills      \* bound of the tasks killed

ASSUME FreeAssumption == Free \notin Tasks
ASSUME GoneAssumption == Gone \notin [owner : Nat, created : Nat, grant : Nat]
ASSUME BoundsAssumption == /\ MaxClock \in Nat /\ MaxGrants \in Nat
                           /\ MaxOwner \in Nat /\ MaxKills \in Nat
ASSUME TokensAssumption == IsFiniteSet(Tokens) /\ Cardinality(Tokens) <= MaxGrants

VARIABLES
  clock,       \* an access token issued at c has expired when clock > c
  row,         \* the token table: a row, or Gone
  locks,       \* the task that holds the row lock of a token, or Free
  issued,      \* grants are numbered 1..issued in the order they are issued
  live,        \* the grants the service would accept
  retired,     \* the grants whose successor was stored in the row
  kills,
  pc,          \* where a task stands in its call
  call,        \* the operation it runs
  target,      \* the token it works on
  copy,        \* the instance in its memory
  observed,    \* bulk_refresh: the pairs (token, created) it set out with
  visited,     \* bulk_refresh: the tokens done
  kept,        \* bulk_refresh: accepted; with the fresh ones of require_valid
  incomplete,  \* bulk_refresh: some answer was incomplete
  answer,      \* the grant the service answered with
  outcome      \* how the last call of a task ended

table == <<row, locks>>
service == <<issued, live, retired>>
bulk == <<observed, visited, kept, incomplete>>
vars == <<clock, row, locks, issued, live, retired, kills,
          pc, call, target, copy, observed, visited, kept, incomplete, answer, outcome>>

NoGrant == 0
Grants == 0..MaxGrants
Of(identity) == [owner |-> identity, created |-> 0, grant |-> NoGrant]
Blank == Of(0)
Rows == [owner : 0..MaxOwner, created : 0..MaxClock, grant : Grants]
Single == {"refresh", "refresh_or_delete"}
Bulk == {"bulk_refresh", "require_valid"}
Outcomes == {"none", "ok", "tokens", "empty", "incomplete", "error"}

Expired(r) == clock > r.created
Present(k) == row[k] # Gone
InQueryset(t, k) == Present(k) /\ row[k].owner = copy[t].owner

TypeOK ==
  /\ clock \in 0..MaxClock
  /\ row \in [Tokens -> Rows \cup {Gone}]
  /\ locks \in [Tokens -> Tasks \cup {Free}]
  /\ issued \in Grants
  /\ live \subseteq 1..issued /\ retired \subseteq Grants
  /\ kills \in 0..MaxKills
  /\ pc \in [Tasks -> {"idle", "start", "loop", "asked", "answered"}]
  /\ call \in [Tasks -> Single \cup Bulk]
  /\ target \in [Tasks -> Tokens]
  /\ copy \in [Tasks -> Rows]
  /\ observed \in [Tasks -> SUBSET (Tokens \X (0..MaxClock))]
  /\ visited \in [Tasks -> SUBSET Tokens]
  /\ kept \in [Tasks -> SUBSET Tokens]
  /\ incomplete \in [Tasks -> BOOLEAN]
  /\ answer \in [Tasks -> Grants]
  /\ outcome \in [Tasks -> Outcomes]

(* Every row starts expired-to-be at 0 with a grant of its own, or with    *)
(* none (a token that cannot be refreshed).                                *)
Init ==
  /\ clock = 0
  /\ issued = Cardinality(Tokens)
  /\ live = 1..issued
  /\ \E grantOf \in [Tokens -> 0..issued] :
        /\ \A j, k \in Tokens : j # k /\ grantOf[j] = grantOf[k] => grantOf[j] = NoGrant
        /\ row = [k \in Tokens |-> [owner |-> 0, created |-> 0, grant |-> grantOf[k]]]
  /\ retired = {}
  /\ locks = [k \in Tokens |-> Free]
  /\ kills = 0
  /\ pc = [t \in Tasks |-> "idle"]
  /\ call \in [Tasks -> {"refresh"}]
  /\ \E k \in Tokens : target = [t \in Tasks |-> k]
  /\ copy = [t \in Tasks |-> Blank]
  /\ observed = [t \in Tasks |-> {}]
  /\ visited = [t \in Tasks |-> {}]
  /\ kept = [t \in Tasks |-> {}]
  /\ incomplete = [t \in Tasks |-> FALSE]
  /\ answer = [t \in Tasks |-> NoGrant]
  /\ outcome = [t \in Tasks |-> "none"]

-----------------------------------------------------------------------------
(* Calls.                                                                  *)

(* A task loads an instance and later calls refresh or refresh_or_delete.  *)
LoadInstance(t, k, op) ==
  /\ pc[t] = "idle" /\ Present(k)
  /\ pc' = [pc EXCEPT ![t] = "start"]
  /\ call' = [call EXCEPT ![t] = op]
  /\ target' = [target EXCEPT ![t] = k]
  /\ copy' = [copy EXCEPT ![t] = row[k]]
  /\ outcome' = [outcome EXCEPT ![t] = "none"]
  /\ UNCHANGED <<clock, table, service, kills, bulk, answer>>

(* bulk_refresh observes the rows of its queryset (the tokens of one       *)
(* identity); require_valid passes it the expired ones and keeps the rest. *)
Observe(t, owner, op) ==
  LET matching == {k \in Tokens : Present(k) /\ row[k].owner = owner}
      fresh == IF op = "require_valid"
               THEN {k \in matching : ~Expired(row[k])} ELSE {}
  IN /\ pc[t] = "idle"
     /\ pc' = [pc EXCEPT ![t] = "loop"]
     /\ call' = [call EXCEPT ![t] = op]
     /\ copy' = [copy EXCEPT ![t] = Of(owner)]
     /\ observed' = [observed EXCEPT ![t] = {<<k, row[k].created>> : k \in matching \ fresh}]
     /\ visited' = [visited EXCEPT ![t] = {}]
     /\ kept' = [kept EXCEPT ![t] = fresh]
     /\ incomplete' = [incomplete EXCEPT ![t] = FALSE]
     /\ outcome' = [outcome EXCEPT ![t] = "none"]
     /\ UNCHANGED <<clock, table, service, kills, target, answer>>

(* The call returns or raises: its local variables are gone, the caller    *)
(* keeps the outcome and the instance it was left with.                    *)
EndWith(t, how, instance) ==
  /\ pc' = [pc EXCEPT ![t] = "idle"]
  /\ outcome' = [outcome EXCEPT ![t] = how]
  /\ copy' = [copy EXCEPT ![t] = instance]
  /\ call' = [call EXCEPT ![t] = "refresh"]
  /\ observed' = [observed EXCEPT ![t] = {}]
  /\ visited' = [visited EXCEPT ![t] = {}]
  /\ kept' = [kept EXCEPT ![t] = {}]
  /\ incomplete' = [incomplete EXCEPT ![t] = FALSE]
  /\ answer' = [answer EXCEPT ![t] = NoGrant]
End(t, how) == EndWith(t, how, Blank)

(* select_for_update waits for the holder of the row lock. *)
CanLock(k) == locks[k] = Free
TakeLock(t, k) == locks' = [locks EXCEPT ![k] = t]
Release(k) == locks' = [locks EXCEPT ![k] = Free]
\* Mutant: the identity is not compared.
SameIdentityNotCompared(t, k) == TRUE
SameIdentity(t, k) == row[k].owner = copy[t].owner

(* Some sibling refreshed the row after this task loaded it. *)
Renewed(created, r) == r.created > created /\ ~Expired(r)

-----------------------------------------------------------------------------
(* refresh and refresh_or_delete.                                          *)

(* The row is gone (refresh raises, refresh_or_delete returns) or belongs  *)
(* to another identity: nothing is presented.                              *)
NoLongerOurs(t) ==
  LET k == target[t] IN
  /\ pc[t] = "start" /\ CanLock(k)
  /\ \/ ~Present(k) /\ End(t, IF call[t] = "refresh" THEN "error" ELSE "none")
     \/ Present(k) /\ ~SameIdentity(t, k) /\ End(t, "incomplete")
  /\ UNCHANGED <<clock, table, service, kills, target>>

(* A sibling's result is reused. *)
Reuse(t) ==
  LET k == target[t] IN
  /\ pc[t] = "start" /\ CanLock(k) /\ Present(k) /\ SameIdentity(t, k)
  /\ Renewed(copy[t].created, row[k])
  /\ EndWith(t, "ok", row[k])
  /\ UNCHANGED <<clock, table, service, kills, target>>

(* A token without a grant cannot be refreshed: refresh raises a           *)
(* TokenError, refresh_or_delete answers it by deleting the row.           *)
NotRefreshable(t) ==
  LET k == target[t] IN
  /\ pc[t] = "start" /\ CanLock(k) /\ Present(k) /\ SameIdentity(t, k)
  /\ ~Renewed(copy[t].created, row[k])
  /\ row[k].grant = NoGrant
  /\ \/ call[t] = "refresh" /\ End(t, "error") /\ UNCHANGED row
     \/ call[t] = "refresh_or_delete" /\ End(t, "none")
        /\ row' = [row EXCEPT ![k] = Gone]
  /\ UNCHANGED <<clock, locks, service, kills, target>>

\* Mutant: the caller's own copy is refreshed, not the reloaded row.
LockToRefreshStaleCopy(t) ==
  LET k == target[t] IN
  /\ pc[t] = "start" /\ CanLock(k) /\ Present(k) /\ SameIdentity(t, k)
  /\ row[k].grant # NoGrant /\ copy[t].grant # NoGrant
  /\ TakeLock(t, k)
  /\ pc' = [pc EXCEPT ![t] = "asked"]
  /\ UNCHANGED <<clock, row, service, kills, call, target, copy, bulk, answer, outcome>>
(* The reloaded row is refreshed with its own grant; the lock stays held. *)
LockToRefresh(t) ==
  LET k == target[t] IN
  /\ pc[t] = "start" /\ CanLock(k) /\ Present(k) /\ SameIdentity(t, k)
  /\ ~Renewed(copy[t].created, row[k])
  /\ row[k].grant # NoGrant
  /\ TakeLock(t, k)
  /\ copy' = [copy EXCEPT ![t] = row[k]]
  /\ pc' = [pc EXCEPT ![t] = "asked"]
  /\ UNCHANGED <<clock, row, service, kills, call, target, bulk, answer, outcome>>

-----------------------------------------------------------------------------
(* bulk_refresh: one observed row at a time, each in its own transaction.  *)

Visit(t, k, created) ==
  /\ pc[t] = "loop" /\ <<k, created>> \in observed[t] /\ k \notin visited[t]
  /\ CanLock(k)
Visited(t, k) == visited' = [visited EXCEPT ![t] = @ \cup {k}] /\ UNCHANGED observed

SkipRow(t, k, created) ==
  /\ Visit(t, k, created) /\ ~InQueryset(t, k)
  /\ Visited(t, k)
  /\ UNCHANGED <<clock, table, service, kills, pc, call, target, copy, kept,
                 incomplete, answer, outcome>>

(* Renewed by a sibling, or valid although it cannot be refreshed. *)
AcceptRow(t, k, created) ==
  /\ Visit(t, k, created) /\ InQueryset(t, k)
  /\ \/ Renewed(created, row[k])
     \/ row[k].grant = NoGrant /\ ~Expired(row[k])
  /\ Visited(t, k)
  /\ kept' = [kept EXCEPT ![t] = @ \cup {k}]
  /\ UNCHANGED <<clock, table, service, kills, pc, call, target, copy,
                 incomplete, answer, outcome>>

DeleteExpiredRow(t, k, created) ==
  /\ Visit(t, k, created) /\ InQueryset(t, k)
  /\ row[k].grant = NoGrant /\ Expired(row[k])
  /\ Visited(t, k)
  /\ row' = [row EXCEPT ![k] = Gone]
  /\ UNCHANGED <<clock, locks, service, kills, pc, call, target, copy, kept,
                 incomplete, answer, outcome>>

LockRow(t, k, created) ==
  /\ Visit(t, k, created) /\ InQueryset(t, k)
  /\ ~Renewed(created, row[k]) /\ row[k].grant # NoGrant
  /\ Visited(t, k)
  /\ TakeLock(t, k)
  /\ target' = [target EXCEPT ![t] = k]
  /\ copy' = [copy EXCEPT ![t] = row[k]]
  /\ pc' = [pc EXCEPT ![t] = "asked"]
  /\ UNCHANGED <<clock, row, service, kills, call, kept, incomplete, answer, outcome>>

(* The queryset is evaluated again, restricted to the accepted rows.  Only *)
(* an incomplete answer and nothing usable is an error.                    *)
Finish(t) ==
  LET usable == {k \in kept[t] : InQueryset(t, k)} IN
  /\ pc[t] = "loop" /\ \A seen \in observed[t] : seen[1] \in visited[t]
  /\ End(t, IF usable # {} THEN "tokens"
            ELSE IF incomplete[t] THEN "incomplete" ELSE "empty")
  /\ UNCHANGED <<clock, table, service, kills, target>>

-----------------------------------------------------------------------------
(* The service and the answers to it, the row lock being held.             *)

(* The loop of bulk_refresh goes on; the single operations return. *)
Resume(t, how, instance, accepted, unanswered) ==
  \/ /\ call[t] \in Bulk
     /\ pc' = [pc EXCEPT ![t] = "loop"]
     /\ copy' = [copy EXCEPT ![t] = Of(copy[t].owner)]
     /\ kept' = [kept EXCEPT ![t] = @ \cup accepted]
     /\ incomplete' = [incomplete EXCEPT ![t] = @ \/ unanswered]
     /\ answer' = [answer EXCEPT ![t] = NoGrant]
     /\ UNCHANGED <<call, observed, visited, outcome>>
  \/ call[t] \in Single /\ EndWith(t, how, instance)

(* The service rotates the grant it was shown and issues the next one. *)
Rotates(t) ==
  /\ copy[t].grant \in live /\ issued < MaxGrants
  /\ issued' = issued + 1
  /\ live' = (live \ {copy[t].grant}) \cup {issued + 1}
  /\ UNCHANGED retired

Granted(t) ==
  /\ pc[t] = "asked" /\ Rotates(t)
  /\ answer' = [answer EXCEPT ![t] = issued + 1]
  /\ pc' = [pc EXCEPT ![t] = "answered"]
  /\ UNCHANGED <<clock, table, kills, call, target, copy, bulk, outcome>>

(* The rotated credentials are saved, the transaction commits, and the     *)
(* caller's instance shows the row.                                        *)
Save(t) ==
  LET k == target[t]
      renewed == [owner |-> copy[t].owner, created |-> clock, grant |-> answer[t]]
  IN /\ pc[t] = "answered"
     /\ row' = [row EXCEPT ![k] = renewed]
     /\ retired' = retired \cup {copy[t].grant}
     /\ Release(k) /\ Resume(t, "ok", renewed, {k}, FALSE)
     /\ UNCHANGED <<clock, issued, live, kills, target>>

\* Mutant: the transaction stays open when the service refuses.
RefusedKeepsLock(t) ==
  /\ pc[t] = "asked" /\ copy[t].grant \notin live
  /\ \/ call[t] = "refresh" /\ UNCHANGED row
     \/ call[t] # "refresh" /\ row' = [row EXCEPT ![target[t]] = Gone]
  /\ Resume(t, IF call[t] = "refresh" THEN "error" ELSE "none", Blank, {}, FALSE)
  /\ UNCHANGED <<clock, locks, service, kills, target>>
(* The service refuses a grant it does not know: refresh raises, and the   *)
(* other operations delete the row before they release it.                 *)
Refused(t) ==
  LET k == target[t] IN
  /\ pc[t] = "asked" /\ copy[t].grant \notin live
  /\ \/ call[t] = "refresh" /\ UNCHANGED row
     \/ call[t] # "refresh" /\ row' = [row EXCEPT ![k] = Gone]
  /\ Release(k)
  /\ Resume(t, IF call[t] = "refresh" THEN "error" ELSE "none", Blank, {}, FALSE)
  /\ UNCHANGED <<clock, service, kills, target>>

\* Mutant: an incomplete answer is taken for a refusal.
IncompleteDeletes(t) ==
  /\ pc[t] = "asked"
  /\ Rotates(t) \/ UNCHANGED service
  /\ row' = IF call[t] = "refresh" THEN row ELSE [row EXCEPT ![target[t]] = Gone]
  /\ Release(target[t]) /\ Resume(t, "incomplete", Blank, {}, TRUE)
  /\ UNCHANGED <<clock, kills, target>>
(* An answer without credentials, whether or not the service rotated. *)
Incomplete(t) ==
  /\ pc[t] = "asked"
  /\ Rotates(t) \/ UNCHANGED service
  /\ Release(target[t]) /\ Resume(t, "incomplete", Blank, {}, TRUE)
  /\ UNCHANGED <<clock, row, kills, target>>

(* A timeout or a lost connection ends the whole call. *)
TransportError(t) ==
  /\ pc[t] = "asked"
  /\ Rotates(t) \/ UNCHANGED service
  /\ Release(target[t]) /\ End(t, "error")
  /\ UNCHANGED <<clock, row, kills, target>>

(* The worker process is killed: its transaction rolls back. *)
Kill(t) ==
  /\ pc[t] # "idle" /\ kills < MaxKills
  /\ kills' = kills + 1
  /\ locks' = [k \in Tokens |-> IF locks[k] = t THEN Free ELSE locks[k]]
  /\ End(t, "none")
  /\ UNCHANGED <<clock, row, service, target>>

-----------------------------------------------------------------------------
(* Time and the other writers of the table, which wait for the row lock.   *)

Tick ==
  /\ clock < MaxClock /\ clock' = clock + 1
  /\ UNCHANGED <<table, service, kills, pc, call, target, copy, bulk, answer, outcome>>

(* The user logs in again: the row gets the credentials of the login. *)
Reauthorize(k) ==
  /\ Present(k) /\ CanLock(k) /\ issued < MaxGrants
  /\ issued' = issued + 1 /\ live' = live \cup {issued + 1} /\ UNCHANGED retired
  /\ row' = [row EXCEPT ![k] = [owner |-> row[k].owner, created |-> clock,
                                grant |-> issued + 1]]
  /\ UNCHANGED <<clock, locks, kills, pc, call, target, copy, bulk, answer, outcome>>

(* The row moves to an identity it never had before. *)
Reassign(k) ==
  /\ Present(k) /\ CanLock(k) /\ row[k].owner < MaxOwner
  /\ row' = [row EXCEPT ![k] = [owner |-> row[k].owner + 1, created |-> row[k].created,
                                grant |-> row[k].grant]]
  /\ UNCHANGED <<clock, locks, service, kills, pc, call, target, copy, bulk, answer, outcome>>

(* The owner revokes the application at the service. *)
Revoke(g) ==
  /\ g \in live /\ live' = live \ {g}
  /\ UNCHANGED <<clock, table, issued, retired, kills, pc, call, target, copy,
                 bulk, answer, outcome>>

-----------------------------------------------------------------------------
Begin(t) ==
  \/ \E k \in Tokens, op \in Single : LoadInstance(t, k, op)
  \/ \E owner \in 0..MaxOwner, op \in Bulk : Observe(t, owner, op)
Step(t) ==
  \/ NoLongerOurs(t) \/ Reuse(t) \/ NotRefreshable(t) \/ LockToRefresh(t)
  \/ \E k \in Tokens, created \in 0..MaxClock :
        \/ SkipRow(t, k, created) \/ AcceptRow(t, k, created)
        \/ DeleteExpiredRow(t, k, created) \/ LockRow(t, k, created)
  \/ Finish(t)
  \/ Granted(t) \/ Save(t) \/ Refused(t) \/ Incomplete(t) \/ TransportError(t)
Environment ==
  \/ Tick
  \/ \E k \in Tokens : Reauthorize(k) \/ Reassign(k)
  \/ \E g \in live : Revoke(g)
Next ==
  \/ \E t \in Tasks : Begin(t) \/ Step(t) \/ Kill(t)
  \/ Environment

Spec == Init /\ [][Next]_vars

(* Workers run their calls, a request to the service has a timeout, and    *)
(* the waiters of a row lock are served in turn: a step that is possible   *)
(* again and again is taken.                                               *)
Live == Spec /\ \A t \in Tasks : SF_vars(Step(t))
=============================================================================
