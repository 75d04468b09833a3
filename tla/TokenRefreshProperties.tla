----------------------- MODULE TokenRefreshProperties -----------------------
(***************************************************************************)
(* What the locked refresh of token_refresh.py promises, stated over the   *)
(* token table, the sign-on service and the callers.                       *)
(***************************************************************************)
EXTENDS TokenRefresh, TLC

(* Tasks are interchangeable. *)
Symmetry == Permutations(Tasks)

Deletes(k) == Present(k) /\ row'[k] = Gone
Ends(t, how) == pc[t] # "idle" /\ pc'[t] = "idle" /\ outcome'[t] = how

(* The grant stored in a row, or the one its lock holder is about to       *)
(* store, is the newest one of its chain: no grant whose successor was     *)
(* stored is in the table or shown to the service again, however many      *)
(* tasks hold stale copies (token_refresh.py:3-5).                         *)
RotatedGrantNeverReused ==
  /\ \A k \in Tokens : Present(k) => row[k].grant \notin retired
  /\ \A t \in Tasks : pc[t] = "asked" => copy[t].grant \notin retired

(* Nothing deletes a row whose grant the service would still accept: a     *)
(* refusal is answered in the critical section that asked                  *)
(* (token_refresh.py:5), an incomplete answer or a lost connection deletes *)
(* nothing (lines 103-110).                                                *)
LiveGrantNeverDeleted ==
  [][\A k \in Tokens : Deletes(k) => row[k].grant \notin live]_vars

(* A refresh that was in flight when its row went away does not bring the  *)
(* row back: Model.save would insert it again.                             *)
DeletedStaysDeleted ==
  [][\A k \in Tokens : ~Present(k) => row'[k] = Gone]_vars

(* A caller that loaded the row under another identity neither stores, nor *)
(* deletes, nor is shown what the row holds now (token_refresh.py:31-34).  *)
StaleIdentityIsInert ==
  [][\A t \in Tasks : pc[t] = "start" =>
       LET k == target[t] IN
       /\ Step(t) /\ (row' # row \/ locks' # locks \/ outcome'[t] = "ok")
             => Present(k) /\ row[k].owner = copy[t].owner]_vars

(* A call that returns a single token leaves the caller with exactly the   *)
(* credentials of the row, and they have not expired                       *)
(* (token_refresh.py:57-60).                                               *)
CallerShowsTheRow ==
  [][\A t \in Tasks : Ends(t, "ok") =>
        copy'[t] = row'[target[t]] /\ ~Expired(copy'[t])]_vars

(* An empty result means that nothing usable is left: no row the call set  *)
(* out with still belongs to the identity and holds a grant the service    *)
(* would accept.  Member Audit persists an empty result as a missing token *)
(* and skips the section for good (token_refresh.py:120-123).              *)
EmptyMeansNothingLeft ==
  [][\A t \in Tasks : Ends(t, "empty") =>
        \A seen \in observed[t] :
           ~(InQueryset(t, seen[1]) /\ row[seen[1]].grant \in live)]_vars

(* What a call stores, deletes and returns is about the row as it is under *)
(* the lock and about the identity the caller loaded.                      *)
CallsActOnTheRow ==
  DeletedStaysDeleted /\ StaleIdentityIsInert /\ CallerShowsTheRow /\ EmptyMeansNothingLeft

(* Every call ends, whatever the service answers and whoever waits for     *)
(* whom.                                                                   *)
CallsEnd == \A t \in Tasks : pc[t] # "idle" ~> pc[t] = "idle"

=============================================================================
