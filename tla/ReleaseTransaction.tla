------------------------- MODULE ReleaseTransaction -------------------------
(***************************************************************************)
(* What the deployment receiver promises, without saying how: production   *)
(* changes only inside a transaction, a committed transaction changes      *)
(* nothing any more, and a transaction is closed only when production is   *)
(* wholly the release its pointer names: the target once it is committed,  *)
(* else the release before it.                                             *)
(*                                                                         *)
(* A commit may be revoked, when what follows it fails, and the            *)
(* transaction is then rolled back.  A revoked transaction that is         *)
(* abandoned before the revocation is on record passes for a committed     *)
(* one: it may be closed on any production, which is torn until a later    *)
(* transaction is committed and closed.                                    *)
(***************************************************************************)
CONSTANTS
    Releases,   \* the platform versions
    Mixed       \* production is not wholly one release: not in Releases

VARIABLES
    phase,       \* of the transaction: "closed", "open", "committed" or "revoked"
    production,  \* the release production wholly is, or Mixed
    pointer,     \* the release the application-facing marker names
    before,      \* the pointer when the transaction was opened
    target,      \* the release the transaction installs
    torn         \* the last transaction was abandoned, production may be mixed

vars == <<phase, production, pointer, before, target, torn>>

Init ==
    /\ phase = "closed" /\ torn = FALSE
    /\ production \in Releases /\ pointer = production
    /\ before = pointer /\ target = pointer

Open ==
    /\ phase = "closed" /\ phase' = "open"
    /\ before' = pointer
    /\ target' \in Releases
    /\ UNCHANGED <<production, pointer, torn>>

\* Inside a transaction that is not committed production may take any shape.  The
\* pointer moves to the target or back.
Change ==
    /\ phase \in {"open", "revoked"}
    /\ production' \in Releases \cup {Mixed}
    /\ pointer' \in {pointer, target, before}
    /\ UNCHANGED <<phase, before, target, torn>>

Commit ==
    /\ phase = "open" /\ phase' = "committed"
    /\ production = target /\ pointer = target
    /\ UNCHANGED <<production, pointer, before, target, torn>>

Revoke ==
    /\ phase = "committed" /\ phase' = "revoked"
    /\ UNCHANGED <<production, pointer, before, target, torn>>

\* The failure is recorded over the success, the transaction is still to be restored.
RecordFailure ==
    /\ phase = "revoked" /\ phase' = "open"
    /\ UNCHANGED <<production, pointer, before, target, torn>>

\* The pointer of a closed transaction is all that is left of it.
Closed ==
    /\ phase' = "closed"
    /\ before' = pointer /\ target' = pointer
    /\ UNCHANGED <<production, pointer>>

RollBack ==
    /\ phase \in {"open", "revoked"} /\ Closed
    /\ torn \/ (production = before /\ pointer = before)
    /\ UNCHANGED torn

Finish ==
    /\ phase = "committed" /\ Closed
    /\ production = target /\ pointer = target
    /\ torn' = FALSE

Abandon ==
    /\ phase = "revoked" /\ Closed
    /\ torn' = TRUE

Next == Open \/ Change \/ Commit \/ Revoke \/ RecordFailure \/ RollBack \/ Finish \/ Abandon

Spec == Init /\ [][Next]_vars
=============================================================================
