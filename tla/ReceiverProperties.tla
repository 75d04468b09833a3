------------------------- MODULE ReceiverProperties -------------------------
(* What the receiver's transactional installer promises. *)
EXTENDS ReceiverUpgrade

\* Every path durably holds content c.
Holds(files) == \A t \in Targets : disk[t] = {files[t]}
Whole == \E c \in Contents : Holds([t \in Targets |-> c])

\* While any live path may differ from the others, now or after a power loss,
\* some backup's record asks for recovery: neither a kill nor a failed record
\* write can leave a mixed receiver that nothing admits (activate_staged,
\* ReceiverSnapshot.restore, ReceiverTransaction.record).
MixedAsksForRecovery ==
    Whole \/ \E b \in Attempts : RecoveryRequired(b)

Recorded(b, s) == state[b] # s /\ state'[b] = s

\* A final record is true when it is written: `completed` only with the new
\* receiver durable everywhere, its preflight passed and no application plan
\* active; `rolled-back` only with the backup durable everywhere, and by
\* `recover` only with no application plan active.
FinalRecordsAreTrue ==
    [][\A b \in Attempts :
        /\ Recorded(b, "completed") =>
              /\ \A t \in Targets : disk'[t] = {commit[b]}
              /\ child = "passed" /\ childOf = b /\ ~marker
        /\ Recorded(b, "rolled-back") =>
              /\ Holds(payload[b])
              /\ recovering => ~marker /\ child # "running"]_vars

\* The installer always ends, even when its child hangs: it gives up the lock.
InstallerEnds == pc # "idle" ~> pc = "idle"

=============================================================================
