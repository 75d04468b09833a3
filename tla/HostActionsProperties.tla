------------------------ MODULE HostActionsProperties ------------------------
(* What the guarded operations of VPS Health promise. *)
EXTENDS HostActions, TLC

\* Two requests for a worker count differ only in their counts.
ScaleSymmetry == Permutations(Scales)

\* A row that carries the agent's id and is settled says what the agent's file
\* says, whichever page saved last and however often the agent was restarted,
\* and a row that says "succeeded" stands for a command that ended well.
VerdictsAgree ==
    \A r \in Requests :
        linked[r] /\ status[r] \in Final =>
            /\ status[r] = StatusMap(file[r])
            /\ status[r] = "SUCCEEDED" => r \in applied

\* Once the row of the last count written to .env says "succeeded", compose
\* runs that many workers: no other operation was still on its way then, and
\* none that started earlier finishes later.
SuccessStands ==
    writer # None /\ status[writer] = "SUCCEEDED" =>
        env = target[writer] /\ scaled = target[writer]

\* A row the agent answered for never waits for nothing: the operation it waits
\* for is the one the agent holds active, or its outcome is on the agent's disk
\* for the next page to copy, or the agent has yet to start and write one.  A
\* page that saves late what it was told may take a settled row back, but only
\* while this is so.
WaitIsOwed ==
    \A r \in Requests :
        linked[r] /\ status[r] \notin Final =>
            StatusMap(file[r]) \in Final \/ active = r \/ agent = "down"

=============================================================================
