------------------------- MODULE ApprovalProperties -------------------------
(* What the approval of a release promises.                                *)
EXTENDS PlatformApproval

Approved(v) == \E i \in 1..Len(sent) : sent[i] = <<"approved", v>>

(* What is sent to production for a merge is the exact release merged onto *)
(* its tested source, with the approval of a readiness that named a check  *)
(* of the release head that had succeeded (authorize).                     *)
DeployedAsApproved ==
  \A v \in Published : Approved(v) =>
    /\ MergedAsTested(v)
    /\ \E check \in 1..Newest(v) :
         commits[Merge(v)].marker = Payload(v, check) /\ checks[v][check] = "success"

(* One approval, or one manual run, deploys once, however often its        *)
(* workflow is run again ("rejects a workflow rerun").                     *)
OneSendPerApproval ==
  \A i, j \in 1..Len(sent) : i # j => sent[i] # sent[j]

(* A manual preflight authorizes one deployment ("or a second deployment   *)
(* dispatch for the same preflight").                                      *)
PreflightConsumedOnce ==
  \A i, j \in 1..Len(sent) :
    /\ i # j /\ sent[i][1] = "manual" /\ sent[j][1] = "manual"
    => dispatch[sent[i][2]].preflight # dispatch[sent[j][2]].preflight

(* Neither an approval nor a preflight is sent twice.                      *)
NothingIsSentTwice == OneSendPerApproval /\ PreflightConsumedOnce

(* The last boundary lets nothing pass but the newest release published:   *)
(* an approval that waited in the queue of the production group while main *)
(* moved and another release was built is refused.  That is so at the read *)
(* of main; it may still move before the pass is over.                     *)
AuthorizesTheNewest ==
  [][\A v \in Published : gate[v] = Reads - 1 /\ gate'[v] = Reads => v = Len(release)]_vars

=============================================================================
