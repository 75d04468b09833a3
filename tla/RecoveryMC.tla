---------------------------- MODULE RecoveryMC ----------------------------
(* An instance of the reviewed recovery for TLC: two workers that may log  *)
(* a failed task within a nickname denied and retried, or the failed       *)
(* assets of one character.  An error nobody reviewed is refused as these  *)
(* are when they did not recover.                                          *)
EXTENDS RecoveryProperties, TLC

Of(kind, of) == [kind |-> kind, of |-> of]
MCReports ==
  {<<Of("denied", "celery"), Of("task", "esi"), Of("retry", "celery")>>,
   <<Of("missing", "ada"), Of("assets", "esi")>>}
MCSymmetry == Permutations(Owners) \cup Permutations(Workers)
=============================================================================
