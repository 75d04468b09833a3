--------------------------- MODULE ReleaseLedger ---------------------------
(***************************************************************************)
(* The verification of the release ledger (ops/release/ledger.py): every   *)
(* published release is replayed from its parent commit, and the source    *)
(* has to carry exactly the published releases.                            *)
(*                                                                         *)
(* History is a sequence of commits [parents, tree]; a branch namespace is *)
(* a function from the versions it holds to commits.                       *)
(***************************************************************************)
EXTENDS ReleasePlan

(* The commits reachable from c.  A parent comes before its children.      *)
Reachable(history, c) ==
  LET from[i \in 1..c] ==
        {i} \cup UNION {from[history[i].parents[k]] : k \in 1..Len(history[i].parents)}
  IN from[c]
Ancestor(history, b, c) == b \in Reachable(history, c)

Released(ledger) == {m.version : m \in ledger}
ManifestOf(ledger, v) == CHOOSE m \in ledger : m.version = v
Before(ledger, v) == {m \in ledger : Newer(v, m.version)}

(* Published remotely but absent from the source: "Stale main release      *)
(* ledger"; present but never published: refused as well.                  *)
NamespaceMatches(ledger, refs) ==
  /\ Released(ledger) = DOMAIN refs
  /\ DOMAIN refs # {} =>
       /\ InitialVersion \in DOMAIN refs
       /\ \A v \in DOMAIN refs : ~Newer(InitialVersion, v)

ParentHoldsPriorLedger(history, ledger, v, parent) ==
  history[parent].tree.ledger = Before(ledger, v)

(* What the parent says of each application: the inputs it has, the        *)
(* version its fragments lead to, a fragment if and only if it changed.    *)
AppsReplay(t, m) ==
  \A a \in Apps :
    /\ m.apps[a] = [version |-> NextVersion(t, a), content |-> t.content[a]]
    /\ Bootstrap(t) \/ t.version[a] = Previous(t).apps[a].version
    /\ Bootstrap(t) \/ ((a \in ChangedApps(t)) <=> (KindsFor(t, a) # {}))

(* The same of the platform, and the fragments consumed.                   *)
PlatformReplays(t, m) ==
  /\ m.platform = t.platform /\ m.changes = t.fragments
  /\ m.version = PlatformVersion(t)
  /\ Bootstrap(t) \/ (PlatformChanged(t) <=> (KindsFor(t, Platform) # {}))

(* The plan computed again from the parent gives the whole manifest.       *)
PlanReplays(history, m, parent) ==
  LET t == history[parent].tree
  IN Plannable(t) /\ NoWheelCollision(t) /\ m = Manifest(t, parent)

(* The release commit adds its directory, sets the planned versions and    *)
(* deletes the fragments it consumed, and nothing else.                    *)
CommitDiffExact(history, c, m, parent) ==
  history[c].tree = ReleaseTree(history[parent].tree, m)

PredecessorPublished(history, refs, m, parent) ==
  m.previous # << >> =>
    /\ m.previous \in DOMAIN refs
    /\ Ancestor(history, refs[m.previous], parent)

ReleaseVerified(history, refs, source, v) ==
  LET ledger == history[source].tree.ledger
      m == ManifestOf(ledger, v)
      c == refs[v]
  IN /\ Ancestor(history, c, source)
     /\ history[c].parents = <<m.source>>
     /\ ParentHoldsPriorLedger(history, ledger, v, m.source)
     /\ AppsReplay(history[m.source].tree, m)
     /\ PlatformReplays(history[m.source].tree, m)
     /\ PlanReplays(history, m, m.source)
     /\ CommitDiffExact(history, c, m, m.source)
     /\ PredecessorPublished(history, refs, m, m.source)

\* Mutant: only the releases that the source carries are verified.
LedgerVerifiesPresent(history, refs, source) ==
  \A v \in DOMAIN refs \cap Released(history[source].tree.ledger) :
    ReleaseVerified(history, refs, source, v)
LedgerVerifies(history, refs, source) ==
  /\ NamespaceMatches(history[source].tree.ledger, refs)
  /\ \A v \in DOMAIN refs : ReleaseVerified(history, refs, source, v)

(* The target of a release: absent, and newer than every published one.    *)
TargetAccepted(refs, v) ==
  IF DOMAIN refs = {} THEN v = InitialVersion
  ELSE \A w \in DOMAIN refs : Newer(v, w)

=============================================================================
