------------------------- MODULE ReleaseProperties -------------------------
(* What the preparation of releases promises.                              *)
EXTENDS ReleasePipeline

(* The manifest of a published version.                                    *)
Published(v) == ManifestOf(Tree(release[v]).ledger, v)

(* A main that carries every published release always passes the whole     *)
(* verification of verify_ledger, whatever was merged since, so that no    *)
(* sequence of merges and updates makes the next release impossible.       *)
LedgerVerifiable ==
  Released(Tip.ledger) = DOMAIN release => LedgerVerifies(history, release, main)

(* An application version names the same wheel in every published release  *)
(* (_reject_immutable_wheel_identity_collision).                           *)
WheelsAreImmutable ==
  \A v, w \in DOMAIN release : \A a \in Apps :
    Published(v).apps[a].version = Published(w).apps[a].version =>
      Published(v).apps[a].content = Published(w).apps[a].content

(* Published releases stand: their wheels and the verification of them all.*)
ReleasesStand == LedgerVerifiable /\ WheelsAreImmutable

(* A change fragment is consumed by one release only.                      *)
ChangesReleasedOnce ==
  \A v, w \in DOMAIN release :
    v # w => Published(v).changes \cap Published(w).changes = {}

(* A release is built on top of every older one: its source descends from  *)
(* their release commits ("Later releases fail closed until this release   *)
(* is merged into main", open_sync_pr.py).                                 *)
OneReleaseAtATime ==
  \A v, w \in DOMAIN release :
    Newer(w, v) => Ancestor(history, release[v], Published(w).source)

=============================================================================
