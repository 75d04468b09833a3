---------------------------- MODULE ReleasePlan ----------------------------
(***************************************************************************)
(* The planning of a platform release (ops/release/buh_release.py): which  *)
(* applications changed since the previous release of the source tree,     *)
(* what the change fragments ask for, the versions that follow, and the    *)
(* manifest that is released.                                              *)
(*                                                                         *)
(* A source tree is a record:                                              *)
(*   content    the inputs of an application, as the pull requests that    *)
(*              touched it (an input digest reads the version file as      *)
(*              0.0.0, so that a release does not change it);              *)
(*   platform   the inputs of the platform, in the same way;               *)
(*   version    the version file of each application;                      *)
(*   fragments  changes/*.toml;                                            *)
(*   ledger     the manifests under releases/platform.                     *)
(* A version is <<major, minor, patch>>.                                   *)
(***************************************************************************)
EXTENDS Integers, FiniteSets, Sequences

CONSTANTS
  Apps,            \* the applications of ops/release/apps.toml
  Requires,        \* <<a, d>>: a depends on d
  PullRequests,
  Touches,         \* the subjects whose inputs a pull request changes
  Declares,        \* the change fragments it adds: [subject, kind]
  Repins           \* the dependencies <<a, d>> it moves to the next major

Platform == "platform"
Subjects == Apps \cup {Platform}
Kinds == {"fix", "feature", "breaking"}

ASSUME AppsAssumption == Platform \notin Apps
ASSUME RequiresAssumption == Requires \subseteq Apps \X Apps
ASSUME PullAssumption ==
  /\ Touches \in [PullRequests -> SUBSET Subjects]
  /\ Declares \in [PullRequests -> SUBSET [subject : Subjects, kind : Kinds]]
  /\ Repins \in [PullRequests -> SUBSET Requires]

InitialVersion == <<0, 1, 0>>

Newer(v, w) ==
  \/ v[1] > w[1]
  \/ v[1] = w[1] /\ v[2] > w[2]
  \/ v[1] = w[1] /\ v[2] = w[2] /\ v[3] > w[3]

Bump(v, kinds) ==
  IF "breaking" \in kinds THEN <<v[1] + 1, 0, 0>>
  ELSE IF "feature" \in kinds THEN <<v[1], v[2] + 1, 0>>
  ELSE IF "fix" \in kinds THEN <<v[1], v[2], v[3] + 1>>
  ELSE v

KindsFor(t, subject) == {f.kind : f \in {g \in t.fragments : g.subject = subject}}
AllKinds(t) == {f.kind : f \in t.fragments}

-----------------------------------------------------------------------------
(* The previous release is the last one of the tree's own ledger.          *)
Bootstrap(t) == t.ledger = {}
Previous(t) ==
  CHOOSE m \in t.ledger : \A n \in t.ledger : ~Newer(n.version, m.version)

ChangedApps(t) ==
  IF Bootstrap(t) THEN Apps
  ELSE {a \in Apps : t.content[a] # Previous(t).apps[a].content}
PlatformChanged(t) == ~Bootstrap(t) /\ t.platform # Previous(t).platform

NextVersion(t, a) == Bump(t.version[a], KindsFor(t, a))
PlatformVersion(t) ==
  IF Bootstrap(t) THEN InitialVersion ELSE Bump(Previous(t).version, AllKinds(t))

(* The major version of d that the metadata of a accepts.                  *)
Pinned(t, a, d) == 1 + Cardinality({p \in t.content[a] : <<a, d>> \in Repins[p]})

VersionsOwned(t) ==
  Bootstrap(t) \/ \A a \in Apps : t.version[a] = Previous(t).apps[a].version
FragmentsMatch(t) ==
  \/ Bootstrap(t)
  \/ /\ \A a \in Apps : (a \in ChangedApps(t)) <=> (KindsFor(t, a) # {})
     /\ PlatformChanged(t) <=> (KindsFor(t, Platform) # {})
ContractsHold(t) ==
  \A r \in Requires : NextVersion(t, r[2])[1] = Pinned(t, r[1], r[2])

Plannable(t) == VersionsOwned(t) /\ FragmentsMatch(t) /\ ContractsHold(t)
ReleaseRequired(t) == ChangedApps(t) # {} \/ PlatformChanged(t)

(* The bundle: an application that did not change keeps the wheel of the   *)
(* previous release, whose bytes its version and its inputs determine.     *)
\* Mutant: the manifest names the version the application had.
ManifestUnbumped(t, source) ==
  [version  |-> PlatformVersion(t),
   source   |-> source,
   apps     |-> [a \in Apps |-> [version |-> t.version[a], content |-> t.content[a]]],
   platform |-> t.platform,
   changes  |-> t.fragments,
   previous |-> IF Bootstrap(t) THEN << >> ELSE Previous(t).version]
Manifest(t, source) ==
  [version  |-> PlatformVersion(t),
   source   |-> source,
   apps     |-> [a \in Apps |-> [version |-> NextVersion(t, a),
                                 content |-> t.content[a]]],
   platform |-> t.platform,
   changes  |-> t.fragments,
   previous |-> IF Bootstrap(t) THEN << >> ELSE Previous(t).version]

(* A wheel name and version that the history gave to other bytes.          *)
NoWheelCollision(t) ==
  \A a \in ChangedApps(t), m \in t.ledger :
    m.apps[a].version = NextVersion(t, a) => m.apps[a].content = t.content[a]

(* The tree of the release commit: its directory, the versions it built,   *)
(* and none of the fragments it consumed.                                  *)
\* Mutant: the consumed fragments stay in the tree.
ReleaseTreeKeepingFragments(t, m) ==
  [t EXCEPT !.version = [a \in Apps |-> m.apps[a].version], !.ledger = @ \cup {m}]
ReleaseTree(t, m) ==
  [t EXCEPT !.version = [a \in Apps |-> m.apps[a].version],
            !.fragments = @ \ m.changes,
            !.ledger = @ \cup {m}]
=============================================================================
