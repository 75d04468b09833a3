----------------------- MODULE ReleaseAndTokenProofs -----------------------
(***************************************************************************)
(* Proofs about the preparation of releases (ReleasePipeline), for any     *)
(* applications, dependencies, pull requests and fragments and any number  *)
(* of builds, and about the locked token refresh (TokenRefresh), for any   *)
(* number of tasks, rows, grants, ticks and kills.  They share no state.   *)
(*                                                                         *)
(* The argument for releases: a manifest in any tree is the plan of the    *)
(* source its version was built from, and the tree's commit descends from  *)
(* that release (LedgerInv); what is carried was consumed (FragmentInv);   *)
(* a release is the plan of a source that carried every older one          *)
(* (ReleaseInv).  main moves under a build, but what was planned and       *)
(* verified is a function of its source, and only its own push publishes   *)
(* (BuildInv).                                                             *)
(*                                                                         *)
(* The argument for tokens: between a row lock and its release the row is  *)
(* the copy the holder presents (HolderSeesTheRow), every grant in the     *)
(* table is distinct and unretired, and so is every answer not yet saved   *)
(* (GrantsDistinct).  Then what is presented was never retired, and what   *)
(* a refusal deletes is what the service refused.  What a bulk call says   *)
(* of the rows it has left follows from BulkInv: identities only move on,  *)
(* so a row that has left its queryset does not come back.                 *)
(***************************************************************************)
EXTENDS ReleaseProperties, TokenRefreshProperties, SequenceTheorems, FiniteSetTheorems,
        WellFoundedInduction, TLAPS

(* Sequences, whatever they hold.                                          *)
IsSequence(s) == \E S : s \in Seq(S)
LEMMA Lengths ==
  ASSUME NEW s, IsSequence(s)
  PROVE  Len(s) \in Nat
BY DEF IsSequence

Extended(s, t, e) ==
  /\ IsSequence(t) /\ Len(t) = Len(s) + 1 /\ Len(s) \in Nat
  /\ t[Len(s) + 1] = e
  /\ \A i \in 1..Len(s) : t[i] = s[i]
LEMMA Appended ==
  ASSUME NEW s, IsSequence(s), NEW e, NEW t, t = Append(s, e)
  PROVE  Extended(s, t, e)
<1>1. PICK S : s \in Seq(S)
  BY DEF IsSequence
<1>2. s \in Seq(S \cup {e})
  BY <1>1
<1>3. t \in Seq(S \cup {e})
  BY <1>2, AppendProperties
<1>4. IsSequence(t)
  BY <1>3 DEF IsSequence
<1> QED BY <1>2, <1>4, AppendProperties DEF Extended

LEMMA OneLong ==
  ASSUME NEW e
  PROVE  IsSequence(<<e>>) /\ Len(<<e>>) = 1 /\ <<e>>[1] = e
<1>1. <<e>> \in Seq({e})
  OBVIOUS
<1> QED BY <1>1 DEF IsSequence

LEMMA TwoLong ==
  ASSUME NEW d, NEW e
  PROVE  IsSequence(<<d, e>>) /\ Len(<<d, e>>) = 2 /\ <<d, e>>[1] = d /\ <<d, e>>[2] = e
<1>1. <<d, e>> \in Seq({d, e})
  OBVIOUS
<1> QED BY <1>1 DEF IsSequence

(* Induction over the naturals as a fact about sets.                       *)
LEMMA NatSetInduction ==
  ASSUME NEW T, 0 \in T, \A n \in Nat : n \in T => n + 1 \in T
  PROVE  Nat \subseteq T
<1> DEFINE Outside == Nat \ T
           Less == OpToRel(<, Nat)
<1>1. SUFFICES ASSUME Outside # {} PROVE FALSE
  BY Zenon
<1>2. IsWellFoundedOn(Less, Nat)
  BY NatLessThanWellFounded, Zenon
<1>3. ASSUME NEW a \in Nat, NEW b \in Nat, a < b
      PROVE  <<a, b>> \in Less
  BY <1>3 DEF OpToRel
<1> HIDE DEF Less
<1>4. Outside \subseteq Nat
  OBVIOUS
<1>5. PICK n \in Outside : \A m \in Outside : ~ (<<m, n>> \in Less)
  <2> HIDE DEF Outside
  <2> QED BY <1>1, <1>2, <1>4, WFMin, Zenon
<1>6. n # 0 /\ n \in Nat
  OBVIOUS
<1>7. n - 1 \in Nat /\ n - 1 < n /\ (n - 1) + 1 = n
  BY <1>6
<1>8. n - 1 \in Outside
  BY <1>7
<1> QED BY <1>3, <1>5, <1>6, <1>7, <1>8
-----------------------------------------------------------------------------
(* A history: parents are earlier commits.  What a commit reaches is a     *)
(* recursive function of the history, defined by induction over it.        *)
History(h) ==
  /\ IsSequence(h)
  /\ \A c \in 1..Len(h) :
       /\ IsSequence(h[c].parents)
       /\ \A k \in 1..Len(h[c].parents) : h[c].parents[k] \in 1..(c - 1)
ReachedBy(h, f, c) == {c} \cup UNION {f[h[c].parents[k]] : k \in 1..Len(h[c].parents)}

LEMMA ReachedByEarlier ==
  ASSUME NEW h, History(h), NEW c \in 1..Len(h), NEW f, NEW g, \A p \in 1..(c - 1) : f[p] = g[p]
  PROVE  ReachedBy(h, f, c) = ReachedBy(h, g, c)
<1>1. \A k \in 1..Len(h[c].parents) : f[h[c].parents[k]] = g[h[c].parents[k]]
  BY DEF History
<1>2. {f[h[c].parents[k]] : k \in 1..Len(h[c].parents)} = {g[h[c].parents[k]] : k \in 1..Len(h[c].parents)}
  BY <1>1, Zenon
<1> QED BY <1>2 DEF ReachedBy

LEMMA ReachedExists ==
  ASSUME NEW h, History(h), NEW n \in Nat, n <= Len(h)
  PROVE  \E f : f = [c \in 1..n |-> ReachedBy(h, f, c)]
<1> DEFINE Defines(f, m) == f = [c \in 1..m |-> ReachedBy(h, f, c)]
           T == {m \in Nat : m <= n => \E f : Defines(f, m)}
<1>0. Len(h) \in Nat
  BY Lengths DEF History
<1>1. 0 \in T
  <2>1. Defines([c \in 1..0 |-> {}], 0)
    OBVIOUS
  <2> QED BY <2>1
<1>2. ASSUME NEW m \in Nat, m \in T
      PROVE  m + 1 \in T
  <2> SUFFICES ASSUME m + 1 <= n PROVE \E f : Defines(f, m + 1)
    OBVIOUS
  <2>1. PICK f : Defines(f, m)
    BY <1>2
  <2>2. PICK g : g = [c \in 1..(m + 1) |-> IF c = m + 1 THEN ReachedBy(h, f, c) ELSE f[c]]
    OBVIOUS
  <2>3. \A c \in 1..m : g[c] = f[c]
    BY <2>2
  <2>4. ASSUME NEW c \in 1..(m + 1)
        PROVE  g[c] = ReachedBy(h, g, c)
    <3>1. c \in 1..Len(h) /\ \A p \in 1..(c - 1) : f[p] = g[p]
      BY <1>0, <2>3
    <3>2. ReachedBy(h, f, c) = ReachedBy(h, g, c)
      BY <3>1, ReachedByEarlier
    <3>3. CASE c = m + 1
      <4>1. g[c] = ReachedBy(h, f, c)
        BY <2>2, <3>3
      <4> QED BY <3>2, <4>1, Zenon
    <3>4. CASE c # m + 1
      <4>1. c \in 1..m
        BY <3>4
      <4>2. g[c] = f[c]
        BY <2>3, <4>1
      <4>3. f[c] = ReachedBy(h, f, c)
        BY <2>1, <4>1, Zenon
      <4> QED BY <3>2, <4>2, <4>3, Zenon
    <3> QED BY <3>3, <3>4
  <2>5. g = [c \in 1..(m + 1) |-> g[c]]
    BY <2>2
  <2>6. Defines(g, m + 1)
    BY <2>4, <2>5, Zenon
  <2> QED BY <2>6, Zenon
<1>3. n \in T
  <2> HIDE DEF T
  <2> QED BY <1>1, <1>2, NatSetInduction
<1> QED BY <1>3

(* Histories that agree up to a commit reach the same from it.             *)
Agree(h, g, n) == \A c \in 1..n : g[c].parents = h[c].parents
Reaches(h, f, n) == \A c \in 1..n : f[c] = ReachedBy(h, f, c)
LEMMA ReachedUnique ==
  ASSUME NEW h, NEW g, History(h), NEW n \in Nat, n <= Len(h), Agree(h, g, n),
         NEW f, NEW e, Reaches(h, f, n), Reaches(g, e, n)
  PROVE  \A c \in 1..n : e[c] = f[c]
<1> DEFINE T == {m \in Nat : \A c \in 1..n : c <= m => e[c] = f[c]}
<1>0. Len(h) \in Nat
  BY Lengths DEF History
<1>1. 0 \in T
  OBVIOUS
<1>2. ASSUME NEW m \in Nat, m \in T
      PROVE  m + 1 \in T
  <2> SUFFICES ASSUME NEW c \in 1..n, c <= m + 1 PROVE e[c] = f[c]
    OBVIOUS
  <2>1. \A p \in 1..(c - 1) : e[p] = f[p]
    BY <1>2
  <2>2. ReachedBy(h, e, c) = ReachedBy(h, f, c)
    BY <1>0, <2>1, ReachedByEarlier
  <2>3. g[c].parents = h[c].parents
    BY DEF Agree
  <2>4. ReachedBy(g, e, c) = ReachedBy(h, e, c)
    BY <2>3, Zenon DEF ReachedBy
  <2>5. e[c] = ReachedBy(g, e, c) /\ f[c] = ReachedBy(h, f, c)
    BY DEF Reaches
  <2> QED BY <2>2, <2>4, <2>5, Zenon
<1>3. n \in T
  <2> HIDE DEF T
  <2> QED BY <1>1, <1>2, NatSetInduction
<1> QED BY <1>3

LEMMA ReachableIs ==
  ASSUME NEW h, History(h), NEW c \in 1..Len(h)
  PROVE  \E f : Reaches(h, f, c) /\ Reachable(h, c) = f[c]
<1>0. Len(h) \in Nat
  BY Lengths DEF History
<1>1. PICK f : f = [b \in 1..c |-> ReachedBy(h, f, b)]
  BY <1>0, ReachedExists
<1>2. PICK e : e = CHOOSE g : g = [b \in 1..c |-> ReachedBy(h, g, b)]
  OBVIOUS
<1>3. e = [b \in 1..c |-> ReachedBy(h, e, b)]
  BY <1>1, <1>2, Zenon
<1>4. Reaches(h, e, c)
  BY <1>3, Zenon DEF Reaches
<1>5. Reachable(h, c) = e[c]
  BY <1>2, Zenon DEF Reachable, ReachedBy
<1> QED BY <1>4, <1>5

(* What Ancestor says, in a history and in one that continues it.          *)
LEMMA AncestorSelf ==
  ASSUME NEW h, History(h), NEW c \in 1..Len(h)
  PROVE  Ancestor(h, c, c)
<1>1. PICK f : Reaches(h, f, c) /\ Reachable(h, c) = f[c]
  BY ReachableIs
<1>2. c \in 1..c
  BY Lengths DEF History
<1>3. f[c] = ReachedBy(h, f, c)
  BY <1>1, <1>2 DEF Reaches
<1>4. c \in ReachedBy(h, f, c)
  BY DEF ReachedBy
<1> QED BY <1>1, <1>3, <1>4 DEF Ancestor

LEMMA AncestorSame ==
  ASSUME NEW h, NEW g, History(h), History(g), NEW c \in 1..Len(h), c \in 1..Len(g),
         Agree(h, g, c), NEW b
  PROVE  Ancestor(g, b, c) <=> Ancestor(h, b, c)
<1>1. PICK f : Reaches(h, f, c) /\ Reachable(h, c) = f[c]
  BY ReachableIs
<1>2. PICK e : Reaches(g, e, c) /\ Reachable(g, c) = e[c]
  BY ReachableIs
<1>3. c \in Nat /\ c <= Len(h) /\ c \in 1..c
  BY Lengths DEF History
<1>4. \A d \in 1..c : e[d] = f[d]
  BY <1>1, <1>2, <1>3, ReachedUnique
<1> QED BY <1>1, <1>2, <1>3, <1>4 DEF Ancestor

LEMMA AncestorStep ==
  ASSUME NEW h, History(h), NEW c \in 1..Len(h), NEW k \in 1..Len(h[c].parents),
         NEW b, Ancestor(h, b, h[c].parents[k])
  PROVE  Ancestor(h, b, c)
<1>1. PICK p : p = h[c].parents[k]
  OBVIOUS
<1>2. Len(h) \in Nat /\ p \in 1..(c - 1)
  BY <1>1, Lengths DEF History
<1>3. PICK f : Reaches(h, f, c) /\ Reachable(h, c) = f[c]
  BY ReachableIs
<1>4. p \in 1..Len(h)
  BY <1>2
<1>5. PICK e : Reaches(h, e, p) /\ Reachable(h, p) = e[p]
  BY <1>4, ReachableIs
<1>6. p \in Nat /\ p <= Len(h) /\ p \in 1..p /\ c \in 1..c /\ \A d \in 1..p : d \in 1..c
  BY <1>2
<1>7. \A d \in 1..p : e[d] = f[d]
  <2>1. Reaches(h, f, p)
    BY <1>3, <1>6 DEF Reaches
  <2>2. Agree(h, h, p)
    BY DEF Agree
  <2> QED BY <1>5, <1>6, <2>1, <2>2, ReachedUnique
<1>8. b \in f[p]
  BY <1>1, <1>5, <1>6, <1>7 DEF Ancestor
<1>9. b \in ReachedBy(h, f, c)
  BY <1>1, <1>8 DEF ReachedBy
<1>10. f[c] = ReachedBy(h, f, c)
  BY <1>3, <1>6 DEF Reaches
<1> QED BY <1>3, <1>9, <1>10 DEF Ancestor
-----------------------------------------------------------------------------
(* The versions of releases, in their order.                               *)
Versions == Nat \X Nat \X Nat
LEMMA Order ==
  ASSUME NEW u \in Versions, NEW v \in Versions, NEW w \in Versions
  PROVE  /\ ~Newer(v, v)
         /\ Newer(v, w) => ~Newer(w, v)
         /\ v # w => Newer(v, w) \/ Newer(w, v)
         /\ Newer(u, v) /\ Newer(v, w) => Newer(u, w)
         /\ Newer(u, v) /\ ~Newer(w, v) => Newer(u, w)
BY DEF Newer, Versions

LEMMA Bumped ==
  ASSUME NEW v \in Versions, NEW kinds
  PROVE  Bump(v, kinds) \in Versions
BY DEF Versions, Bump

LEMMA Unbumped ==
  ASSUME NEW v
  PROVE  Bump(v, {}) = v
BY DEF Bump

(* The source a version was built from, and its manifest.                  *)
Commits == 1..Len(history)
Versioned == DOMAIN release
SourceOf(v) == history[release[v]].parents[1]
Built(v) == Manifest(Tree(SourceOf(v)), SourceOf(v))
Fields == {"content", "platform", "version", "fragments", "ledger"}
Planned(c) == Plannable(Tree(c)) /\ NoWheelCollision(Tree(c))

PipelineTypes ==
  /\ History(history) /\ main \in Commits /\ build.source \in Commits
  /\ \A c \in Commits : DOMAIN Tree(c) = Fields
  /\ DOMAIN sync = Versioned /\ Versioned \subseteq Versions
  /\ \A v \in Versioned : release[v] \in Commits /\ sync[v] \in Commits

(* A commit carries the manifests of releases it descends from; one of     *)
(* them is the newest.                                                     *)
Carries(c, m) ==
  /\ m.version \in Versioned /\ m = Built(m.version)
  /\ Ancestor(history, release[m.version], c)
HasNewest(ledger) ==
  ledger # {} => \E m \in ledger : \A n \in ledger : ~Newer(n.version, m.version)
LedgerAt(c) == HasNewest(Tree(c).ledger) /\ \A m \in Tree(c).ledger : Carries(c, m)
LedgerInv == \A c \in Commits : LedgerAt(c)

(* What is carried was consumed: no manifest names a fragment of the tree. *)
FragmentAt(c) ==
  /\ \A f \in Tree(c).fragments : f.pull \in merged
  /\ \A m \in Tree(c).ledger : m.changes \cap Tree(c).fragments = {}
FragmentInv == \A c \in Commits : FragmentAt(c)

(* A release is the plan of its source, which carried every older release. *)
ReleaseAt(v) ==
  /\ SourceOf(v) \in Commits /\ history[release[v]].parents = <<SourceOf(v)>>
  /\ Tree(release[v]) = ReleaseTree(Tree(SourceOf(v)), Built(v))
  /\ Built(v).version = v /\ Planned(SourceOf(v))
  /\ Released(Tree(SourceOf(v)).ledger) = {w \in Versioned : Newer(v, w)}
ReleaseInv ==
  /\ \A v \in Versioned : ReleaseAt(v) /\ Ancestor(history, release[v], sync[v])
  /\ Versioned # {} => InitialVersion \in Versioned
  /\ \A v \in Versioned : ~Newer(InitialVersion, v)

WheelInv ==
  \A v, w \in Versioned : \A a \in Apps :
    Built(v).apps[a].version = Built(w).apps[a].version =>
      Built(v).apps[a].content = Built(w).apps[a].content

(* What the build has read: only its own push could change it.             *)
BuildInv ==
  /\ build.phase \in {"prepared", "verified"} => Planned(build.source)
  /\ build.phase = "verified" =>
       /\ Released(Tree(build.source).ledger) = Versioned
       /\ TargetAccepted(release, Target)

PipelineInv == PipelineTypes /\ LedgerInv /\ FragmentInv /\ ReleaseInv /\ WheelInv /\ BuildInv
-----------------------------------------------------------------------------
(* The newest release of a ledger, and the version that is planned.        *)
LEMMA PreviousIs ==
  ASSUME PipelineInv, NEW c \in Commits, Tree(c).ledger # {}
  PROVE  /\ Previous(Tree(c)) \in Tree(c).ledger
         /\ Previous(Tree(c)).version \in Versioned /\ Previous(Tree(c)).version \in Versions
         /\ Ancestor(history, release[Previous(Tree(c)).version], c)
<1>1. \E m \in Tree(c).ledger : \A n \in Tree(c).ledger : ~Newer(n.version, m.version)
  BY DEF PipelineInv, LedgerInv, LedgerAt, Carries, HasNewest
<1>2. Previous(Tree(c)) \in Tree(c).ledger
  BY <1>1, Zenon DEF Previous
<1> QED BY <1>2 DEF PipelineInv, LedgerInv, LedgerAt, Carries, HasNewest, PipelineTypes

LEMMA PlatformVersionType ==
  ASSUME PipelineInv, NEW c \in Commits
  PROVE  PlatformVersion(Tree(c)) \in Versions
<1>1. InitialVersion \in Versions
  BY DEF InitialVersion, Versions
<1>2. CASE Tree(c).ledger = {}
  BY <1>1, <1>2 DEF PlatformVersion, Bootstrap
<1>3. CASE Tree(c).ledger # {}
  <2>1. Previous(Tree(c)).version \in Versions
    BY <1>3, PreviousIs
  <2> QED BY <1>3, <2>1, Bumped DEF PlatformVersion, Bootstrap
<1> QED BY <1>2, <1>3

(* What a release published is its plan; the manifest of a version is the  *)
(* one that its release published, in whatever ledger.                     *)
LEMMA ManifestIs ==
  ASSUME PipelineInv, NEW c \in Commits, NEW m \in Tree(c).ledger, NEW v, m.version = v
  PROVE  ManifestOf(Tree(c).ledger, v) = Built(v)
<1>1. \A n \in Tree(c).ledger : n.version = v => n = Built(v)
  BY DEF PipelineInv, LedgerInv, LedgerAt, Carries, HasNewest
<1>2. PICK l : l = Tree(c).ledger
  OBVIOUS
<1>3. (CHOOSE n \in l : n.version = v) \in l /\ (CHOOSE n \in l : n.version = v).version = v
  BY <1>2, Zenon
<1> QED BY <1>1, <1>2, <1>3 DEF ManifestOf

LEMMA PublishedIs ==
  ASSUME PipelineInv, NEW v \in Versioned
  PROVE  Published(v) = Built(v)
<1>1. release[v] \in Commits /\ Built(v).version = v
  BY DEF PipelineInv, PipelineTypes, ReleaseInv, ReleaseAt
<1>2. Built(v) \in Tree(release[v]).ledger
  <2>1. Tree(release[v]) = ReleaseTree(Tree(SourceOf(v)), Built(v)) /\ SourceOf(v) \in Commits
    BY DEF PipelineInv, ReleaseInv, ReleaseAt
  <2>2. DOMAIN Tree(SourceOf(v)) = Fields
    BY <2>1 DEF PipelineInv, PipelineTypes
  <2> QED BY <2>1, <2>2 DEF ReleaseTree, Fields
<1> QED BY <1>1, <1>2, ManifestIs DEF Published

LEMMA BuiltIs ==
  ASSUME NEW v
  PROVE  LET t == Tree(SourceOf(v))
         IN /\ Built(v).version = PlatformVersion(t) /\ Built(v).source = SourceOf(v)
            /\ Built(v).platform = t.platform /\ Built(v).changes = t.fragments
            /\ Built(v).previous = IF Bootstrap(t) THEN << >> ELSE Previous(t).version
            /\ \A a \in Apps : /\ Built(v).apps[a] = [version |-> NextVersion(t, a), content |-> t.content[a]]
                               /\ Built(v).apps[a].version = NextVersion(t, a)
                               /\ Built(v).apps[a].content = t.content[a]
BY DEF Built, Manifest

(* An older release is in the ledger of the source of a newer one.         *)
LEMMA OlderCarried ==
  ASSUME PipelineInv, NEW v \in Versioned, NEW w \in Versioned, Newer(w, v)
  PROVE  Built(v) \in Tree(SourceOf(w)).ledger
<1>1. v \in Released(Tree(SourceOf(w)).ledger) /\ SourceOf(w) \in Commits
  BY DEF PipelineInv, ReleaseInv, ReleaseAt
<1>2. PICK m \in Tree(SourceOf(w)).ledger : m.version = v
  BY <1>1 DEF Released
<1>3. m = Built(v)
  BY <1>1, <1>2 DEF PipelineInv, LedgerInv, LedgerAt, Carries, HasNewest
<1> QED BY <1>2, <1>3
-----------------------------------------------------------------------------
(* The invariant gives the three promises.                                 *)
LEMMA Verified ==
  ASSUME PipelineInv, Released(Tip.ledger) = Versioned, NEW v \in Versioned
  PROVE  ReleaseVerified(history, release, main, v)
<1> DEFINE t == Tree(SourceOf(v))
<1>1. PICK m \in Tip.ledger : m.version = v
  BY DEF Released
<1>2. /\ main \in Commits /\ m = Built(v) /\ ManifestOf(Tip.ledger, v) = Built(v)
      /\ Ancestor(history, release[v], main)
  <2>1. main \in Commits /\ m \in Tree(main).ledger
    BY <1>1 DEF Tip, PipelineInv, PipelineTypes
  <2>2. m = Built(v) /\ Ancestor(history, release[v], main)
    BY <1>1, <2>1 DEF PipelineInv, LedgerInv, LedgerAt, Carries, HasNewest
  <2>3. ManifestOf(Tree(main).ledger, v) = Built(v)
    BY <1>1, <2>1, ManifestIs
  <2> QED BY <2>1, <2>2, <2>3 DEF Tip
<1>3. Built(v).source = SourceOf(v) /\ SourceOf(v) \in Commits
  BY BuiltIs DEF PipelineInv, ReleaseInv, ReleaseAt
<1>4. history[release[v]].parents = <<SourceOf(v)>>
  BY DEF PipelineInv, ReleaseInv, ReleaseAt
<1>5. ParentHoldsPriorLedger(history, Tip.ledger, v, SourceOf(v))
  <2>1. ASSUME NEW n \in t.ledger PROVE n \in Before(Tip.ledger, v)
    <3>1. n.version \in {w \in Versioned : Newer(v, w)} /\ n = Built(n.version)
      BY <1>3 DEF PipelineInv, ReleaseInv, ReleaseAt, LedgerInv, LedgerAt, Carries, HasNewest, Released
    <3>2. PICK k \in Tip.ledger : k.version = n.version
      BY <3>1 DEF Released
    <3>3. k = Built(n.version)
      BY <1>2, <3>2 DEF Tip, PipelineInv, LedgerInv, LedgerAt, Carries, HasNewest
    <3> QED BY <3>1, <3>2, <3>3 DEF Before
  <2>2. ASSUME NEW n \in Before(Tip.ledger, v) PROVE n \in t.ledger
    <3>1. n \in Tip.ledger /\ Newer(v, n.version)
      BY DEF Before
    <3>2. n.version \in Versioned /\ n = Built(n.version)
      BY <1>2, <3>1 DEF Tip, PipelineInv, LedgerInv, LedgerAt, Carries, HasNewest
    <3> QED BY <3>1, <3>2, OlderCarried
  <2> QED BY <2>1, <2>2 DEF ParentHoldsPriorLedger, Tree
<1>6. Plannable(t) /\ NoWheelCollision(t)
  BY DEF PipelineInv, ReleaseInv, ReleaseAt, Planned
<1>7. AppsReplay(t, Built(v))
  BY <1>6, BuiltIs DEF AppsReplay, Plannable, VersionsOwned, FragmentsMatch
<1>8. PlatformReplays(t, Built(v))
  BY <1>6, BuiltIs DEF PlatformReplays, Plannable, FragmentsMatch
<1>9. PlanReplays(history, Built(v), SourceOf(v))
  BY <1>6 DEF PlanReplays, Built, Tree
<1>10. CommitDiffExact(history, release[v], Built(v), SourceOf(v))
  BY DEF PipelineInv, ReleaseInv, ReleaseAt, CommitDiffExact, Tree
<1>11. PredecessorPublished(history, release, Built(v), SourceOf(v))
  <2>1. CASE Bootstrap(t)
    BY <2>1, BuiltIs DEF PredecessorPublished
  <2>2. CASE ~Bootstrap(t)
    <3>1. Built(v).previous = Previous(t).version
      BY <2>2, BuiltIs
    <3>2. Previous(t).version \in Versioned /\ Ancestor(history, release[Previous(t).version], SourceOf(v))
      BY <1>3, <2>2, PreviousIs DEF Bootstrap
    <3> QED BY <3>1, <3>2 DEF PredecessorPublished, Versioned
  <2> QED BY <2>1, <2>2
<1>12. t = history[SourceOf(v)].tree /\ Tip.ledger = history[main].tree.ledger
  BY DEF Tip, Tree
<1> HIDE DEF t
<1> QED BY <1>2, <1>3, <1>4, <1>5, <1>7, <1>8, <1>9, <1>10, <1>11, <1>12 DEF ReleaseVerified

LEMMA Standing ==
  ASSUME PipelineInv
  PROVE  ReleasesStand
<1>1. ASSUME Released(Tip.ledger) = Versioned
      PROVE  LedgerVerifies(history, release, main)
  <2>1. NamespaceMatches(history[main].tree.ledger, release)
    BY <1>1 DEF NamespaceMatches, PipelineInv, ReleaseInv, ReleaseAt, Tip, Tree, Versioned
  <2> QED BY <1>1, <2>1, Verified DEF LedgerVerifies, Versioned
<1>2. WheelsAreImmutable
  BY PublishedIs DEF PipelineInv, WheelInv, WheelsAreImmutable, Versioned
<1> QED BY <1>1, <1>2 DEF ReleasesStand, LedgerVerifiable, Versioned

LEMMA ConsumedOnce ==
  ASSUME PipelineInv
  PROVE  ChangesReleasedOnce
<1>1. ASSUME NEW v \in Versioned, NEW w \in Versioned, Newer(w, v)
      PROVE  Published(v).changes \cap Published(w).changes = {}
  <2>1. Built(v) \in Tree(SourceOf(w)).ledger /\ SourceOf(w) \in Commits
    BY <1>1, OlderCarried DEF PipelineInv, ReleaseInv, ReleaseAt
  <2>2. Built(v).changes \cap Tree(SourceOf(w)).fragments = {}
    BY <2>1 DEF PipelineInv, FragmentInv, FragmentAt
  <2> QED BY <2>2, PublishedIs, BuiltIs
<1>2. \A v, w \in Versioned : v # w => Newer(v, w) \/ Newer(w, v)
  BY Order DEF PipelineInv, PipelineTypes
<1>3. ASSUME NEW v \in Versioned, NEW w \in Versioned, v # w
      PROVE  Published(v).changes \cap Published(w).changes = {}
  <2>1. CASE Newer(w, v)
    BY <1>1, <2>1
  <2>2. CASE Newer(v, w)
    BY <1>1, <2>2
  <2> QED BY <1>2, <1>3, <2>1, <2>2
<1> QED BY <1>3 DEF ChangesReleasedOnce, Versioned

LEMMA OnTop ==
  ASSUME PipelineInv
  PROVE  OneReleaseAtATime
<1>1. ASSUME NEW v \in Versioned, NEW w \in Versioned, Newer(w, v)
      PROVE  Ancestor(history, release[v], Published(w).source)
  <2>1. Built(v) \in Tree(SourceOf(w)).ledger /\ SourceOf(w) \in Commits /\ Built(v).version = v
    BY <1>1, OlderCarried DEF PipelineInv, ReleaseInv, ReleaseAt
  <2>2. Ancestor(history, release[v], SourceOf(w))
    BY <2>1 DEF PipelineInv, LedgerInv, LedgerAt, Carries, HasNewest
  <2> QED BY <2>2, PublishedIs, BuiltIs
<1> QED BY <1>1 DEF OneReleaseAtATime, Versioned
-----------------------------------------------------------------------------
(* The history only grows, and what was published stays.                   *)
Grows ==
  /\ History(history') /\ Len(history) <= Len(history')
  /\ \A c \in Commits : history'[c] = history[c]
  /\ \A v \in Versioned : v \in Versioned' /\ release'[v] = release[v]

LEMMA SameCommit ==
  ASSUME PipelineTypes, Grows, NEW c \in Commits
  PROVE  /\ c \in Commits' /\ Tree(c)' = Tree(c) /\ history'[c] = history[c]
         /\ \A b : Ancestor(history', b, c) <=> Ancestor(history, b, c)
<1>1. /\ Len(history) \in Nat /\ Len(history') \in Nat /\ History(history) /\ History(history')
      /\ Len(history) <= Len(history')
  BY Lengths DEF PipelineTypes, Grows, History
<1>2. c \in 1..Len(history) /\ c \in 1..Len(history')
  BY <1>1 DEF Commits
<1>3. Agree(history, history', c)
  BY <1>1, <1>2 DEF Agree, Grows, Commits
<1>4. \A b : Ancestor(history', b, c) <=> Ancestor(history, b, c)
  BY <1>1, <1>2, <1>3, AncestorSame
<1>5. history'[c] = history[c]
  BY DEF Grows
<1> QED BY <1>2, <1>4, <1>5 DEF Tree, Commits

LEMMA SameManifest ==
  ASSUME PipelineTypes, Grows, NEW v \in Versioned, SourceOf(v) \in Commits
  PROVE  /\ release'[v] = release[v] /\ SourceOf(v)' = SourceOf(v) /\ Built(v)' = Built(v)
         /\ Tree(release[v])' = Tree(release[v]) /\ Tree(SourceOf(v))' = Tree(SourceOf(v))
         /\ history'[release'[v]].parents = history[release[v]].parents
         /\ SourceOf(v) \in Commits'
<1>1. release[v] \in Commits /\ release'[v] = release[v]
  BY DEF PipelineTypes, Grows
<1>2. history'[release[v]] = history[release[v]]
  BY <1>1, SameCommit
<1>3. SourceOf(v)' = SourceOf(v)
  BY <1>1, <1>2 DEF SourceOf
<1>4. PICK c \in Commits : c = SourceOf(v)
  OBVIOUS
<1>5. Tree(c)' = Tree(c) /\ c \in Commits' /\ history'[c] = history[c]
  BY SameCommit
<1>6. Tree(SourceOf(v))' = Tree(SourceOf(v))
  BY <1>3, <1>4, <1>5 DEF Tree
<1>7. Built(v)' = Built(v)
  BY <1>3, <1>6 DEF Built, Manifest
<1>8. Tree(release[v])' = Tree(release[v])
  BY <1>1, <1>2 DEF Tree
<1> QED BY <1>1, <1>2, <1>3, <1>4, <1>5, <1>6, <1>7, <1>8

LEMMA SameLedger ==
  ASSUME PipelineInv, Grows, NEW c \in Commits, merged \subseteq merged'
  PROVE  LedgerAt(c)' /\ FragmentAt(c)'
<1>0. PipelineTypes /\ LedgerAt(c) /\ FragmentAt(c) /\ Tree(c)' = Tree(c)
  BY SameCommit DEF PipelineInv, LedgerInv, FragmentInv
<1>1. ASSUME NEW m \in Tree(c).ledger
      PROVE  Carries(c, m)'
  <2>1. m.version \in Versioned /\ m = Built(m.version) /\ Ancestor(history, release[m.version], c)
    BY <1>0 DEF LedgerAt, Carries
  <2>2. SourceOf(m.version) \in Commits
    BY <2>1 DEF PipelineInv, ReleaseInv, ReleaseAt
  <2>3. Built(m.version)' = Built(m.version) /\ release'[m.version] = release[m.version]
    BY <1>0, <2>1, <2>2, SameManifest
  <2>4. Ancestor(history', release[m.version], c)
    BY <1>0, <2>1, SameCommit
  <2>5. m.version \in Versioned'
    BY <2>1 DEF Grows
  <2> QED BY <2>1, <2>3, <2>4, <2>5 DEF Carries
<1>2. LedgerAt(c)'
  BY <1>0, <1>1 DEF LedgerAt
<1> QED BY <1>0, <1>2 DEF FragmentAt

(* What the releases of before promise, when no version came in between.   *)
LEMMA SameRelease ==
  ASSUME PipelineInv, Grows, NEW v \in Versioned,
         \A w \in Versioned' : Newer(v, w) => w \in Versioned
  PROVE  ReleaseAt(v)' /\ Built(v)' = Built(v)
<1>0. PipelineTypes /\ ReleaseAt(v) /\ SourceOf(v) \in Commits
  BY DEF PipelineInv, ReleaseInv, ReleaseAt
<1>1. /\ release'[v] = release[v] /\ SourceOf(v)' = SourceOf(v) /\ Built(v)' = Built(v)
      /\ Tree(release[v])' = Tree(release[v]) /\ Tree(SourceOf(v))' = Tree(SourceOf(v))
      /\ history'[release'[v]].parents = history[release[v]].parents
      /\ SourceOf(v) \in Commits'
  BY <1>0, SameManifest
<1>2. {w \in Versioned : Newer(v, w)}' = {w \in Versioned : Newer(v, w)}
  BY DEF Grows
<1>3. (SourceOf(v) \in Commits)' /\ history'[release'[v]].parents = <<SourceOf(v)'>>
  BY <1>0, <1>1 DEF ReleaseAt
<1>4. Tree(release[v])' = ReleaseTree(Tree(SourceOf(v))', Built(v)') /\ Built(v)'.version = v
  BY <1>0, <1>1 DEF ReleaseAt
<1>5. Planned(SourceOf(v))'
  BY <1>0, <1>1 DEF ReleaseAt, Planned
<1>6. Released(Tree(SourceOf(v))'.ledger) = {w \in Versioned : Newer(v, w)}'
  BY <1>0, <1>1, <1>2 DEF ReleaseAt
<1> QED BY <1>1, <1>3, <1>4, <1>5, <1>6 DEF ReleaseAt
-----------------------------------------------------------------------------
(* Nothing but the build and the requests.                                 *)
LEMMA Quiet ==
  ASSUME PipelineInv, UNCHANGED <<history, main, release, sync, merged>>,
         build'.source = build.source \/ build'.source \in Commits, BuildInv'
  PROVE  PipelineInv'
<1>1. PipelineTypes'
  BY DEF PipelineInv, PipelineTypes, Commits, Tree, Versioned
<1>2. LedgerInv'
  BY DEF PipelineInv, LedgerInv, LedgerAt, Carries, Commits, Tree, Versioned, Built, SourceOf
<1>3. FragmentInv'
  BY DEF PipelineInv, FragmentInv, FragmentAt, Commits, Tree
<1>4. ReleaseInv'
  BY DEF PipelineInv, ReleaseInv, ReleaseAt, Commits, Tree, Versioned, Built, SourceOf, Planned
<1>5. WheelInv'
  <2>1. ASSUME NEW v \in Versioned PROVE Built(v)' = Built(v)
    BY DEF Built, SourceOf, Tree
  <2> QED BY <2>1 DEF PipelineInv, WheelInv, Versioned
<1> QED BY <1>1, <1>2, <1>3, <1>4, <1>5 DEF PipelineInv

(* A commit on top of earlier ones.                                        *)
Below(parents) ==
  /\ IsSequence(parents)
  /\ \A k \in 1..Len(parents) : parents[k] \in Commits
LEMMA Committed ==
  ASSUME PipelineTypes, NEW parents, Below(parents), NEW tree, Commit(parents, tree)
  PROVE  /\ History(history') /\ Len(history') = Len(history) + 1 /\ Len(history) \in Nat
         /\ Fresh = Len(history) + 1 /\ Commits' = Commits \cup {Fresh} /\ Fresh \notin Commits
         /\ \A c \in Commits : history'[c] = history[c]
         /\ history'[Fresh].parents = parents /\ \A c : c = Fresh => Tree(c)' = tree
<1>1. PICK e : e = [parents |-> parents, tree |-> tree]
  OBVIOUS
<1>2. history' = Append(history, e) /\ IsSequence(history)
  BY <1>1 DEF Commit, PipelineTypes, History
<1>3. Extended(history, history', e)
  BY <1>2, Appended
<1>4. /\ Len(history') = Len(history) + 1 /\ Len(history) \in Nat /\ Fresh = Len(history) + 1
      /\ \A c \in Commits : history'[c] = history[c] /\ history'[Fresh] = e
  BY <1>3 DEF Extended, Fresh, Commits
<1>5. Commits' = Commits \cup {Fresh} /\ Fresh \notin Commits
  BY <1>4 DEF Commits
<1>6. history'[Fresh].parents = parents /\ history'[Fresh].tree = tree
  BY <1>1, <1>3 DEF Extended, Fresh
<1>7. \A c : c = Fresh => Tree(c)' = tree
  BY <1>4, <1>6 DEF Tree
<1>8. ASSUME NEW c \in 1..Len(history')
      PROVE  /\ IsSequence(history'[c].parents)
             /\ \A k \in 1..Len(history'[c].parents) : history'[c].parents[k] \in 1..(c - 1)
  <2>1. CASE c \in Commits
    <3>1. history'[c] = history[c]
      BY <1>4, <2>1
    <3> QED BY <2>1, <3>1 DEF PipelineTypes, History, Commits
  <2>2. CASE c \notin Commits
    <3>1. c = Fresh /\ c - 1 = Len(history)
      BY <1>4, <2>2 DEF Commits
    <3>2. history'[c].parents = parents
      BY <1>6, <3>1
    <3> QED BY <3>1, <3>2 DEF Below, Commits
  <2> QED BY <2>1, <2>2
<1>9. History(history')
  BY <1>3, <1>8 DEF History, Extended
<1> QED BY <1>4, <1>5, <1>6, <1>7, <1>9

(* The new commit descends from its parents and from what they do.         *)
LEMMA Descends ==
  ASSUME PipelineTypes, NEW parents, Below(parents), NEW tree, Commit(parents, tree), Grows,
         NEW k \in 1..Len(parents), NEW b, Ancestor(history, b, parents[k])
  PROVE  Ancestor(history', b, Fresh)
<1>1. parents[k] \in Commits
  BY DEF Below
<1>2. Ancestor(history', b, parents[k])
  BY <1>1, SameCommit
<1>3. /\ History(history') /\ Fresh \in Commits' /\ history'[Fresh].parents = parents
  BY Committed
<1>4. PICK h, c : h = history' /\ c = Fresh
  OBVIOUS
<1>5. History(h) /\ c \in 1..Len(h) /\ h[c].parents = parents /\ Ancestor(h, b, parents[k])
  BY <1>2, <1>3, <1>4 DEF Commits
<1>6. Ancestor(h, b, c)
  BY <1>5, AncestorStep
<1> QED BY <1>4, <1>6
-----------------------------------------------------------------------------
(* A commit while the releases stay as they are: its tree carries releases *)
(* it descends from, and no fragment that was consumed.                    *)
Branches == release' = release /\ main' \in Commits' /\ merged \subseteq merged'
            /\ build' = build
            /\ DOMAIN sync' = DOMAIN sync
            /\ \A v \in Versioned : sync'[v] = sync[v] \/ sync'[v] = Fresh
LEMMA BranchGrows ==
  ASSUME PipelineTypes, NEW parents, Below(parents), NEW tree, Commit(parents, tree), release' = release
  PROVE  Grows /\ Versioned' = Versioned
<1>1. /\ History(history') /\ Len(history') = Len(history) + 1 /\ Len(history) \in Nat
      /\ \A c \in Commits : history'[c] = history[c]
  BY Committed
<1> QED BY <1>1 DEF Grows, Versioned

CarriedBy(parents, tree) ==
  /\ DOMAIN tree = Fields /\ HasNewest(tree.ledger)
  /\ \A m \in tree.ledger :
       /\ m.version \in Versioned /\ m = Built(m.version)
       /\ \E k \in 1..Len(parents) : Ancestor(history, release[m.version], parents[k])
       /\ m.changes \cap tree.fragments = {}
LEMMA Branch ==
  ASSUME PipelineInv, NEW parents, Below(parents), NEW tree, Commit(parents, tree), Branches,
         CarriedBy(parents, tree),
         \A f \in tree.fragments : f.pull \in merged',
         \A v \in Versioned : sync'[v] = Fresh =>
           \E k \in 1..Len(parents) : Ancestor(history, release[v], parents[k])
  PROVE  PipelineInv'
<1> USE DEF CarriedBy
<1>0. PipelineTypes /\ release' = release /\ merged \subseteq merged' /\ build' = build
  BY DEF PipelineInv, Branches
<1>1. Grows /\ Versioned' = Versioned
  BY <1>0, BranchGrows
<1>2. PICK fresh : fresh = Fresh
  OBVIOUS
<1>3. /\ History(history') /\ Commits' = Commits \cup {fresh} /\ Tree(fresh)' = tree
      /\ history'[fresh].parents = parents
  BY <1>0, <1>2, Committed
<1>4. ASSUME NEW b, NEW k \in 1..Len(parents), Ancestor(history, b, parents[k])
      PROVE  Ancestor(history', b, fresh)
  BY <1>0, <1>1, <1>2, <1>4, Descends
<1>5. \A c \in Commits : Tree(c)' = Tree(c) /\ c \in Commits'
  BY <1>0, <1>1, SameCommit
<1>6. \A v \in Versioned : ReleaseAt(v)' /\ Built(v)' = Built(v)
  BY <1>1, SameRelease
<1>7. PipelineTypes'
  <2>1. \A c \in Commits' : DOMAIN Tree(c)' = Fields
    BY <1>0, <1>3, <1>5 DEF PipelineTypes
  <2>2. \A v \in Versioned : release'[v] \in Commits' /\ sync'[v] \in Commits'
    BY <1>0, <1>2, <1>3 DEF PipelineTypes, Branches
  <2>3. main' \in Commits' /\ build'.source \in Commits' /\ DOMAIN sync' = Versioned
    BY <1>0, <1>3 DEF PipelineTypes, Branches
  <2> QED BY <1>0, <1>1, <1>3, <2>1, <2>2, <2>3 DEF PipelineTypes
<1>8. LedgerAt(fresh)' /\ FragmentAt(fresh)'
  <2>1. ASSUME NEW m \in tree.ledger PROVE Carries(fresh, m)'
    <3>1. m.version \in Versioned /\ m = Built(m.version)
      OBVIOUS
    <3>2. Ancestor(history', release[m.version], fresh)
      BY <1>4
    <3>3. Built(m.version)' = m
      BY <1>6, <3>1
    <3> QED BY <1>0, <1>1, <3>1, <3>2, <3>3 DEF Carries
  <2> QED BY <1>3, <2>1 DEF LedgerAt, FragmentAt
<1>9. \A c \in Commits : LedgerAt(c)' /\ FragmentAt(c)'
  BY <1>0, <1>1, SameLedger
<1>10. LedgerInv' /\ FragmentInv'
  BY <1>3, <1>8, <1>9 DEF LedgerInv, FragmentInv
<1>11. ReleaseInv'
  <2>1. ASSUME NEW v \in Versioned PROVE Ancestor(history', release'[v], sync'[v])
    <3>1. CASE sync'[v] = Fresh
      <4>1. PICK k \in 1..Len(parents) : Ancestor(history, release[v], parents[k])
        BY <3>1
      <4>2. Ancestor(history', release[v], fresh)
        BY <1>4, <4>1
      <4> QED BY <1>0, <1>2, <3>1, <4>2
    <3>2. CASE sync'[v] = sync[v]
      <4>1. sync[v] \in Commits /\ Ancestor(history, release[v], sync[v])
        BY DEF PipelineInv, PipelineTypes, ReleaseInv
      <4>2. Ancestor(history', release[v], sync[v])
        BY <1>0, <1>1, <4>1, SameCommit
      <4> QED BY <1>0, <3>2, <4>2
    <3> QED BY <3>1, <3>2 DEF Branches
  <2> QED BY <1>1, <1>6, <2>1 DEF ReleaseInv, PipelineInv
<1>12. WheelInv'
  BY <1>1, <1>6 DEF PipelineInv, WheelInv
<1>13. BuildInv'
  <2>1. build.source \in Commits
    BY <1>0 DEF PipelineTypes
  <2>2. PICK s : s = build.source
    OBVIOUS
  <2>3. Tree(s)' = Tree(s)
    BY <1>5, <2>1, <2>2
  <2>4. Tree(build.source)' = Tree(build.source)
    BY <1>0, <2>2, <2>3
  <2>5. Target' = Target /\ Planned(build.source)' = Planned(build.source)
    BY <2>4 DEF Target, Planned
  <2> QED BY <1>0, <1>1, <2>4, <2>5 DEF PipelineInv, BuildInv
<1> QED BY <1>7, <1>10, <1>11, <1>12, <1>13 DEF PipelineInv
-----------------------------------------------------------------------------
(* The merge of a release into main's tree.                                *)
LEMMA Newest ==
  ASSUME NEW ledger, HasNewest(ledger), NEW m, m.version \in Versions,
         \A n \in ledger : n.version \in Versions
  PROVE  HasNewest(ledger \cup {m})
<1>0. ~Newer(m.version, m.version)
  BY Order
<1>1. CASE ledger = {}
  BY <1>0, <1>1 DEF HasNewest
<1>2. CASE ledger # {}
  <2>1. PICK top \in ledger : \A n \in ledger : ~Newer(n.version, top.version)
    BY <1>2 DEF HasNewest
  <2>2. CASE Newer(m.version, top.version)
    <3>1. \A n \in ledger : ~Newer(n.version, m.version)
      <4>1. ASSUME NEW n \in ledger, Newer(n.version, m.version) PROVE FALSE
        <5>1. Newer(n.version, top.version)
          BY <2>2, <4>1, Order
        <5> QED BY <2>1, <5>1
      <4> QED BY <4>1
    <3> QED BY <1>0, <3>1 DEF HasNewest
  <2>3. CASE ~Newer(m.version, top.version)
    BY <2>1, <2>3 DEF HasNewest
  <2> QED BY <2>2, <2>3
<1> QED BY <1>1, <1>2

LEMMA SynchronisedTree ==
  ASSUME PipelineInv, NEW v \in Versioned
  PROVE  /\ DOMAIN Synchronised(v) = Fields
         /\ Synchronised(v).ledger = Tip.ledger \cup {Built(v)}
         /\ Synchronised(v).fragments = Tip.fragments \ Built(v).changes
<1>1. ManifestOf(Tree(release[v]).ledger, v) = Built(v)
  BY PublishedIs DEF Published
<1>2. DOMAIN Tip = Fields
  BY DEF PipelineInv, PipelineTypes, Tip
<1> QED BY <1>1, <1>2 DEF Synchronised, ReleaseTree, Fields

LEMMA SynchronisedIs ==
  ASSUME PipelineInv, NEW v \in Versioned, NEW tree, tree = Synchronised(v), NEW parents,
         \E k \in 1..Len(parents) : parents[k] = main,
         \E k \in 1..Len(parents) : parents[k] = sync[v]
  PROVE  CarriedBy(parents, tree) /\ \A f \in tree.fragments : f.pull \in merged
<1>2. /\ DOMAIN tree = Fields /\ tree.ledger = Tip.ledger \cup {Built(v)}
      /\ tree.fragments = Tip.fragments \ Built(v).changes
  BY SynchronisedTree
<1>3. /\ main \in Commits /\ Built(v).version = v /\ Versioned \subseteq Versions
      /\ Ancestor(history, release[v], sync[v])
  BY DEF PipelineInv, PipelineTypes, ReleaseInv, ReleaseAt
<1>4. LedgerAt(main) /\ FragmentAt(main) /\ Tip = Tree(main)
  BY <1>3 DEF PipelineInv, LedgerInv, FragmentInv, Tip
<1>5. ASSUME NEW m \in Tip.ledger
      PROVE  /\ m.version \in Versioned /\ m = Built(m.version)
             /\ Ancestor(history, release[m.version], main)
             /\ m.changes \cap Tip.fragments = {}
  BY <1>4 DEF LedgerAt, Carries, FragmentAt
<1>6. HasNewest(tree.ledger)
  <2>1. HasNewest(Tip.ledger) /\ \A n \in Tip.ledger : n.version \in Versions
    BY <1>3, <1>4, <1>5 DEF LedgerAt
  <2>2. HasNewest(Tip.ledger \cup {Built(v)})
    BY <1>3, <2>1, Newest
  <2> QED BY <1>2, <2>2
<1>7. ASSUME NEW m \in tree.ledger
      PROVE  /\ m.version \in Versioned /\ m = Built(m.version)
             /\ \E k \in 1..Len(parents) : Ancestor(history, release[m.version], parents[k])
             /\ m.changes \cap tree.fragments = {}
  <2>1. CASE m \in Tip.ledger
    BY <1>2, <1>5, <2>1
  <2>2. CASE m = Built(v)
    BY <1>2, <1>3, <2>2
  <2> QED BY <1>2, <2>1, <2>2
<1>8. \A f \in tree.fragments : f.pull \in merged
  BY <1>2, <1>4 DEF FragmentAt
<1> QED BY <1>2, <1>6, <1>7, <1>8 DEF CarriedBy
-----------------------------------------------------------------------------
(* The initial state, and what people do.                                  *)
LEMMA InitPipelineInv ==
  ASSUME PipelineInit
  PROVE  PipelineInv
<1>1. PICK e : e = [parents |-> << >>, tree |-> Start]
  OBVIOUS
<1>2. history = <<e>> /\ e.parents = << >> /\ e.tree = Start
  BY <1>1 DEF PipelineInit
<1>3. IsSequence(history) /\ Len(history) = 1 /\ history[1] = e
  BY <1>2, OneLong
<1>4. Commits = {1} /\ Tree(1) = Start /\ Versioned = {} /\ DOMAIN sync = {}
  BY <1>2, <1>3 DEF Commits, Tree, Versioned, PipelineInit
<1>5. History(history)
  <2>1. \A c \in 1..Len(history) : history[c].parents = << >>
    BY <1>2, <1>3
  <2>2. IsSequence(<< >>) /\ Len(<< >>) = 0
    BY DEF IsSequence
  <2> QED BY <1>3, <2>1, <2>2 DEF History
<1>6. Start.ledger = {} /\ Start.fragments = {} /\ DOMAIN Start = Fields
  BY DEF Start, Fields
<1>7. main = 1 /\ build.source = 1 /\ build.phase = "idle"
  BY DEF PipelineInit, Idle
<1>8. PipelineTypes
  BY <1>4, <1>5, <1>6, <1>7 DEF PipelineTypes
<1>9. LedgerInv /\ FragmentInv
  BY <1>4, <1>6 DEF LedgerInv, LedgerAt, HasNewest, FragmentInv, FragmentAt
<1>10. ReleaseInv /\ WheelInv /\ BuildInv
  BY <1>4, <1>7 DEF ReleaseInv, WheelInv, BuildInv
<1> QED BY <1>8, <1>9, <1>10 DEF PipelineInv

(* A pull request adds fragments that no release can have consumed: it was *)
(* not merged before.                                                      *)
LEMMA Consumed ==
  ASSUME PipelineInv, NEW v \in Versioned
  PROVE  \A f \in Built(v).changes : f.pull \in merged
<1>1. SourceOf(v) \in Commits /\ Built(v).changes = Tree(SourceOf(v)).fragments
  BY BuiltIs DEF PipelineInv, ReleaseInv, ReleaseAt
<1> QED BY <1>1 DEF PipelineInv, FragmentInv, FragmentAt

LEMMA MergePullStep ==
  ASSUME PipelineInv, NEW p \in PullRequests, MergePull(p)
  PROVE  PipelineInv'
<1> DEFINE added == {[pull |-> p, subject |-> d.subject, kind |-> d.kind] : d \in Declares[p]}
<1>1. PICK tree : /\ Commit(<<main>>, tree) /\ tree.ledger = Tip.ledger
                  /\ tree.fragments = Tip.fragments \cup added /\ DOMAIN tree = Fields
  <2>1. PICK tree : tree = [Tip EXCEPT
         !.content = [a \in Apps |-> IF a \in Touches[p] THEN @[a] \cup {p} ELSE @[a]],
         !.platform = IF Platform \in Touches[p] THEN @ \cup {p} ELSE @,
         !.fragments = @ \cup added]
    OBVIOUS
  <2>2. DOMAIN Tip = Fields
    BY DEF PipelineInv, PipelineTypes, Tip
  <2>3. Commit(<<main>>, tree)
    BY <2>1, Zenon DEF MergePull
  <2> HIDE DEF added
  <2>4. tree.ledger = Tip.ledger /\ tree.fragments = Tip.fragments \cup added /\ DOMAIN tree = Fields
    BY <2>1, <2>2 DEF Fields
  <2> QED BY <2>3, <2>4
<1>2. p \notin merged /\ merged' = merged \cup {p} /\ main' = Fresh
      /\ release' = release /\ sync' = sync /\ build' = build
  BY DEF MergePull, refs
<1>3. \A f \in added : f.pull = p
  OBVIOUS
<1> HIDE DEF added
<1>4. PICK parents : parents = <<main>>
  OBVIOUS
<1>5. IsSequence(parents) /\ Len(parents) = 1 /\ parents[1] = main
  BY <1>4, OneLong
<1>6. main \in Commits /\ PipelineTypes /\ Below(parents)
  BY <1>5 DEF PipelineInv, PipelineTypes, Below
<1>7. Commit(parents, tree) /\ Commits' = Commits \cup {Fresh}
  BY <1>1, <1>4, <1>6, Committed
<1>8. LedgerAt(main) /\ FragmentAt(main) /\ Tip = Tree(main)
  BY <1>6 DEF PipelineInv, LedgerInv, FragmentInv, Tip
<1>9. ASSUME NEW m \in tree.ledger
      PROVE  /\ m.version \in Versioned /\ m = Built(m.version)
             /\ \E k \in 1..Len(parents) : Ancestor(history, release[m.version], parents[k])
             /\ m.changes \cap tree.fragments = {}
  <2>1. /\ m.version \in Versioned /\ m = Built(m.version)
        /\ Ancestor(history, release[m.version], main)
        /\ m.changes \cap Tip.fragments = {}
    BY <1>1, <1>8 DEF LedgerAt, Carries, FragmentAt
  <2>2. \A f \in m.changes : f.pull \in merged
    BY <2>1, Consumed
  <2>3. m.changes \cap added = {}
    BY <1>2, <1>3, <2>2
  <2> QED BY <1>1, <1>5, <2>1, <2>3
<1>10. \A f \in tree.fragments : f.pull \in merged'
  BY <1>1, <1>2, <1>3, <1>8 DEF FragmentAt
<1>11. HasNewest(tree.ledger)
  BY <1>1, <1>8 DEF LedgerAt
<1>12. Branches
  BY <1>2, <1>7 DEF Branches
<1>13. ASSUME NEW v \in Versioned
       PROVE  sync'[v] # Fresh
  <2>1. sync[v] \in Commits /\ Fresh \notin Commits
    BY <1>6, <1>7, Committed DEF PipelineTypes
  <2> QED BY <1>2, <2>1
<1>14. CarriedBy(parents, tree)
  BY <1>1, <1>9, <1>11 DEF CarriedBy
<1> QED BY <1>6, <1>7, <1>10, <1>12, <1>13, <1>14, Branch

LEMMA UpdateBranchStep ==
  ASSUME PipelineInv, NEW v \in DOMAIN sync, UpdateBranch(v)
  PROVE  PipelineInv'
<1>1. /\ v \in Versioned /\ sync[v] \in Commits /\ main \in Commits /\ PipelineTypes
      /\ DOMAIN sync = Versioned
  BY DEF PipelineInv, PipelineTypes
<1>2. PICK parents : parents = <<sync[v], main>>
  OBVIOUS
<1>3. IsSequence(parents) /\ Len(parents) = 2 /\ parents[1] = sync[v] /\ parents[2] = main
  BY <1>2, TwoLong
<1>4. Below(parents)
  BY <1>1, <1>3 DEF Below
<1>5. PICK tree : tree = Synchronised(v)
  OBVIOUS
<1>6. Commit(parents, tree)
  BY <1>2, <1>5, Zenon DEF UpdateBranch
<1>7. /\ sync' = [sync EXCEPT ![v] = Fresh] /\ main' = main /\ release' = release
      /\ merged' = merged /\ build' = build
  BY DEF UpdateBranch
<1>8. /\ Commits' = Commits \cup {Fresh} /\ Fresh \notin Commits
  BY <1>1, <1>4, <1>6, Committed
<1>9. Branches
  BY <1>1, <1>7, <1>8 DEF Branches
<1>10. CarriedBy(parents, tree) /\ \A f \in tree.fragments : f.pull \in merged
  <2>1. \E k \in 1..Len(parents) : parents[k] = main
    BY <1>3
  <2>2. \E k \in 1..Len(parents) : parents[k] = sync[v]
    BY <1>3
  <2> QED BY <1>1, <1>5, <2>1, <2>2, SynchronisedIs, Zenon
<1>11. ASSUME NEW w \in Versioned, sync'[w] = Fresh
       PROVE  \E k \in 1..Len(parents) : Ancestor(history, release[w], parents[k])
  <2>1. w = v
    <3>1. sync[w] \in Commits
      BY <1>1 DEF PipelineTypes
    <3> QED BY <1>1, <1>7, <1>8, <1>11, <3>1
  <2>2. Ancestor(history, release[v], sync[v])
    BY <1>1 DEF PipelineInv, ReleaseInv
  <2> QED BY <1>3, <2>1, <2>2
<1>12. \A f \in tree.fragments : f.pull \in merged'
  BY <1>7, <1>10
<1> QED BY <1>4, <1>6, <1>9, <1>10, <1>11, <1>12, Branch

LEMMA MergeSyncStep ==
  ASSUME PipelineInv, NEW v \in DOMAIN sync, MergeSync(v)
  PROVE  PipelineInv'
<1>1. /\ v \in Versioned /\ sync[v] \in Commits /\ main \in Commits /\ PipelineTypes
      /\ DOMAIN sync = Versioned
  BY DEF PipelineInv, PipelineTypes
<1>2. PICK parents : parents = <<main, sync[v]>>
  OBVIOUS
<1>3. IsSequence(parents) /\ Len(parents) = 2 /\ parents[1] = main /\ parents[2] = sync[v]
  BY <1>2, TwoLong
<1>4. Below(parents)
  BY <1>1, <1>3 DEF Below
<1>5. PICK tree : tree = Synchronised(v)
  OBVIOUS
<1>6. Commit(parents, tree)
  BY <1>2, <1>5, Zenon DEF MergeSync
<1>7. /\ sync' = sync /\ main' = Fresh /\ release' = release
      /\ merged' = merged /\ build' = build
  BY DEF MergeSync, refs
<1>8. /\ Commits' = Commits \cup {Fresh} /\ Fresh \notin Commits
  BY <1>1, <1>4, <1>6, Committed
<1>9. Branches
  BY <1>1, <1>7, <1>8 DEF Branches
<1>10. CarriedBy(parents, tree) /\ \A f \in tree.fragments : f.pull \in merged
  <2>1. \E k \in 1..Len(parents) : parents[k] = main
    BY <1>3
  <2>2. \E k \in 1..Len(parents) : parents[k] = sync[v]
    BY <1>3
  <2> QED BY <1>1, <1>5, <2>1, <2>2, SynchronisedIs, Zenon
<1>11. \A w \in Versioned : sync'[w] # Fresh
  BY <1>1, <1>7, <1>8 DEF PipelineTypes
<1>12. \A f \in tree.fragments : f.pull \in merged'
  BY <1>7, <1>10
<1> QED BY <1>4, <1>6, <1>9, <1>10, <1>11, <1>12, Branch
-----------------------------------------------------------------------------
(* The build while nothing is published.                                   *)
LEMMA QuietBuild ==
  ASSUME PipelineInv, UNCHANGED <<history, main, release, sync, merged>>,
         \/ build' = build
         \/ build' = Idle
         \/ \E phase \in {"pushed", "confirmed", "listed", "created", "ambiguous"} : Goto(phase)
  PROVE  PipelineInv'
<1>1. CASE build' = build
  <2>1. BuildInv'
    BY <1>1 DEF PipelineInv, BuildInv, Planned, Tree, Target, Versioned
  <2> QED BY <1>1, <2>1, Quiet
<1>2. CASE build' = Idle
  <2>1. build'.source = 1 /\ build'.phase = "idle"
    BY <1>2 DEF Idle
  <2>2. 1 \in Commits
    BY Lengths DEF PipelineInv, PipelineTypes, Commits, History
  <2>3. BuildInv'
    BY <2>1 DEF BuildInv
  <2> QED BY <2>1, <2>2, <2>3, Quiet
<1>3. ASSUME NEW phase \in {"pushed", "confirmed", "listed", "created", "ambiguous"}, Goto(phase)
      PROVE  PipelineInv'
  <2>1. build'.source = build.source /\ build'.phase \notin {"prepared", "verified"}
    BY <1>3 DEF Goto
  <2>2. BuildInv'
    BY <2>1 DEF BuildInv
  <2> QED BY <2>1, <2>2, Quiet
<1> QED BY <1>1, <1>2, <1>3

LEMMA StartBuildStep ==
  ASSUME PipelineInv, StartBuild
  PROVE  PipelineInv'
<1>1. /\ build'.source = main /\ build'.phase = "candidate"
      /\ UNCHANGED <<history, main, release, sync, merged>> /\ main \in Commits
  BY DEF StartBuild, refs, PipelineInv, PipelineTypes
<1>2. BuildInv'
  BY <1>1 DEF BuildInv
<1> QED BY <1>1, <1>2, Quiet

LEMMA PrepareStep ==
  ASSUME PipelineInv, Prepare
  PROVE  PipelineInv'
<1>1. UNCHANGED <<history, main, release, sync, merged>>
  BY DEF Prepare, refs
<1>2. CASE CandidateAccepted
  <2>1. build' = [build EXCEPT !.phase = "prepared", !.pinned = release]
    BY <1>2 DEF Prepare
  <2>2. build'.source = build.source /\ build'.phase # "verified"
    BY <2>1
  <2>3. Planned(build.source)
    BY <1>2 DEF CandidateAccepted, Planned
  <2>4. Planned(build.source)'
    BY <1>1, <2>2, <2>3 DEF Planned, Tree
  <2>5. BuildInv'
    BY <2>2, <2>4 DEF BuildInv
  <2> QED BY <1>1, <2>2, <2>5, Quiet
<1>3. CASE ~CandidateAccepted
  BY <1>1, <1>3, QuietBuild DEF Prepare, Abort
<1> QED BY <1>2, <1>3

LEMMA VerifyPublicationStep ==
  ASSUME PipelineInv, VerifyPublication
  PROVE  PipelineInv'
<1>1. UNCHANGED <<history, main, release, sync, merged>>
  BY DEF VerifyPublication, refs
<1>2. CASE PublicationAccepted
  <2>1. Goto("verified") /\ build.phase = "prepared"
    BY <1>2 DEF VerifyPublication, At
  <2>2. build'.source = build.source
    BY <2>1 DEF Goto
  <2>3. /\ Planned(build.source) /\ TargetAccepted(release, Target)
        /\ Released(Tree(build.source).ledger) = Versioned
    BY <1>2, <2>1 DEF PublicationAccepted, PipelineInv, BuildInv, LedgerVerifies, NamespaceMatches,
                      Tree, Versioned
  <2>4. /\ Planned(build.source)' /\ TargetAccepted(release', Target')
        /\ Released(Tree(build.source)'.ledger) = Versioned'
    BY <1>1, <2>2, <2>3 DEF Planned, Tree, Versioned, Target
  <2>5. BuildInv'
    BY <2>4 DEF BuildInv
  <2> QED BY <1>1, <2>2, <2>5, Quiet
<1>3. CASE ~PublicationAccepted
  BY <1>1, <1>3, QuietBuild DEF VerifyPublication, Abort
<1> QED BY <1>2, <1>3

LEMMA RestOfBuild ==
  ASSUME PipelineInv,
         \/ Confirm \/ ListRequest \/ CreateRequest \/ RecoverRequest \/ ReportRequest
         \/ BuildFails \/ (\E v \in DOMAIN sync : OpenByHand(v)) \/ UNCHANGED pipeline
  PROVE  PipelineInv'
<1>1. UNCHANGED <<history, main, release, sync, merged>>
  BY DEF Confirm, ListRequest, CreateRequest, RecoverRequest, ReportRequest, BuildFails,
         OpenByHand, pipeline, refs
<1>2. \/ build' = build
      \/ build' = Idle
      \/ \E phase \in {"pushed", "confirmed", "listed", "created", "ambiguous"} : Goto(phase)
  <2>1. CASE Confirm
    BY <2>1 DEF Confirm, Abort
  <2>2. CASE ListRequest
    <3>1. build' = Idle \/ Goto(IF ExactRequest THEN "created" ELSE "listed")
      BY <2>2 DEF ListRequest, Abort
    <3>2. (IF ExactRequest THEN "created" ELSE "listed") \in {"pushed", "confirmed", "listed", "created", "ambiguous"}
      BY Zenon
    <3> QED BY <3>1, <3>2, Zenon
  <2>3. CASE CreateRequest
    BY <2>3 DEF CreateRequest
  <2>4. CASE RecoverRequest
    BY <2>4 DEF RecoverRequest, Abort
  <2>5. CASE ReportRequest \/ BuildFails
    BY <2>5 DEF ReportRequest, BuildFails, Abort
  <2>6. CASE (\E v \in DOMAIN sync : OpenByHand(v)) \/ UNCHANGED pipeline
    BY <2>6 DEF OpenByHand, pipeline
  <2> QED BY <2>1, <2>2, <2>3, <2>4, <2>5, <2>6
<1> QED BY <1>1, <1>2, QuietBuild
-----------------------------------------------------------------------------
(* The publication.  What it releases is newer than everything published,  *)
(* and its source carries it all.                                          *)
Publishes ==
  /\ At("verified") /\ Goto("pushed")
  /\ Target \notin Versioned \cup DOMAIN sync
  /\ Commit(ReleaseCommit.parents, ReleaseCommit.tree)
  /\ release' = With(release, Target, Fresh) /\ sync' = With(sync, Target, Fresh)
  /\ UNCHANGED <<main, request, merged, reported, builds, updates>>

(* The plan of the build: the wheels it would release are those of before  *)
(* wherever their version is.                                              *)
LEMMA PlanFits ==
  ASSUME PipelineInv, NEW c \in Commits, Planned(c), Released(Tree(c).ledger) = Versioned,
         NEW a \in Apps, NEW v \in Versioned,
         Built(v).apps[a].version = NextVersion(Tree(c), a)
  PROVE  Built(v).apps[a].content = Tree(c).content[a]
<1> DEFINE t == Tree(c)
<1>1. Built(v) \in t.ledger
  <2>1. PICK m \in t.ledger : m.version = v
    BY DEF Released
  <2>2. m = Built(v)
    BY <2>1 DEF PipelineInv, LedgerInv, LedgerAt, Carries
  <2> QED BY <2>1, <2>2
<1>2. CASE a \in ChangedApps(t)
  BY <1>1, <1>2 DEF Planned, NoWheelCollision
<1>3. CASE a \notin ChangedApps(t)
  <2>1. t.ledger # {} /\ ~Bootstrap(t)
    BY <1>1 DEF Bootstrap
  <2>2. t.content[a] = Previous(t).apps[a].content
    BY <1>3, <2>1 DEF ChangedApps
  <2>3. KindsFor(t, a) = {} /\ t.version[a] = Previous(t).apps[a].version
    BY <1>3, <2>1 DEF Planned, Plannable, FragmentsMatch, VersionsOwned
  <2>4. NextVersion(t, a) = Previous(t).apps[a].version
    BY <2>3, Unbumped DEF NextVersion
  <2>5. Previous(t).version \in Versioned /\ Previous(t) = Built(Previous(t).version)
    BY <2>1, PreviousIs DEF PipelineInv, LedgerInv, LedgerAt, Carries
  <2>6. PICK w \in Versioned : w = Previous(t).version /\ Previous(t) = Built(w)
    BY <2>5
  <2>7. Built(v).apps[a].version = Built(w).apps[a].version
    BY <2>4, <2>6
  <2> QED BY <2>2, <2>6, <2>7 DEF PipelineInv, WheelInv
<1> QED BY <1>2, <1>3

(* What the publication changes, and what it leaves.                       *)
LEMMA Publication ==
  ASSUME PipelineInv, Publishes, NEW v, v = Target, NEW s, s = build.source, NEW c, c = Fresh
  PROVE  /\ s \in Commits /\ c \notin Commits /\ v \in Versions /\ v \notin Versioned
         /\ Planned(s) /\ Released(Tree(s).ledger) = Versioned /\ TargetAccepted(release, v)
         /\ v = PlatformVersion(Tree(s))
         /\ Grows /\ Commits' = Commits \cup {c} /\ history'[c].parents = <<s>>
         /\ Tree(c)' = ReleaseTree(Tree(s), Manifest(Tree(s), s))
         /\ Versioned' = Versioned \cup {v} /\ DOMAIN sync' = Versioned'
         /\ release'[v] = c /\ sync'[v] = c
         /\ \A w \in Versioned : release'[w] = release[w] /\ sync'[w] = sync[w]
         /\ \A b : Ancestor(history, b, s) => Ancestor(history', b, c)
         /\ Ancestor(history', c, c)
<1>1. PipelineTypes /\ s \in Commits /\ build.phase = "verified"
  BY DEF PipelineInv, PipelineTypes, Publishes, At
<1>2. v = PlatformVersion(Tree(s)) /\ v \in Versions
  BY <1>1, PlatformVersionType DEF Target
<1>3. PICK parents : parents = <<s>>
  OBVIOUS
<1>4. IsSequence(parents) /\ Len(parents) = 1 /\ parents[1] = s
  BY <1>3, OneLong
<1>5. Below(parents)
  BY <1>1, <1>4 DEF Below
<1>6. PICK tree : tree = ReleaseTree(Tree(s), Manifest(Tree(s), s))
  OBVIOUS
<1>7. Commit(parents, tree)
  <2>1. ReleaseCommit.parents = parents /\ ReleaseCommit.tree = tree
    BY <1>3, <1>6 DEF ReleaseCommit
  <2> QED BY <2>1, Zenon DEF Publishes
<1>8. /\ History(history') /\ Len(history') = Len(history) + 1 /\ Len(history) \in Nat
      /\ Commits' = Commits \cup {c} /\ c \notin Commits
      /\ \A d \in Commits : history'[d] = history[d]
      /\ history'[c].parents = parents /\ Tree(c)' = tree
  BY <1>1, <1>5, <1>7, Committed
<1>9. /\ DOMAIN release' = DOMAIN release \cup {v} /\ DOMAIN sync' = DOMAIN sync \cup {v}
      /\ \A w \in DOMAIN release' : release'[w] = IF w = v THEN c ELSE release[w]
      /\ \A w \in DOMAIN sync' : sync'[w] = IF w = v THEN c ELSE sync[w]
  BY DEF Publishes, With
<1>10. v \notin Versioned /\ DOMAIN sync = Versioned
  BY <1>1 DEF Publishes, PipelineTypes
<1>11. /\ Versioned' = Versioned \cup {v} /\ DOMAIN sync' = Versioned'
       /\ release'[v] = c /\ sync'[v] = c
       /\ \A w \in Versioned : release'[w] = release[w] /\ sync'[w] = sync[w]
  BY <1>9, <1>10 DEF Versioned
<1>12. Grows
  BY <1>8, <1>11 DEF Grows
<1>13. ASSUME NEW b, Ancestor(history, b, s)
       PROVE  Ancestor(history', b, c)
  <2>1. 1 \in 1..Len(parents) /\ Ancestor(history, b, parents[1])
    BY <1>4, <1>13
  <2> QED BY <1>1, <1>5, <1>7, <1>12, <2>1, Descends
<1>14. Ancestor(history', c, c)
  <2>1. PICK h : h = history'
    OBVIOUS
  <2>2. History(h) /\ c \in 1..Len(h)
    BY <1>8, <2>1 DEF Commits
  <2> QED BY <2>1, <2>2, AncestorSelf
<1>15. Planned(s) /\ Released(Tree(s).ledger) = Versioned /\ TargetAccepted(release, v)
  BY <1>1 DEF PipelineInv, BuildInv
<1> QED BY <1>1, <1>2, <1>3, <1>6, <1>8, <1>10, <1>11, <1>12, <1>13, <1>14, <1>15

LEMMA PublishesStep ==
  ASSUME PipelineInv, Publishes
  PROVE  PipelineInv'
<1>1. PICK v, s, c : v = Target /\ s = build.source /\ c = Fresh
  OBVIOUS
<1>2. PICK manifest : manifest = Manifest(Tree(s), s)
  OBVIOUS
<1>3. /\ s \in Commits /\ c \notin Commits /\ v \in Versions /\ v \notin Versioned
      /\ Planned(s) /\ Released(Tree(s).ledger) = Versioned /\ TargetAccepted(release, v)
      /\ v = PlatformVersion(Tree(s))
      /\ Grows /\ Commits' = Commits \cup {c} /\ history'[c].parents = <<s>>
      /\ Tree(c)' = ReleaseTree(Tree(s), manifest)
      /\ Versioned' = Versioned \cup {v} /\ DOMAIN sync' = Versioned'
      /\ release'[v] = c /\ sync'[v] = c
      /\ \A w \in Versioned : release'[w] = release[w] /\ sync'[w] = sync[w]
      /\ \A b : Ancestor(history, b, s) => Ancestor(history', b, c)
      /\ Ancestor(history', c, c)
  BY <1>1, <1>2, Publication
<1>4. PipelineTypes /\ Versioned \subseteq Versions /\ main' = main /\ main \in Commits /\ merged' = merged
      /\ build'.source = s /\ build'.phase = "pushed"
  BY <1>1 DEF PipelineInv, PipelineTypes, Publishes, Goto, At
<1>5. \A d \in Commits : Tree(d)' = Tree(d) /\ d \in Commits'
  BY <1>3, <1>4, SameCommit
<1>6. \A w \in Versioned : Newer(v, w) /\ ~Newer(w, v)
  <2>1. \A w \in Versioned : Newer(v, w)
    BY <1>3 DEF TargetAccepted, Versioned
  <2> QED BY <1>3, <1>4, <2>1, Order
<1>7. \A w \in Versioned : ReleaseAt(w)' /\ Built(w)' = Built(w)
  <2>1. ASSUME NEW w \in Versioned
        PROVE  \A u \in Versioned' : Newer(w, u) => u \in Versioned
    BY <1>3, <1>6
  <2> QED BY <1>3, <2>1, SameRelease
<1>8. SourceOf(v)' = s /\ Built(v)' = manifest
  <2>1. SourceOf(v)' = s
    BY <1>3, OneLong DEF SourceOf
  <2>2. Tree(s)' = Tree(s)
    BY <1>3, <1>5
  <2>3. Built(v)' = Manifest(Tree(s)', s)
    BY <2>1 DEF Built, Manifest, Tree
  <2> QED BY <1>2, <2>1, <2>2, <2>3
<1>9. /\ manifest.version = v /\ manifest.changes = Tree(s).fragments
      /\ \A a \in Apps : /\ manifest.apps[a].version = NextVersion(Tree(s), a)
                         /\ manifest.apps[a].content = Tree(s).content[a]
  BY <1>2, <1>3 DEF Manifest
<1>10. /\ DOMAIN Tree(c)' = Fields
       /\ Tree(c)'.ledger = Tree(s).ledger \cup {manifest} /\ Tree(c)'.fragments = {}
  <2>1. DOMAIN Tree(s) = Fields
    BY <1>3, <1>4 DEF PipelineTypes
  <2> QED BY <1>3, <1>9, <2>1 DEF ReleaseTree, Fields
<1>11. PipelineTypes'
  <2>1. \A d \in Commits' : DOMAIN Tree(d)' = Fields
    BY <1>3, <1>4, <1>5, <1>10 DEF PipelineTypes
  <2>2. \A w \in Versioned' : release'[w] \in Commits' /\ sync'[w] \in Commits'
    BY <1>3, <1>4 DEF PipelineTypes
  <2>3. History(history')
    BY <1>3 DEF Grows
  <2> QED BY <1>3, <1>4, <2>1, <2>2, <2>3 DEF PipelineTypes
<1>12. LedgerAt(s) /\ \A m \in Tree(s).ledger : Carries(s, m)
  BY <1>3 DEF PipelineInv, LedgerInv, LedgerAt
<1>13. LedgerAt(c)' /\ FragmentAt(c)'
  <2>1. ASSUME NEW m \in Tree(s).ledger PROVE Carries(c, m)'
    <3>1. m.version \in Versioned /\ m = Built(m.version) /\ Ancestor(history, release[m.version], s)
      BY <1>12 DEF Carries
    <3>2. Built(m.version)' = m
      BY <1>7, <3>1
    <3> QED BY <1>3, <3>1, <3>2 DEF Carries
  <2>2. Carries(c, manifest)'
    BY <1>3, <1>8, <1>9 DEF Carries
  <2>3. HasNewest(Tree(c)'.ledger)
    <3>1. HasNewest(Tree(s).ledger) /\ \A n \in Tree(s).ledger : n.version \in Versions
      BY <1>4, <1>12 DEF LedgerAt, Carries
    <3> QED BY <1>3, <1>9, <1>10, <3>1, Newest
  <2>4. LedgerAt(c)'
    BY <1>10, <2>1, <2>2, <2>3 DEF LedgerAt
  <2> QED BY <1>10, <2>4 DEF FragmentAt
<1>14. LedgerInv' /\ FragmentInv'
  <2>1. \A d \in Commits : LedgerAt(d)' /\ FragmentAt(d)'
    BY <1>3, <1>4, SameLedger
  <2> QED BY <1>3, <1>13, <2>1 DEF LedgerInv, FragmentInv
<1>15. ReleaseAt(v)'
  <2>1. Released(Tree(s)'.ledger) = {w \in Versioned' : Newer(v, w)}
    BY <1>3, <1>5, <1>6, Order
  <2>2. Tree(s)' = Tree(s) /\ s \in Commits' /\ Planned(s)'
    BY <1>3, <1>5 DEF Planned
  <2>3. (SourceOf(v) \in Commits)' /\ history'[release'[v]].parents = <<SourceOf(v)'>>
    BY <1>3, <1>8, <2>2
  <2>4. Tree(release[v])' = ReleaseTree(Tree(SourceOf(v))', Built(v)')
    <3>1. Tree(release[v])' = Tree(c)' /\ Tree(SourceOf(v))' = Tree(s)'
      BY <1>3, <1>8 DEF Tree
    <3> QED BY <1>3, <1>8, <2>2, <3>1
  <2>5. Planned(SourceOf(v))'
    BY <1>8, <2>2 DEF Planned, Tree
  <2>6. Released(Tree(SourceOf(v))'.ledger) = {w \in Versioned' : Newer(v, w)}
    BY <1>8, <2>1 DEF Tree
  <2> QED BY <1>8, <1>9, <2>3, <2>4, <2>5, <2>6 DEF ReleaseAt
<1>16. ReleaseInv'
  <2>1. ASSUME NEW w \in Versioned PROVE Ancestor(history', release'[w], sync'[w])
    <3>1. sync[w] \in Commits /\ Ancestor(history, release[w], sync[w])
      BY <1>4 DEF PipelineInv, PipelineTypes, ReleaseInv
    <3> QED BY <1>3, <1>4, <3>1, SameCommit
  <2>2. Ancestor(history', release'[v], sync'[v])
    BY <1>3
  <2>3. InitialVersion \in Versioned'
    BY <1>3 DEF TargetAccepted, Versioned, PipelineInv, ReleaseInv
  <2>4. ~Newer(InitialVersion, v)
    BY <1>3, <1>4, <1>6, <2>3, Order
  <2> QED BY <1>3, <1>7, <1>15, <2>1, <2>2, <2>3, <2>4 DEF PipelineInv, ReleaseInv
<1>17. WheelInv'
  <2>1. ASSUME NEW w \in Versioned, NEW a \in Apps,
               Built(w)'.apps[a].version = Built(v)'.apps[a].version
        PROVE  Built(w)'.apps[a].content = Built(v)'.apps[a].content
    <3>1. Built(w).apps[a].version = NextVersion(Tree(s), a)
      BY <1>7, <1>8, <1>9, <2>1
    <3>2. Built(w).apps[a].content = Tree(s).content[a]
      BY <1>3, <3>1, PlanFits
    <3> QED BY <1>7, <1>8, <1>9, <3>2
  <2>2. ASSUME NEW w \in Versioned, NEW u \in Versioned, NEW a \in Apps,
               Built(w)'.apps[a].version = Built(u)'.apps[a].version
        PROVE  Built(w)'.apps[a].content = Built(u)'.apps[a].content
    BY <1>7, <2>2 DEF PipelineInv, WheelInv
  <2>3. ASSUME NEW w \in Versioned', NEW u \in Versioned', NEW a \in Apps,
               Built(w)'.apps[a].version = Built(u)'.apps[a].version
        PROVE  Built(w)'.apps[a].content = Built(u)'.apps[a].content
    <3>1. CASE w \in Versioned /\ u \in Versioned
      BY <2>2, <2>3, <3>1
    <3>2. CASE w \in Versioned /\ u = v
      BY <2>1, <2>3, <3>2
    <3>3. CASE w = v /\ u \in Versioned
      BY <2>1, <2>3, <3>3
    <3>4. CASE w = v /\ u = v
      BY <3>4
    <3> QED BY <1>3, <3>1, <3>2, <3>3, <3>4
  <2> QED BY <2>3 DEF WheelInv
<1>18. BuildInv'
  BY <1>4 DEF BuildInv
<1> QED BY <1>11, <1>14, <1>16, <1>17, <1>18 DEF PipelineInv

LEMMA PushStep ==
  ASSUME PipelineInv, Push
  PROVE  PipelineInv'
<1>1. CASE Target \notin DOMAIN release \cup DOMAIN sync
           /\ Commit(ReleaseCommit.parents, ReleaseCommit.tree)
           /\ release' = With(release, Target, Fresh) /\ sync' = With(sync, Target, Fresh)
  <2>1. Publishes
    BY <1>1, Zenon DEF Push, Publishes, Versioned
  <2> QED BY <2>1, PublishesStep
<1>2. CASE UNCHANGED <<history, refs>>
  BY <1>2, QuietBuild DEF Push, refs
<1> QED BY <1>1, <1>2 DEF Push

(* Every step of the pipeline keeps the invariant.                         *)
LEMMA StepPipelineInv ==
  ASSUME PipelineInv, [PipelineNext]_pipeline
  PROVE  PipelineInv'
<1>1. CASE Build
  BY <1>1, StartBuildStep, PrepareStep, VerifyPublicationStep, PushStep, RestOfBuild DEF Build
<1>2. CASE People
  <2>1. CASE \E p \in PullRequests : MergePull(p)
    BY <2>1, MergePullStep
  <2>2. CASE \E v \in DOMAIN sync : UpdateBranch(v) \/ MergeSync(v) \/ OpenByHand(v)
    <3>1. PICK v \in DOMAIN sync : UpdateBranch(v) \/ MergeSync(v) \/ OpenByHand(v)
      BY <2>2
    <3> QED BY <3>1, UpdateBranchStep, MergeSyncStep, RestOfBuild
  <2> QED BY <1>2, <2>1, <2>2 DEF People
<1>3. CASE UNCHANGED pipeline
  BY <1>3, RestOfBuild
<1> QED BY <1>1, <1>2, <1>3 DEF PipelineNext

LEMMA PipelineHoldsInv == PipelineSpec => []PipelineInv
<1>1. PipelineInit => PipelineInv
  BY InitPipelineInv
<1>2. PipelineInv /\ [PipelineNext]_pipeline => PipelineInv'
  BY StepPipelineInv
<1> QED BY <1>1, <1>2, PTL DEF PipelineSpec

(* Published releases stand: a main that carries them all passes the whole *)
(* verification of the ledger, and a version names one wheel for good.     *)
THEOREM PublishedReleasesStand == PipelineSpec => []ReleasesStand
<1>1. PipelineInv => ReleasesStand
  BY Standing
<1> QED BY <1>1, PipelineHoldsInv, PTL

(* A change fragment is consumed by one release only.                      *)
THEOREM AChangeIsReleasedOnce == PipelineSpec => []ChangesReleasedOnce
<1>1. PipelineInv => ChangesReleasedOnce
  BY ConsumedOnce
<1> QED BY <1>1, PipelineHoldsInv, PTL

(* The source of a release descends from every older release.              *)
THEOREM AReleaseIsOnTop == PipelineSpec => []OneReleaseAtATime
<1>1. PipelineInv => OneReleaseAtATime
  BY OnTop
<1> QED BY <1>1, PipelineHoldsInv, PTL
-----------------------------------------------------------------------------
(* The token refresh.                                                      *)
Holding(t) == pc[t] \in {"asked", "answered"}

(* The row lock is held and the copy presented is the row.                 *)
HolderSeesTheRow ==
  \A t \in Tasks : Holding(t) =>
     /\ locks[target[t]] = t
     /\ row[target[t]] = copy[t]
     /\ copy[t].grant # NoGrant

(* No grant stands in two rows, none of the table is retired or unissued,  *)
(* and an answer that is not saved yet is nobody else's.                   *)
GrantsDistinct ==
  /\ retired \subseteq 0..issued
  /\ \A k \in Tokens : Present(k) =>
        row[k].grant \in 0..issued /\ row[k].grant \notin retired
  /\ \A j, k \in Tokens : Present(j) /\ Present(k) /\ j # k =>
        row[j].grant # row[k].grant \/ row[j].grant = NoGrant
  /\ \A t \in Tasks : pc[t] = "answered" =>
        /\ answer[t] \in 1..issued /\ answer[t] \notin retired
        /\ \A k \in Tokens : Present(k) => row[k].grant # answer[t]
        /\ \A u \in Tasks : pc[u] = "answered" /\ u # t => answer[u] # answer[t]

IInv == TypeOK /\ HolderSeesTheRow /\ GrantsDistinct

-----------------------------------------------------------------------------
(* A row of the table is a record, never the mark of a missing row. *)
LEMMA GoneIsNoRow == Gone \notin Rows
BY GoneAssumption, BoundsAssumption DEF Rows, Grants

LEMMA BlankIsRow == \A o \in 0..MaxOwner : Of(o) \in Rows
BY BoundsAssumption DEF Of, Rows, Grants, NoGrant

(* The ways a call ends or goes on keep the local variables in their types.*)
LEMMA EndTypes ==
  ASSUME TypeOK, NEW t \in Tasks, NEW how \in Outcomes, NEW instance \in Rows,
         EndWith(t, how, instance)
  PROVE  /\ pc' \in [Tasks -> {"idle", "start", "loop", "asked", "answered"}]
         /\ call' \in [Tasks -> Single \cup Bulk]
         /\ copy' \in [Tasks -> Rows]
         /\ observed' \in [Tasks -> SUBSET (Tokens \X (0..MaxClock))]
         /\ visited' \in [Tasks -> SUBSET Tokens]
         /\ kept' \in [Tasks -> SUBSET Tokens]
         /\ incomplete' \in [Tasks -> BOOLEAN]
         /\ answer' \in [Tasks -> Grants]
         /\ outcome' \in [Tasks -> Outcomes]
         /\ pc' = [pc EXCEPT ![t] = "idle"]
BY BoundsAssumption DEF EndWith, TypeOK, Single, Grants, NoGrant

LEMMA ResumeTypes ==
  ASSUME TypeOK, NEW t \in Tasks, NEW how \in Outcomes, NEW instance \in Rows,
         NEW accepted \in SUBSET Tokens, NEW unanswered \in BOOLEAN,
         Resume(t, how, instance, accepted, unanswered)
  PROVE  /\ pc' \in [Tasks -> {"idle", "start", "loop", "asked", "answered"}]
         /\ call' \in [Tasks -> Single \cup Bulk]
         /\ copy' \in [Tasks -> Rows]
         /\ observed' \in [Tasks -> SUBSET (Tokens \X (0..MaxClock))]
         /\ visited' \in [Tasks -> SUBSET Tokens]
         /\ kept' \in [Tasks -> SUBSET Tokens]
         /\ incomplete' \in [Tasks -> BOOLEAN]
         /\ answer' \in [Tasks -> Grants]
         /\ outcome' \in [Tasks -> Outcomes]
         /\ pc' = [pc EXCEPT ![t] = pc'[t]]
         /\ pc'[t] \in {"idle", "loop"}
<1>1. CASE EndWith(t, how, instance)
  BY <1>1, EndTypes DEF TypeOK
<1>2. CASE call[t] \in Bulk /\ ~EndWith(t, how, instance)
  <2>1. copy[t].owner \in 0..MaxOwner
    BY DEF TypeOK, Rows
  <2>2. Of(copy[t].owner) \in Rows
    BY <2>1, BlankIsRow
  <2>3. NoGrant \in Grants
    BY BoundsAssumption DEF Grants, NoGrant
  <2>4. (incomplete[t] \/ unanswered) \in BOOLEAN
    OBVIOUS
  <2>5. incomplete' \in [Tasks -> BOOLEAN]
    BY <1>2, <2>4, Zenon DEF Resume, TypeOK
  <2> QED BY <1>2, <2>2, <2>3, <2>5 DEF Resume, TypeOK
<1> QED BY <1>1, <1>2 DEF Resume

-----------------------------------------------------------------------------
(* Types. *)
LEMMA TypeInit == Init => TypeOK
<1> SUFFICES ASSUME Init PROVE TypeOK
  OBVIOUS
<1> USE BoundsAssumption, TokensAssumption
<1>1. issued \in Grants /\ issued \in 0..MaxGrants
  <2>1. Cardinality(Tokens) \in Nat
    BY FS_CardinalityType
  <2> QED BY <2>1 DEF Init, Grants
<1>2. row \in [Tokens -> Rows]
  BY <1>1 DEF Init, Rows, Grants
<1>3. Blank \in Rows
  BY BlankIsRow DEF Blank
<1>4. call \in [Tasks -> Single \cup Bulk] /\ target \in [Tasks -> Tokens]
  BY DEF Init, Single
<1>5. answer \in [Tasks -> Grants] /\ outcome \in [Tasks -> Outcomes]
  BY DEF Init, Grants, NoGrant, Outcomes
<1> QED BY <1>1, <1>2, <1>3, <1>4, <1>5 DEF Init, TypeOK

LEMMA RotatesTypes ==
  ASSUME TypeOK, NEW t \in Tasks, Rotates(t) \/ UNCHANGED service
  PROVE  issued' \in Grants /\ live' \subseteq 1..issued' /\ retired' \subseteq Grants
<1>1. CASE Rotates(t)
  <2>1. issued' = issued + 1 /\ issued' \in Grants /\ 1..issued \subseteq 1..issued'
    BY <1>1, BoundsAssumption DEF Rotates, TypeOK, Grants
  <2>2. issued' \in 1..issued'
    BY <1>1, BoundsAssumption DEF Rotates, TypeOK, Grants
  <2> QED BY <1>1, <2>1, <2>2 DEF Rotates, TypeOK
<1> QED BY <1>1 DEF service, TypeOK

LEMMA TypeStep == TypeOK /\ [Next]_vars => TypeOK'
<1> SUFFICES ASSUME TypeOK, [Next]_vars PROVE TypeOK'
  OBVIOUS
<1> USE BoundsAssumption, GoneIsNoRow DEF table, service, bulk
<1>b. Blank \in Rows
  BY BlankIsRow DEF Blank
<1>o. {"none", "ok", "tokens", "empty", "incomplete", "error"} \subseteq Outcomes
  BY DEF Outcomes
<1>1. ASSUME NEW t \in Tasks, NEW k \in Tokens, NEW op \in Single, LoadInstance(t, k, op)
      PROVE  TypeOK'
  BY <1>1, <1>o DEF LoadInstance, TypeOK, Present
<1>2. ASSUME NEW t \in Tasks, NEW owner \in 0..MaxOwner, NEW op \in Bulk, Observe(t, owner, op)
      PROVE  TypeOK'
  <2>1. Of(owner) \in Rows
    BY BlankIsRow
  <2> DEFINE matching == {k \in Tokens : Present(k) /\ row[k].owner = owner}
  <2> DEFINE fresh == IF op = "require_valid"
                      THEN {k \in matching : ~Expired(row[k])} ELSE {}
  <2>2. fresh \in SUBSET Tokens
    OBVIOUS
  <2>3. \A k \in matching : row[k].created \in 0..MaxClock
    BY DEF TypeOK, Present, Rows
  <2>4. {<<k, row[k].created>> : k \in matching \ fresh} \in SUBSET (Tokens \X (0..MaxClock))
    BY <2>3
  <2>5. /\ observed' = [observed EXCEPT ![t] = {<<k, row[k].created>> : k \in matching \ fresh}]
        /\ kept' = [kept EXCEPT ![t] = fresh]
    BY <1>2 DEF Observe
  <2> HIDE DEF matching, fresh
  <2>6. observed' \in [Tasks -> SUBSET (Tokens \X (0..MaxClock))] /\ kept' \in [Tasks -> SUBSET Tokens]
    BY <2>2, <2>4, <2>5 DEF TypeOK
  <2> QED BY <1>2, <1>o, <2>1, <2>6 DEF Observe, TypeOK
<1>3. ASSUME NEW t \in Tasks, NoLongerOurs(t) PROVE TypeOK'
  BY <1>3, <1>b, <1>o, EndTypes DEF NoLongerOurs, End, TypeOK
<1>4. ASSUME NEW t \in Tasks, Reuse(t) PROVE TypeOK'
  <2>1. row[target[t]] \in Rows
    BY <1>4 DEF Reuse, Present, TypeOK
  <2> QED BY <1>4, <1>o, <2>1, EndTypes DEF Reuse, TypeOK
<1>5. ASSUME NEW t \in Tasks, NotRefreshable(t) PROVE TypeOK'
  BY <1>5, <1>b, <1>o, EndTypes DEF NotRefreshable, End, TypeOK
<1>6. ASSUME NEW t \in Tasks, LockToRefresh(t) PROVE TypeOK'
  BY <1>6 DEF LockToRefresh, TakeLock, Present, TypeOK
<1>7. ASSUME NEW t \in Tasks, NEW k \in Tokens, NEW created \in 0..MaxClock,
             SkipRow(t, k, created) \/ AcceptRow(t, k, created)
             \/ DeleteExpiredRow(t, k, created) \/ LockRow(t, k, created)
      PROVE  TypeOK'
  <2>1. CASE SkipRow(t, k, created)
    BY <2>1 DEF SkipRow, Visited, TypeOK
  <2>2. CASE AcceptRow(t, k, created)
    BY <2>2 DEF AcceptRow, Visited, TypeOK
  <2>3. CASE DeleteExpiredRow(t, k, created)
    BY <2>3 DEF DeleteExpiredRow, Visited, TypeOK
  <2>4. CASE LockRow(t, k, created)
    BY <2>4 DEF LockRow, Visited, TakeLock, InQueryset, Present, TypeOK
  <2> QED BY <1>7, <2>1, <2>2, <2>3, <2>4
<1>8. ASSUME NEW t \in Tasks, Finish(t) PROVE TypeOK'
  BY <1>8, <1>b, <1>o, EndTypes DEF Finish, End, TypeOK
<1>9. ASSUME NEW t \in Tasks, Granted(t) PROVE TypeOK'
  <2>1. issued + 1 \in Grants
    BY <1>9 DEF Granted, Rotates, TypeOK, Grants
  <2> QED BY <1>9, <2>1, RotatesTypes DEF Granted, TypeOK
<1>10. ASSUME NEW t \in Tasks, Save(t) PROVE TypeOK'
  <2> DEFINE renewed == [owner |-> copy[t].owner, created |-> clock, grant |-> answer[t]]
  <2>1. renewed \in Rows
    BY DEF TypeOK, Rows
  <2>2. {target[t]} \in SUBSET Tokens
    BY DEF TypeOK
  <2>3. Resume(t, "ok", renewed, {target[t]}, FALSE)
    BY <1>10 DEF Save
  <2> HIDE DEF renewed
  <2>4. row' = [row EXCEPT ![target[t]] = renewed]
    BY <1>10 DEF Save, renewed
  <2>5. retired' \subseteq Grants
    BY <1>10 DEF Save, TypeOK, Rows
  <2>6. live' \subseteq 1..issued' /\ issued' \in Grants
    BY <1>10 DEF Save, TypeOK
  <2>7. locks' \in [Tokens -> Tasks \cup {Free}] /\ row' \in [Tokens -> Rows \cup {Gone}]
    BY <1>10, <2>1, <2>4 DEF Save, Release, TypeOK
  <2>8. UNCHANGED <<clock, kills, target>>
    BY <1>10 DEF Save
  <2> QED BY <1>o, <2>1, <2>2, <2>3, <2>5, <2>6, <2>7, <2>8, ResumeTypes DEF TypeOK
<1>11. ASSUME NEW t \in Tasks, Refused(t) PROVE TypeOK'
  BY <1>11, <1>b, <1>o, ResumeTypes DEF Refused, Release, TypeOK
<1>12. ASSUME NEW t \in Tasks, Incomplete(t) PROVE TypeOK'
  <2>1. Resume(t, "incomplete", Blank, {}, TRUE)
    BY <1>12 DEF Incomplete
  <2>2. issued' \in Grants /\ live' \subseteq 1..issued' /\ retired' \subseteq Grants
    BY <1>12, RotatesTypes DEF Incomplete
  <2> QED BY <1>12, <1>b, <1>o, <2>1, <2>2, ResumeTypes DEF Incomplete, Release, TypeOK
<1>13. ASSUME NEW t \in Tasks, TransportError(t) PROVE TypeOK'
  <2>1. issued' \in Grants /\ live' \subseteq 1..issued' /\ retired' \subseteq Grants
    BY <1>13, RotatesTypes DEF TransportError
  <2> QED BY <1>13, <1>b, <1>o, <2>1, EndTypes DEF TransportError, End, Release, TypeOK
<1>14. ASSUME NEW t \in Tasks, Kill(t) PROVE TypeOK'
  BY <1>14, <1>b, <1>o, EndTypes DEF Kill, End, TypeOK
<1>15. CASE Tick
  BY <1>15 DEF Tick, TypeOK
<1>16. ASSUME NEW k \in Tokens, Reauthorize(k) PROVE TypeOK'
  BY <1>16 DEF Reauthorize, Present, TypeOK, Rows, Grants
<1>17. ASSUME NEW k \in Tokens, Reassign(k) PROVE TypeOK'
  BY <1>17 DEF Reassign, Present, TypeOK, Rows
<1>18. ASSUME NEW g \in live, Revoke(g) PROVE TypeOK'
  BY <1>18 DEF Revoke, TypeOK
<1>19. CASE UNCHANGED vars
  BY <1>19 DEF vars, TypeOK
<1> QED
  BY <1>1, <1>2, <1>3, <1>4, <1>5, <1>6, <1>7, <1>8, <1>9, <1>10, <1>11, <1>12, <1>13,
     <1>14, <1>15, <1>16, <1>17, <1>18, <1>19 DEF Next, Begin, Step, Environment

(* Every operation, answer of the service, kill and write of another       *)
(* process keeps the table, the service and the callers in their types.    *)
THEOREM TypeCorrect == Spec => []TypeOK
BY TypeInit, TypeStep, PTL DEF Spec

-----------------------------------------------------------------------------
(* The critical section. *)

(* What one task does to a row it may lock leaves every other holder with  *)
(* its lock and its row.                                                   *)
LEMMA OthersKeepTheirRow ==
  ASSUME TypeOK, HolderSeesTheRow, NEW t \in Tasks, NEW k \in Tokens,
         locks[k] \in {Free, t},
         \A u \in Tasks \ {t} : /\ pc'[u] = pc[u] /\ target'[u] = target[u]
                                /\ copy'[u] = copy[u],
         \A j \in Tokens \ {k} : row'[j] = row[j] /\ locks'[j] = locks[j]
  PROVE  \A u \in Tasks \ {t} : Holding(u)' =>
            /\ locks'[target'[u]] = u
            /\ row'[target'[u]] = copy'[u]
            /\ copy'[u].grant # NoGrant
<1> SUFFICES ASSUME NEW u \in Tasks \ {t}, Holding(u)'
             PROVE  /\ locks'[target'[u]] = u
                    /\ row'[target'[u]] = copy'[u]
                    /\ copy'[u].grant # NoGrant
  OBVIOUS
<1>1. Holding(u) /\ target[u] \in Tokens
  BY DEF Holding, TypeOK
<1>2. locks[target[u]] = u /\ row[target[u]] = copy[u] /\ copy[u].grant # NoGrant
  BY <1>1 DEF HolderSeesTheRow
<1>3. target[u] # k
  BY <1>2, FreeAssumption
<1> QED BY <1>1, <1>2, <1>3

(* Taking rows away, or leaving their grants alone, keeps grants distinct. *)
LEMMA FewerGrants ==
  ASSUME TypeOK, TypeOK', GrantsDistinct,
         \A k \in Tokens : row'[k] # Gone => row[k] # Gone /\ row'[k].grant = row[k].grant,
         issued' >= issued, retired' = retired,
         \A u \in Tasks : pc'[u] = "answered" => pc[u] = "answered" /\ answer'[u] = answer[u]
  PROVE  GrantsDistinct'
<1>1. 0..issued \subseteq 0..issued' /\ 1..issued \subseteq 1..issued'
  BY BoundsAssumption DEF TypeOK, Grants
<1> QED BY <1>1 DEF GrantsDistinct, Present

LEMMA IInit == Init => IInv
<1> SUFFICES ASSUME Init PROVE IInv
  OBVIOUS
<1>1. TypeOK
  BY TypeInit
<1>2. HolderSeesTheRow
  BY DEF Init, HolderSeesTheRow, Holding
<1>3. GrantsDistinct
  BY DEF Init, GrantsDistinct, Present, NoGrant
<1> QED BY <1>1, <1>2, <1>3 DEF IInv

(* The steps that end a critical section, or never enter one, and only     *)
(* take rows away.                                                         *)
LEMMA QuietStep ==
  ASSUME IInv, TypeOK', NEW t \in Tasks, NEW k \in Tokens,
         locks[k] \in {Free, t},
         \A u \in Tasks \ {t} : /\ pc'[u] = pc[u] /\ target'[u] = target[u]
                                /\ copy'[u] = copy[u] /\ answer'[u] = answer[u],
         \A j \in Tokens \ {k} : row'[j] = row[j] /\ locks'[j] = locks[j],
         row'[k] \in {row[k], Gone},
         pc'[t] \notin {"asked", "answered"},
         issued' >= issued, retired' = retired
  PROVE  IInv'
<1>1. HolderSeesTheRow'
  BY OthersKeepTheirRow DEF IInv, HolderSeesTheRow, Holding
<1>2. GrantsDistinct'
  <2>1. \A u \in Tasks : pc'[u] = "answered" => pc[u] = "answered" /\ answer'[u] = answer[u]
    OBVIOUS
  <2>2. \A j \in Tokens : row'[j] # Gone => row[j] # Gone /\ row'[j].grant = row[j].grant
    OBVIOUS
  <2> QED BY <2>1, <2>2, FewerGrants DEF IInv
<1> QED BY <1>1, <1>2 DEF IInv

LEMMA IStep == IInv /\ [Next]_vars => IInv'
<1> SUFFICES ASSUME IInv, [Next]_vars PROVE IInv'
  OBVIOUS
<1> USE DEF table, service, bulk
<1>t. TypeOK' /\ TypeOK
  BY TypeStep DEF IInv
<1>g. issued \in Nat /\ issued >= issued /\ issued + 1 >= issued
  BY <1>t, BoundsAssumption DEF TypeOK, Grants
<1>1. ASSUME NEW t \in Tasks, NEW k \in Tokens, NEW op \in Single, LoadInstance(t, k, op)
      PROVE  IInv'
  <2>1. HolderSeesTheRow'
    BY <1>1, <1>t DEF LoadInstance, IInv, HolderSeesTheRow, Holding, TypeOK
  <2>2. GrantsDistinct'
    BY <1>1, <1>t, <1>g, FewerGrants DEF LoadInstance, IInv, TypeOK
  <2> QED BY <1>t, <2>1, <2>2 DEF IInv
<1>2. ASSUME NEW t \in Tasks, NEW owner \in 0..MaxOwner, NEW op \in Bulk, Observe(t, owner, op)
      PROVE  IInv'
  <2>1. HolderSeesTheRow'
    BY <1>2, <1>t DEF Observe, IInv, HolderSeesTheRow, Holding, TypeOK
  <2>2. GrantsDistinct'
    BY <1>2, <1>t, <1>g, FewerGrants DEF Observe, IInv, TypeOK
  <2> QED BY <1>t, <2>1, <2>2 DEF IInv
<1>3. ASSUME NEW t \in Tasks, NoLongerOurs(t) \/ Reuse(t) \/ NotRefreshable(t)
      PROVE  IInv'
  <2>1. target[t] \in Tokens /\ locks[target[t]] = Free
    BY <1>3, <1>t DEF NoLongerOurs, Reuse, NotRefreshable, CanLock, TypeOK
  <2>2. /\ UNCHANGED <<locks, issued, retired, target>>
        /\ row' = row \/ row' = [row EXCEPT ![target[t]] = Gone]
        /\ \E how, instance : EndWith(t, how, instance)
    BY <1>3 DEF NoLongerOurs, Reuse, NotRefreshable, End
  <2>3. /\ pc' = [pc EXCEPT ![t] = "idle"] /\ answer' = [answer EXCEPT ![t] = NoGrant]
        /\ \A u \in Tasks \ {t} : copy'[u] = copy[u]
    BY <2>2, <1>t DEF EndWith, TypeOK
  <2> QED BY <1>t, <1>g, <2>1, <2>2, <2>3, QuietStep DEF TypeOK
<1>4. ASSUME NEW t \in Tasks, LockToRefresh(t) PROVE IInv'
  <2> DEFINE k == target[t]
  <2>1. /\ k \in Tokens /\ locks[k] = Free
        /\ locks' = [locks EXCEPT ![k] = t] /\ copy' = [copy EXCEPT ![t] = row[k]]
        /\ pc' = [pc EXCEPT ![t] = "asked"]
        /\ row[k].grant # NoGrant
        /\ UNCHANGED <<row, issued, retired, target, answer>>
    BY <1>4, <1>t DEF LockToRefresh, TakeLock, CanLock, TypeOK
  <2>2. HolderSeesTheRow'
    BY <1>t, <2>1, OthersKeepTheirRow DEF IInv, HolderSeesTheRow, Holding, TypeOK
  <2>3. GrantsDistinct'
    BY <1>t, <1>g, <2>1, FewerGrants DEF IInv, TypeOK
  <2> QED BY <1>t, <2>2, <2>3 DEF IInv
<1>5. ASSUME NEW t \in Tasks, NEW k \in Tokens, NEW created \in 0..MaxClock,
             LockRow(t, k, created)
      PROVE  IInv'
  <2>1. /\ locks[k] = Free
        /\ locks' = [locks EXCEPT ![k] = t] /\ copy' = [copy EXCEPT ![t] = row[k]]
        /\ pc' = [pc EXCEPT ![t] = "asked"] /\ target' = [target EXCEPT ![t] = k]
        /\ row[k].grant # NoGrant
        /\ UNCHANGED <<row, issued, retired, answer>>
    BY <1>5 DEF LockRow, TakeLock, Visit, CanLock
  <2>2. HolderSeesTheRow'
    BY <1>t, <2>1, OthersKeepTheirRow DEF IInv, HolderSeesTheRow, Holding, TypeOK
  <2>3. GrantsDistinct'
    BY <1>t, <1>g, <2>1, FewerGrants DEF IInv, TypeOK
  <2> QED BY <1>t, <2>2, <2>3 DEF IInv
<1>6. ASSUME NEW t \in Tasks, NEW k \in Tokens, NEW created \in 0..MaxClock,
             SkipRow(t, k, created) \/ AcceptRow(t, k, created)
             \/ DeleteExpiredRow(t, k, created)
      PROVE  IInv'
  <2>1. /\ locks[k] = Free /\ pc[t] = "loop"
        /\ row' = row \/ row' = [row EXCEPT ![k] = Gone]
        /\ UNCHANGED <<locks, issued, retired, target, pc, copy, answer>>
    BY <1>6 DEF SkipRow, AcceptRow, DeleteExpiredRow, Visit, CanLock
  <2> QED BY <1>t, <1>g, <2>1, QuietStep DEF TypeOK
<1>7. ASSUME NEW t \in Tasks, Finish(t) PROVE IInv'
  <2>1. /\ pc' = [pc EXCEPT ![t] = "idle"] /\ answer' = [answer EXCEPT ![t] = NoGrant]
        /\ copy' = [copy EXCEPT ![t] = Blank]
        /\ UNCHANGED <<row, locks, issued, retired, target>>
    BY <1>7 DEF Finish, End, EndWith
  <2>2. HolderSeesTheRow'
    BY <2>1, <1>t DEF IInv, HolderSeesTheRow, Holding, TypeOK
  <2>3. GrantsDistinct'
    BY <1>t, <1>g, <2>1, FewerGrants DEF IInv, TypeOK
  <2> QED BY <1>t, <2>2, <2>3 DEF IInv
<1>8. ASSUME NEW t \in Tasks, Granted(t) PROVE IInv'
  <2>1. /\ pc[t] = "asked" /\ issued' = issued + 1
        /\ answer' = [answer EXCEPT ![t] = issued + 1]
        /\ pc' = [pc EXCEPT ![t] = "answered"]
        /\ UNCHANGED <<row, locks, retired, target, copy>>
    BY <1>8 DEF Granted, Rotates
  <2>2. HolderSeesTheRow'
    BY <2>1, <1>t DEF IInv, HolderSeesTheRow, Holding, TypeOK
  <2>3. retired \subseteq 0..issued
    BY DEF IInv, GrantsDistinct
  <2>4. /\ answer'[t] = issued + 1 /\ pc'[t] = "answered"
        /\ issued + 1 \in 1..issued' /\ issued + 1 \notin 0..issued
        /\ 0..issued \subseteq 0..issued' /\ 1..issued \subseteq 1..issued'
        /\ 1..issued \subseteq 0..issued
    BY <2>1, <1>t, <1>g DEF TypeOK
  <2>5. \A u \in Tasks \ {t} : pc'[u] = pc[u] /\ answer'[u] = answer[u]
    BY <2>1, <1>t DEF TypeOK
  <2>6. GrantsDistinct'
    BY <2>1, <2>3, <2>4, <2>5 DEF IInv, GrantsDistinct, Present
  <2> QED BY <1>t, <2>2, <2>6 DEF IInv
<1>9. ASSUME NEW t \in Tasks, Save(t) PROVE IInv'
  <2> DEFINE k == target[t]
  <2> DEFINE renewed == [owner |-> copy[t].owner, created |-> clock, grant |-> answer[t]]
  <2>1. /\ pc[t] = "answered" /\ k \in Tokens
        /\ row' = [row EXCEPT ![k] = renewed]
        /\ locks' = [locks EXCEPT ![k] = Free]
        /\ retired' = retired \cup {copy[t].grant}
        /\ Resume(t, "ok", renewed, {k}, FALSE)
        /\ UNCHANGED <<issued, target>>
    BY <1>9, <1>t DEF Save, Release, TypeOK
  <2>2. /\ pc'[t] \notin {"asked", "answered"}
        /\ \A u \in Tasks \ {t} : pc'[u] = pc[u] /\ copy'[u] = copy[u] /\ answer'[u] = answer[u]
    BY <2>1, <1>t DEF Resume, EndWith, TypeOK
  <2>3. locks[k] = t /\ row[k] = copy[t] /\ copy[t].grant # NoGrant /\ row[k] # Gone
    BY <2>1, <1>t, GoneIsNoRow DEF IInv, HolderSeesTheRow, Holding, TypeOK
  <2>4. HolderSeesTheRow'
    BY <1>t, <2>1, <2>2, <2>3, OthersKeepTheirRow DEF IInv, HolderSeesTheRow, Holding, TypeOK
  <2>5. /\ row'[k] = renewed /\ renewed.grant = answer[t]
        /\ \A j \in Tokens \ {k} : row'[j] = row[j]
    BY <2>1, <1>t DEF TypeOK
  <2>6. /\ answer[t] \in 1..issued /\ answer[t] \notin retired
        /\ \A j \in Tokens : row[j] # Gone => row[j].grant # answer[t]
        /\ \A u \in Tasks \ {t} : pc[u] = "answered" => answer[u] # answer[t]
    BY <2>1 DEF IInv, GrantsDistinct, Present
  <2>7. row[k].grant \in 0..issued /\ row[k].grant # answer[t]
    BY <2>1, <2>3, <2>6 DEF IInv, GrantsDistinct, Present
  <2>8. \A j \in Tokens : row'[j] # Gone => row'[j].grant \in 0..issued' /\ row'[j].grant \notin retired'
    <3> SUFFICES ASSUME NEW j \in Tokens, row'[j] # Gone
                 PROVE  row'[j].grant \in 0..issued' /\ row'[j].grant \notin retired'
      OBVIOUS
    <3>1. CASE j = k
      BY <3>1, <2>1, <2>3, <2>5, <2>6, <2>7, <1>g
    <3>2. CASE j # k
      <4>1. row[j].grant \in 0..issued /\ row[j].grant \notin retired
        BY <3>2, <2>5 DEF IInv, GrantsDistinct, Present
      <4>2. row[j].grant # row[k].grant
        BY <3>2, <2>1, <2>3, <2>5 DEF IInv, GrantsDistinct, Present
      <4> QED BY <3>2, <4>1, <4>2, <2>1, <2>3, <2>5
    <3> QED BY <3>1, <3>2
  <2>9. \A i, j \in Tokens : row'[i] # Gone /\ row'[j] # Gone /\ i # j =>
           row'[i].grant # row'[j].grant \/ row'[i].grant = NoGrant
    BY <2>1, <2>5, <2>6 DEF IInv, GrantsDistinct, Present
  <2>10. \A u \in Tasks : pc'[u] = "answered" =>
           /\ answer'[u] \in 1..issued' /\ answer'[u] \notin retired'
           /\ \A j \in Tokens : row'[j] # Gone => row'[j].grant # answer'[u]
           /\ \A v \in Tasks : pc'[v] = "answered" /\ v # u => answer'[v] # answer'[u]
    <3> SUFFICES ASSUME NEW u \in Tasks, pc'[u] = "answered"
                 PROVE  /\ answer'[u] \in 1..issued' /\ answer'[u] \notin retired'
                        /\ \A j \in Tokens : row'[j] # Gone => row'[j].grant # answer'[u]
                        /\ \A v \in Tasks : pc'[v] = "answered" /\ v # u => answer'[v] # answer'[u]
      OBVIOUS
    <3>1. u # t /\ pc[u] = "answered" /\ answer'[u] = answer[u]
      BY <2>2
    <3>2. /\ answer[u] \in 1..issued /\ answer[u] \notin retired
          /\ \A j \in Tokens : row[j] # Gone => row[j].grant # answer[u]
          /\ \A v \in Tasks : pc[v] = "answered" /\ v # u => answer[v] # answer[u]
      BY <3>1 DEF IInv, GrantsDistinct, Present
    <3>3. answer'[u] \notin retired'
      BY <3>1, <3>2, <2>1, <2>3
    <3>4. \A j \in Tokens : row'[j] # Gone => row'[j].grant # answer'[u]
      BY <3>1, <3>2, <2>1, <2>5
    <3> QED BY <3>1, <3>2, <3>3, <3>4, <2>1, <2>2
  <2>11. retired' \subseteq 0..issued'
    BY <2>1, <2>3, <2>7 DEF IInv, GrantsDistinct
  <2>12. GrantsDistinct'
    BY <2>8, <2>9, <2>10, <2>11 DEF GrantsDistinct, Present
  <2> QED BY <1>t, <2>4, <2>12 DEF IInv
<1>10. ASSUME NEW t \in Tasks, Refused(t) \/ Incomplete(t) \/ TransportError(t)
       PROVE  IInv'
  <2> DEFINE k == target[t]
  <2>1. /\ pc[t] = "asked" /\ k \in Tokens
        /\ row' = row \/ row' = [row EXCEPT ![k] = Gone]
        /\ locks' = [locks EXCEPT ![k] = Free]
        /\ UNCHANGED <<retired, target>>
        /\ issued' \in {issued, issued + 1}
        /\ \/ \E how, instance : EndWith(t, how, instance)
           \/ \E how, instance, accepted, unanswered :
                 Resume(t, how, instance, accepted, unanswered)
    BY <1>10, <1>t DEF Refused, Incomplete, TransportError, Rotates, Release, End, TypeOK
  <2>2. locks[k] = t
    BY <2>1 DEF IInv, HolderSeesTheRow, Holding
  <2>3. /\ pc'[t] \notin {"asked", "answered"}
        /\ \A u \in Tasks \ {t} : pc'[u] = pc[u] /\ copy'[u] = copy[u] /\ answer'[u] = answer[u]
    BY <2>1, <1>t DEF Resume, EndWith, TypeOK
  <2>4. /\ \A j \in Tokens \ {k} : row'[j] = row[j] /\ locks'[j] = locks[j]
        /\ row'[k] \in {row[k], Gone}
    BY <2>1, <1>t DEF TypeOK
  <2>5. issued' >= issued
    BY <2>1, <1>g
  <2> QED BY <1>t, <2>1, <2>2, <2>3, <2>4, <2>5, QuietStep
<1>11. ASSUME NEW t \in Tasks, Kill(t) PROVE IInv'
  <2>1. /\ pc' = [pc EXCEPT ![t] = "idle"] /\ answer' = [answer EXCEPT ![t] = NoGrant]
        /\ copy' = [copy EXCEPT ![t] = Blank]
        /\ locks' = [k \in Tokens |-> IF locks[k] = t THEN Free ELSE locks[k]]
        /\ UNCHANGED <<row, issued, retired, target>>
    BY <1>11 DEF Kill, End, EndWith
  <2>2. HolderSeesTheRow'
    BY <2>1, <1>t DEF IInv, HolderSeesTheRow, Holding, TypeOK
  <2>3. GrantsDistinct'
    BY <1>t, <1>g, <2>1, FewerGrants DEF IInv, TypeOK
  <2> QED BY <1>t, <2>2, <2>3 DEF IInv
<1>12. CASE Tick \/ (\E g \in live : Revoke(g)) \/ UNCHANGED vars
  <2>1. UNCHANGED <<row, locks, issued, retired, pc, target, copy, answer>>
    BY <1>12 DEF Tick, Revoke, vars
  <2> QED BY <1>t, <2>1 DEF IInv, HolderSeesTheRow, Holding, GrantsDistinct, Present
<1>13. ASSUME NEW k \in Tokens, Reauthorize(k) \/ Reassign(k) PROVE IInv'
  <2>1. /\ locks[k] = Free /\ row[k] # Gone
        /\ \A j \in Tokens \ {k} : row'[j] = row[j]
        /\ UNCHANGED <<locks, retired, pc, target, copy, answer>>
    BY <1>13, <1>t DEF Reauthorize, Reassign, CanLock, Present, TypeOK
  <2>2. HolderSeesTheRow'
    <3> SUFFICES ASSUME NEW u \in Tasks, Holding(u)
                 PROVE  target[u] # k /\ locks[target[u]] = u
                        /\ row[target[u]] = copy[u] /\ copy[u].grant # NoGrant
      BY <2>1, <1>t DEF HolderSeesTheRow, Holding, TypeOK
    <3> QED BY <2>1, FreeAssumption DEF IInv, HolderSeesTheRow
  <2>3. CASE Reassign(k)
    <3>1. row'[k].grant = row[k].grant /\ issued' = issued
      BY <2>3, <1>t DEF Reassign, TypeOK
    <3>2. GrantsDistinct'
      BY <1>t, <1>g, <2>1, <3>1, FewerGrants DEF IInv
    <3> QED BY <1>t, <2>2, <3>2 DEF IInv
  <2>4. CASE Reauthorize(k)
    <3>1. issued' = issued + 1 /\ row'[k].grant = issued + 1
      BY <2>4, <1>t DEF Reauthorize, TypeOK
    <3>2. retired \subseteq 0..issued
      BY DEF IInv, GrantsDistinct
    <3>3. /\ issued + 1 \in 0..issued' /\ issued + 1 \notin 0..issued
          /\ 0..issued \subseteq 0..issued' /\ 1..issued \subseteq 1..issued'
          /\ 1..issued \subseteq 0..issued
      BY <3>1, <1>g
    <3>4. GrantsDistinct'
      BY <2>1, <3>1, <3>2, <3>3 DEF IInv, GrantsDistinct, Present
    <3> QED BY <1>t, <2>2, <3>4 DEF IInv
  <2> QED BY <1>13, <2>3, <2>4
<1> QED
  BY <1>1, <1>2, <1>3, <1>4, <1>5, <1>6, <1>7, <1>8, <1>9, <1>10, <1>11, <1>12, <1>13
     DEF Next, Begin, Step, Environment

-----------------------------------------------------------------------------
LEMMA Invariant == Spec => []IInv
BY IInit, IStep, PTL DEF Spec

(* No grant whose successor was stored is in the table or presented again, *)
(* however many tasks hold stale copies and wherever they are killed.      *)
THEOREM RotatedGrantIsSpent == Spec => []RotatedGrantNeverReused
<1>1. IInv => RotatedGrantNeverReused
  <2> SUFFICES ASSUME IInv PROVE RotatedGrantNeverReused
    OBVIOUS
  <2>1. ASSUME NEW t \in Tasks, pc[t] = "asked" PROVE copy[t].grant \notin retired
    <3>1. row[target[t]] = copy[t] /\ target[t] \in Tokens /\ copy[t] \in Rows
      BY <2>1 DEF IInv, HolderSeesTheRow, Holding, TypeOK
    <3> QED BY <3>1, GoneIsNoRow DEF IInv, GrantsDistinct, Present
  <2> QED BY <2>1 DEF IInv, GrantsDistinct, RotatedGrantNeverReused
<1> QED BY <1>1, Invariant, PTL

(* What a step deletes, the service had refused, or could never refresh. *)
LEMMA DeletionStep ==
  ASSUME IInv, [Next]_vars, NEW k \in Tokens, Deletes(k)
  PROVE  row[k].grant \notin live
<1> USE DEF table, service, bulk
<1>t. TypeOK /\ row[k] \in Rows /\ row'[k] = Gone /\ row' # row
  BY DEF IInv, TypeOK, Deletes, Present
<1>1. NoGrant \notin live
  BY <1>t, BoundsAssumption DEF TypeOK, Grants, NoGrant
<1>2. ASSUME NEW t \in Tasks, NotRefreshable(t) PROVE row[k].grant = NoGrant
  BY <1>2, <1>t, GoneIsNoRow DEF NotRefreshable, TypeOK
<1>3. ASSUME NEW t \in Tasks, NEW j \in Tokens, NEW created \in 0..MaxClock,
             DeleteExpiredRow(t, j, created)
      PROVE  row[k].grant = NoGrant
  BY <1>3, <1>t, GoneIsNoRow DEF DeleteExpiredRow, TypeOK
<1>4. ASSUME NEW t \in Tasks, Refused(t) PROVE row[k].grant \notin live
  <2>1. row' = [row EXCEPT ![target[t]] = Gone] /\ copy[t].grant \notin live
    BY <1>4, <1>t DEF Refused
  <2>2. k = target[t]
    BY <2>1, <1>t, GoneIsNoRow DEF TypeOK
  <2>3. row[k] = copy[t]
    BY <1>4, <2>2 DEF Refused, IInv, HolderSeesTheRow, Holding
  <2> QED BY <2>1, <2>3
<1>5. ASSUME NEW t \in Tasks, Save(t) PROVE FALSE
  <2> DEFINE renewed == [owner |-> copy[t].owner, created |-> clock, grant |-> answer[t]]
  <2>1. renewed \in Rows
    BY <1>t DEF TypeOK, Rows
  <2>2. row' = [row EXCEPT ![target[t]] = renewed]
    BY <1>5 DEF Save
  <2> HIDE DEF renewed
  <2> QED BY <2>1, <2>2, <1>t, GoneIsNoRow DEF TypeOK
<1>6. ASSUME NEW j \in Tokens, Reauthorize(j) \/ Reassign(j) PROVE FALSE
  <2>1. \E r : row' = [row EXCEPT ![j] = r] /\ r # Gone
    <3>1. CASE Reauthorize(j)
      <4> DEFINE r == [owner |-> row[j].owner, created |-> clock, grant |-> issued + 1]
      <4>1. r \in Rows
        BY <3>1, <1>t, BoundsAssumption DEF Reauthorize, Present, TypeOK, Rows, Grants
      <4> QED BY <3>1, <4>1, GoneIsNoRow DEF Reauthorize
    <3>2. CASE Reassign(j)
      <4> DEFINE r == [owner |-> row[j].owner + 1, created |-> row[j].created,
                       grant |-> row[j].grant]
      <4>1. r \in Rows
        BY <3>2, <1>t, BoundsAssumption DEF Reassign, Present, TypeOK, Rows
      <4> QED BY <3>2, <4>1, GoneIsNoRow DEF Reassign
    <3> QED BY <1>6, <3>1, <3>2
  <2> QED BY <2>1, <1>t, GoneIsNoRow DEF TypeOK
<1>7. \/ \E t \in Tasks : NotRefreshable(t) \/ Refused(t) \/ Save(t)
      \/ \E t \in Tasks, j \in Tokens, created \in 0..MaxClock : DeleteExpiredRow(t, j, created)
      \/ \E j \in Tokens : Reauthorize(j) \/ Reassign(j)
  <2>1. ASSUME NEW t \in Tasks, NEW j \in Tokens, NEW op \in Single, LoadInstance(t, j, op)
        PROVE  row' = row
    BY <2>1 DEF LoadInstance
  <2>2. ASSUME NEW t \in Tasks, NEW owner \in 0..MaxOwner, NEW op \in Bulk, Observe(t, owner, op)
        PROVE  row' = row
    BY <2>2 DEF Observe
  <2>3. ASSUME NEW t \in Tasks, NoLongerOurs(t) \/ Reuse(t) \/ LockToRefresh(t) \/ Finish(t)
        PROVE  row' = row
    BY <2>3 DEF NoLongerOurs, Reuse, LockToRefresh, Finish
  <2>4. ASSUME NEW t \in Tasks, NEW j \in Tokens, NEW created \in 0..MaxClock,
               SkipRow(t, j, created) \/ AcceptRow(t, j, created) \/ LockRow(t, j, created)
        PROVE  row' = row
    BY <2>4 DEF SkipRow, AcceptRow, LockRow
  <2>5. ASSUME NEW t \in Tasks, Granted(t) \/ Incomplete(t) \/ TransportError(t) \/ Kill(t)
        PROVE  row' = row
    BY <2>5 DEF Granted, Incomplete, TransportError, Kill
  <2>6. Tick \/ (\E g \in live : Revoke(g)) \/ UNCHANGED vars => row' = row
    BY DEF Tick, Revoke, vars
  <2> QED
    BY <1>t, <2>1, <2>2, <2>3, <2>4, <2>5, <2>6 DEF Next, Begin, Step, Environment
<1> QED BY <1>1, <1>2, <1>3, <1>4, <1>5, <1>6, <1>7

(* No step deletes a row whose grant the service would still accept.       *)
THEOREM LiveGrantIsKept == Spec => LiveGrantNeverDeleted
<1>1. IInv /\ [Next]_vars =>
        [\A k \in Tokens : Deletes(k) => row[k].grant \notin live]_vars
  BY DeletionStep
<1> QED BY <1>1, Invariant, PTL DEF Spec, LiveGrantNeverDeleted

-----------------------------------------------------------------------------
(* A row that is gone stays gone, and an identity only moves on.           *)
Moves(k) ==
  IF row[k] = Gone THEN row'[k] = Gone
  ELSE row'[k] = Gone \/ row'[k].owner >= row[k].owner

LEMMA RowMoves ==
  ASSUME IInv, [Next]_vars, NEW k \in Tokens
  PROVE  Moves(k)
<1> USE DEF table
<1>t. TypeOK /\ row \in [Tokens -> Rows \cup {Gone}] /\ row[k] \in Rows \cup {Gone}
  BY DEF IInv, TypeOK
<1>o. \A r \in Rows : r.owner \in Int
  BY DEF Rows
<1>1. row'[k] \in {row[k], Gone} => Moves(k)
  BY <1>t, <1>o DEF Moves
<1>2. ASSUME NEW t \in Tasks, Save(t) PROVE Moves(k)
  <2>1. /\ row' = [row EXCEPT ![target[t]] = [owner |-> copy[t].owner, created |-> clock,
                                             grant |-> answer[t]]]
        /\ row[target[t]] = copy[t] /\ copy[t] \in Rows
    BY <1>2 DEF Save, IInv, HolderSeesTheRow, Holding, TypeOK
  <2> QED BY <2>1, <1>t, <1>o, <1>1, GoneIsNoRow DEF Moves
<1>3. ASSUME NEW j \in Tokens, Reauthorize(j) PROVE Moves(k)
  BY <1>3, <1>t, <1>o, <1>1 DEF Reauthorize, Present, Moves
<1>4. ASSUME NEW j \in Tokens, Reassign(j) PROVE Moves(k)
  BY <1>4, <1>t, <1>o, <1>1 DEF Reassign, Present, Moves
<1>5. ASSUME NEW t \in Tasks, Begin(t) \/ Kill(t) PROVE Moves(k)
  BY <1>5, <1>1 DEF Begin, LoadInstance, Observe, Kill
<1>6. ASSUME NEW t \in Tasks, Step(t), ~Save(t) PROVE Moves(k)
  <2>1. row' = row \/ \E j : row' = [row EXCEPT ![j] = Gone]
    <3>1. ASSUME NEW j \in Tokens, NEW created \in 0..MaxClock,
                 SkipRow(t, j, created) \/ AcceptRow(t, j, created)
                 \/ DeleteExpiredRow(t, j, created) \/ LockRow(t, j, created)
          PROVE  row' = row \/ \E i : row' = [row EXCEPT ![i] = Gone]
      BY <3>1 DEF SkipRow, AcceptRow, DeleteExpiredRow, LockRow
    <3>2. ASSUME NoLongerOurs(t) \/ Reuse(t) \/ NotRefreshable(t) \/ LockToRefresh(t) \/ Finish(t)
          PROVE  row' = row \/ \E i : row' = [row EXCEPT ![i] = Gone]
      BY <3>2 DEF NoLongerOurs, Reuse, NotRefreshable, LockToRefresh, Finish
    <3>3. ASSUME Granted(t) \/ Refused(t) \/ Incomplete(t) \/ TransportError(t)
          PROVE  row' = row \/ \E i : row' = [row EXCEPT ![i] = Gone]
      BY <3>3 DEF Granted, Refused, Incomplete, TransportError
    <3> QED BY <1>6, <3>1, <3>2, <3>3 DEF Step
  <2> QED BY <2>1, <1>t, <1>1
<1>7. Tick \/ (\E g \in live : Revoke(g)) \/ UNCHANGED vars => Moves(k)
  BY <1>1 DEF Tick, Revoke, vars
<1> QED BY <1>2, <1>3, <1>4, <1>5, <1>6, <1>7 DEF Next, Environment

(* What a bulk call has done with the rows it has visited: it keeps the    *)
(* row, or has no answer, or works on it, or the row left its queryset for *)
(* good, since its identity only moves on.                                 *)
Works(t) == call[t] \in Bulk /\ pc[t] # "idle"
Settled(t, k) ==
  k \in kept[t] \/ incomplete[t] \/ (Holding(t) /\ k = target[t]) \/ ~InQueryset(t, k)
BulkOf(t) ==
  /\ pc[t] # "start"
  /\ \A seen \in observed[t] :
       row[seen[1]] = Gone \/ row[seen[1]].owner >= copy[t].owner
  /\ \A k \in visited[t] :
       /\ row[k] = Gone \/ row[k].owner >= copy[t].owner
       /\ Settled(t, k)
BulkInv == \A t \in Tasks : Works(t) => BulkOf(t)

LEMMA OwnersGrow ==
  ASSUME IInv, [Next]_vars, NEW k \in Tokens, NEW o \in Int,
         row[k] = Gone \/ row[k].owner >= o
  PROVE  /\ row'[k] = Gone \/ row'[k].owner >= o
         /\ (row[k] = Gone \/ row[k].owner # o) => row'[k] = Gone \/ row'[k].owner # o
<1>1. Moves(k) /\ row[k] \in Rows \cup {Gone} /\ row'[k] \in Rows \cup {Gone}
  BY RowMoves, TypeStep DEF IInv, TypeOK
<1>2. \A r \in Rows : r.owner \in Int
  BY DEF Rows
<1> QED BY <1>1, <1>2 DEF Moves

(* The calls of the other tasks.                                           *)
LEMMA OtherBulk ==
  ASSUME IInv, BulkInv, [Next]_vars, NEW u \in Tasks, Works(u)',
         call'[u] = call[u], pc'[u] = pc[u], copy'[u] = copy[u], target'[u] = target[u],
         observed'[u] = observed[u], visited'[u] = visited[u], kept'[u] = kept[u],
         incomplete'[u] = incomplete[u]
  PROVE  BulkOf(u)'
<1>1. BulkOf(u)
  BY DEF BulkInv, Works
<1>2. copy[u].owner \in Int /\ visited[u] \subseteq Tokens
      /\ \A seen \in observed[u] : seen[1] \in Tokens
  BY DEF IInv, TypeOK, Rows
<1>3. \A seen \in observed[u] : row'[seen[1]] = Gone \/ row'[seen[1]].owner >= copy[u].owner
  BY <1>1, <1>2, OwnersGrow DEF BulkOf
<1>4. \A k \in visited[u] :
        /\ row'[k] = Gone \/ row'[k].owner >= copy[u].owner
        /\ ~InQueryset(u, k) => ~InQueryset(u, k)'
  BY <1>1, <1>2, OwnersGrow DEF BulkOf, InQueryset, Present
<1> QED BY <1>1, <1>3, <1>4 DEF BulkOf, Settled, Holding

(* The other tasks keep their locals when t takes a step.                  *)
LEMMA OneBulk ==
  ASSUME IInv, BulkInv, [Next]_vars, NEW t \in Tasks,
         \A u \in Tasks \ {t} :
           /\ call'[u] = call[u] /\ pc'[u] = pc[u] /\ copy'[u] = copy[u] /\ target'[u] = target[u]
           /\ observed'[u] = observed[u] /\ visited'[u] = visited[u] /\ kept'[u] = kept[u]
           /\ incomplete'[u] = incomplete[u],
         Works(t)' => BulkOf(t)'
  PROVE  BulkInv'
BY OtherBulk DEF BulkInv

LEMMA EndBulk ==
  ASSUME IInv, BulkInv, [Next]_vars, NEW t \in Tasks, NEW how, NEW instance,
         EndWith(t, how, instance), UNCHANGED target
  PROVE  BulkInv'
<1>1. ~Works(t)'
  BY DEF EndWith, Works, IInv, TypeOK
<1> QED BY <1>1, OneBulk DEF EndWith, IInv, TypeOK

(* What a visit of bulk_refresh leaves.                                    *)
LEMMA VisitBulk ==
  ASSUME IInv, BulkInv, [Next]_vars, NEW t \in Tasks, NEW k \in Tokens, NEW created,
         Visit(t, k, created), Visited(t, k), Works(t), copy'[t].owner = copy[t].owner,
         \A u \in Tasks \ {t} :
           /\ call'[u] = call[u] /\ pc'[u] = pc[u] /\ copy'[u] = copy[u] /\ target'[u] = target[u]
           /\ kept'[u] = kept[u] /\ incomplete'[u] = incomplete[u],
         pc'[t] # "start", kept[t] \subseteq kept'[t], incomplete'[t] = incomplete[t],
         Settled(t, k)'
  PROVE  BulkInv'
<1>1. BulkOf(t) /\ pc[t] = "loop" /\ <<k, created>> \in observed[t]
  BY DEF BulkInv, Visit
<1>2. /\ copy[t].owner \in Int /\ visited[t] \subseteq Tokens
      /\ \A seen \in observed[t] : seen[1] \in Tokens
  BY DEF IInv, TypeOK, Rows
<1>3. /\ observed' = observed /\ visited'[t] = visited[t] \cup {k}
      /\ \A u \in Tasks \ {t} : visited'[u] = visited[u]
  BY DEF Visited, IInv, TypeOK
<1>4. \A seen \in observed[t] : row'[seen[1]] = Gone \/ row'[seen[1]].owner >= copy[t].owner
  BY <1>1, <1>2, OwnersGrow DEF BulkOf
<1>5. row[k] = Gone \/ row[k].owner >= copy[t].owner
  BY <1>1 DEF BulkOf
<1>6. \A j \in visited[t] \cup {k} : row'[j] = Gone \/ row'[j].owner >= copy[t].owner
  BY <1>1, <1>2, <1>5, OwnersGrow DEF BulkOf
<1>7. \A j \in visited[t] : Settled(t, j) => Settled(t, j)'
  <2>1. \A j \in visited[t] : ~InQueryset(t, j) => ~InQueryset(t, j)'
    BY <1>1, <1>2, OwnersGrow DEF BulkOf, InQueryset, Present
  <2> QED BY <1>1, <2>1 DEF Settled, Holding
<1>8. BulkOf(t)'
  BY <1>1, <1>3, <1>4, <1>6, <1>7 DEF BulkOf
<1> QED BY <1>3, <1>8, OneBulk

(* What the answer of the service leaves.                                  *)
LEMMA ResumeBulk ==
  ASSUME IInv, BulkInv, [Next]_vars, NEW t \in Tasks, NEW how, NEW instance,
         NEW accepted, NEW unanswered \in BOOLEAN,
         Resume(t, how, instance, accepted, unanswered), pc[t] # "idle", UNCHANGED target,
         target[t] \in accepted \/ unanswered \/ (call[t] \in Bulk => row'[target[t]] = Gone)
  PROVE  BulkInv'
<1>1. CASE EndWith(t, how, instance)
  BY <1>1, EndBulk
<1>2. CASE ~EndWith(t, how, instance)
  <2>1. /\ call[t] \in Bulk /\ BulkOf(t)
        /\ pc' = [pc EXCEPT ![t] = "loop"]
        /\ copy' = [copy EXCEPT ![t] = Of(copy[t].owner)]
        /\ kept' = [kept EXCEPT ![t] = @ \cup accepted]
        /\ UNCHANGED <<call, observed, visited>>
    BY <1>2 DEF Resume, BulkInv, Works
  <2>2. /\ \A u \in Tasks \ {t} : incomplete'[u] = incomplete[u]
        /\ incomplete[t] \/ unanswered => incomplete'[t]
    BY <1>2, Zenon DEF Resume, IInv, TypeOK
  <2>3. /\ copy'[t].owner = copy[t].owner /\ copy[t].owner \in Int
        /\ visited[t] \subseteq Tokens /\ kept'[t] = kept[t] \cup accepted
        /\ \A seen \in observed[t] : seen[1] \in Tokens
    BY <2>1 DEF IInv, TypeOK, Rows, Of
  <2>4. \A j \in Tokens : row[j] = Gone \/ row[j].owner >= copy[t].owner =>
          row'[j] = Gone \/ row'[j].owner >= copy[t].owner
    BY <2>3, OwnersGrow
  <2>5. \A j \in visited[t] : Settled(t, j)'
    <3>1. \A j \in visited[t] : ~InQueryset(t, j) => ~InQueryset(t, j)'
      BY <2>1, <2>3, OwnersGrow DEF BulkOf, InQueryset, Present
    <3>2. row'[target[t]] = Gone => ~InQueryset(t, target[t])'
      BY DEF InQueryset, Present
    <3> QED BY <2>1, <2>2, <2>3, <3>1, <3>2 DEF BulkOf, Settled
  <2>6. BulkOf(t)'
    BY <2>1, <2>3, <2>4, <2>5 DEF BulkOf, IInv, TypeOK
  <2> QED BY <2>1, <2>2, <2>6, OneBulk DEF IInv, TypeOK
<1> QED BY <1>1, <1>2

LEMMA BulkInit == Init => BulkInv
BY DEF Init, BulkInv, Works

LEMMA BulkStep == IInv /\ BulkInv /\ [Next]_vars => BulkInv'
<1> SUFFICES ASSUME IInv, BulkInv, [Next]_vars PROVE BulkInv'
  OBVIOUS
<1> USE DEF bulk
<1>t. TypeOK
  BY DEF IInv
<1>1. ASSUME NEW t \in Tasks, NEW k \in Tokens, NEW op \in Single, LoadInstance(t, k, op)
      PROVE  BulkInv'
  <2>1. ~Works(t)'
    BY <1>1, <1>t DEF LoadInstance, Works, Single, Bulk, TypeOK
  <2> QED BY <1>1, <1>t, <2>1, OneBulk DEF LoadInstance, TypeOK
<1>2. ASSUME NEW t \in Tasks, NEW owner \in 0..MaxOwner, NEW op \in Bulk, Observe(t, owner, op)
      PROVE  BulkInv'
  <2>1. /\ row' = row /\ visited'[t] = {} /\ copy'[t].owner = owner /\ pc'[t] = "loop"
        /\ \A seen \in observed'[t] : row[seen[1]].owner = owner
    BY <1>2, <1>t DEF Observe, table, Of, TypeOK
  <2>2. BulkOf(t)'
    BY <2>1 DEF BulkOf
  <2> QED BY <1>2, <1>t, <2>2, OneBulk DEF Observe, TypeOK
<1>3. ASSUME NEW t \in Tasks,
             NoLongerOurs(t) \/ Reuse(t) \/ NotRefreshable(t) \/ Finish(t)
             \/ TransportError(t) \/ Kill(t)
      PROVE  BulkInv'
  <2>1. target' = target /\ \E how, instance : EndWith(t, how, instance)
    BY <1>3 DEF NoLongerOurs, Reuse, NotRefreshable, Finish, TransportError, Kill, End
  <2> QED BY <2>1, EndBulk
<1>4. ASSUME NEW t \in Tasks, LockToRefresh(t)
      PROVE  BulkInv'
  <2>1. ~Works(t)'
    BY <1>4, <1>t DEF LockToRefresh, BulkInv, BulkOf, Works, TypeOK
  <2> QED BY <1>4, <1>t, <2>1, OneBulk DEF LockToRefresh, TypeOK
<1>5. ASSUME NEW t \in Tasks, NEW k \in Tokens, NEW created \in 0..MaxClock,
             SkipRow(t, k, created) \/ AcceptRow(t, k, created)
             \/ DeleteExpiredRow(t, k, created) \/ LockRow(t, k, created)
      PROVE  BulkInv'
  <2>1. /\ Visit(t, k, created) /\ Visited(t, k) /\ pc[t] = "loop" /\ call' = call
        /\ copy'[t].owner = copy[t].owner /\ pc'[t] # "start" /\ incomplete' = incomplete
        /\ \A u \in Tasks \ {t} :
             pc'[u] = pc[u] /\ copy'[u] = copy[u] /\ target'[u] = target[u] /\ kept'[u] = kept[u]
        /\ kept[t] \subseteq kept'[t]
    BY <1>5, <1>t DEF SkipRow, AcceptRow, DeleteExpiredRow, LockRow, Visit, InQueryset, TypeOK
  <2>2. CASE Works(t)
    <3>1. CASE SkipRow(t, k, created)
      <4>1. ~InQueryset(t, k)'
        BY <3>1 DEF SkipRow, InQueryset, Present, table
      <4> QED BY <2>1, <2>2, <4>1, VisitBulk DEF Settled
    <3>2. CASE AcceptRow(t, k, created)
      <4>1. k \in kept'[t]
        BY <3>2, <1>t DEF AcceptRow, TypeOK
      <4> QED BY <2>1, <2>2, <4>1, VisitBulk DEF Settled
    <3>3. CASE DeleteExpiredRow(t, k, created)
      <4>1. ~InQueryset(t, k)'
        BY <3>3, <1>t DEF DeleteExpiredRow, InQueryset, Present, TypeOK
      <4> QED BY <2>1, <2>2, <4>1, VisitBulk DEF Settled
    <3>4. CASE LockRow(t, k, created)
      <4>1. Holding(t)' /\ k = target'[t]
        BY <3>4, <1>t DEF LockRow, Holding, TypeOK
      <4> QED BY <2>1, <2>2, <4>1, VisitBulk DEF Settled
    <3> QED BY <1>5, <3>1, <3>2, <3>3, <3>4
  <2>3. CASE ~Works(t)
    <3>1. ~Works(t)'
      BY <2>1, <2>3 DEF Works
    <3>2. \A u \in Tasks \ {t} : observed'[u] = observed[u] /\ visited'[u] = visited[u]
      BY <2>1, <1>t DEF Visited, TypeOK
    <3> QED BY <2>1, <3>1, <3>2, OneBulk
  <2> QED BY <2>2, <2>3
<1>6. ASSUME NEW t \in Tasks, Granted(t)
      PROVE  BulkInv'
  <2>1. /\ pc[t] = "asked" /\ pc' = [pc EXCEPT ![t] = "answered"] /\ row' = row
        /\ UNCHANGED <<call, target, copy, observed, visited, kept, incomplete>>
    BY <1>6 DEF Granted, table
  <2>2. Works(t)' => BulkOf(t)'
    BY <2>1, <1>t DEF Works, BulkInv, BulkOf, Settled, Holding, InQueryset, Present, TypeOK
  <2> QED BY <2>1, <2>2, <1>t, OneBulk DEF TypeOK
<1>7. ASSUME NEW t \in Tasks, Save(t)
      PROVE  BulkInv'
  <2>1. PICK how, instance :
          Resume(t, how, instance, {target[t]}, FALSE) /\ pc[t] = "answered" /\ UNCHANGED target
    BY <1>7 DEF Save
  <2> QED BY <2>1, ResumeBulk
<1>8. ASSUME NEW t \in Tasks, Refused(t)
      PROVE  BulkInv'
  <2>1. PICK how, instance :
          Resume(t, how, instance, {}, FALSE) /\ pc[t] = "asked" /\ UNCHANGED target
    BY <1>8 DEF Refused
  <2>2. call[t] \in Bulk => row'[target[t]] = Gone
    BY <1>8, <1>t DEF Refused, Bulk, TypeOK
  <2> QED BY <2>1, <2>2, ResumeBulk
<1>9. ASSUME NEW t \in Tasks, Incomplete(t)
      PROVE  BulkInv'
  <2>1. PICK how, instance :
          Resume(t, how, instance, {}, TRUE) /\ pc[t] = "asked" /\ UNCHANGED target
    BY <1>9 DEF Incomplete
  <2> QED BY <2>1, ResumeBulk
<1>10. CASE Tick \/ (\E g \in live : Revoke(g)) \/ (\E k \in Tokens : Reauthorize(k) \/ Reassign(k))
            \/ UNCHANGED vars
  <2>1. UNCHANGED <<call, pc, copy, target, observed, visited, kept, incomplete>>
    BY <1>10 DEF Tick, Revoke, Reauthorize, Reassign, vars
  <2> QED BY <2>1, OtherBulk DEF BulkInv
<1> QED
  BY <1>1, <1>2, <1>3, <1>4, <1>5, <1>6, <1>7, <1>8, <1>9, <1>10
     DEF Next, Begin, Step, Environment

(* Only the calls of bulk_refresh loop.                                    *)
LoopInv == \A t \in Tasks : pc[t] = "loop" => call[t] \in Bulk

LEMMA LoopStep == TypeOK /\ LoopInv /\ [Next]_vars => LoopInv'
<1> SUFFICES ASSUME TypeOK, LoopInv, [Next]_vars PROVE LoopInv'
  OBVIOUS
<1> USE DEF TypeOK, LoopInv
<1>1. ASSUME NEW t \in Tasks, Begin(t) PROVE LoopInv'
  BY <1>1 DEF Begin, LoadInstance, Observe
<1>2. ASSUME NEW t \in Tasks,
             \/ NoLongerOurs(t) \/ Reuse(t) \/ NotRefreshable(t) \/ Finish(t)
             \/ TransportError(t) \/ Kill(t)
      PROVE  LoopInv'
  BY <1>2 DEF NoLongerOurs, Reuse, NotRefreshable, Finish, TransportError, Kill, End, EndWith
<1>3. ASSUME NEW t \in Tasks, LockToRefresh(t) \/ Granted(t) PROVE LoopInv'
  BY <1>3 DEF LockToRefresh, Granted
<1>4. ASSUME NEW t \in Tasks, NEW k \in Tokens, NEW created \in 0..MaxClock,
             SkipRow(t, k, created) \/ AcceptRow(t, k, created)
             \/ DeleteExpiredRow(t, k, created) \/ LockRow(t, k, created)
      PROVE  LoopInv'
  BY <1>4 DEF SkipRow, AcceptRow, DeleteExpiredRow, LockRow
<1>5. ASSUME NEW t \in Tasks, Save(t) \/ Refused(t) \/ Incomplete(t) PROVE LoopInv'
  <2>1. \E how, instance, accepted, unanswered :
          Resume(t, how, instance, accepted, unanswered)
    BY <1>5 DEF Save, Refused, Incomplete
  <2> QED BY <2>1 DEF Resume, EndWith
<1>6. CASE Environment \/ UNCHANGED vars
  BY <1>6 DEF Environment, Tick, Revoke, Reauthorize, Reassign, vars
<1> QED BY <1>1, <1>2, <1>3, <1>4, <1>5, <1>6 DEF Next, Step

LEMMA BulkInvariant == Spec => [](IInv /\ BulkInv /\ LoopInv)
<1>1. Init => LoopInv
  BY DEF Init, LoopInv
<1>2. IInv /\ LoopInv /\ [Next]_vars => LoopInv'
  BY LoopStep DEF IInv
<1> QED BY <1>1, <1>2, BulkInit, BulkStep, Invariant, PTL DEF Spec

-----------------------------------------------------------------------------
(* The ends of a call.                                                     *)
LEMMA EndsOk ==
  ASSUME IInv, [Next]_vars, NEW t \in Tasks, Ends(t, "ok")
  PROVE  copy'[t] = row'[target[t]] /\ ~Expired(copy'[t])
<1>t. TypeOK
  BY DEF IInv
<1>1. pc[t] # "idle" /\ pc'[t] = "idle" /\ outcome'[t] = "ok"
  BY DEF Ends
<1>2. CASE Reuse(t)
  BY <1>2, <1>t DEF Reuse, EndWith, Renewed, table, TypeOK
<1>3. CASE Save(t)
  <2> DEFINE renewed == [owner |-> copy[t].owner, created |-> clock, grant |-> answer[t]]
  <2>1. /\ row' = [row EXCEPT ![target[t]] = renewed] /\ renewed.created = clock
        /\ Resume(t, "ok", renewed, {target[t]}, FALSE)
    BY <1>3 DEF Save
  <2> HIDE DEF renewed
  <2>2. copy'[t] = renewed /\ row'[target[t]] = renewed /\ clock \in Int
    BY <1>1, <1>t, <2>1 DEF Resume, EndWith, TypeOK
  <2> QED BY <2>1, <2>2 DEF Expired
<1>4. ASSUME NEW u \in Tasks, Begin(u) \/ Kill(u)
      PROVE  FALSE
  BY <1>1, <1>4, <1>t DEF Begin, LoadInstance, Observe, Kill, End, EndWith, TypeOK
<1>5. ASSUME NEW u \in Tasks, Reuse(u) \/ Save(u), u # t
      PROVE  FALSE
  <2>1. pc'[t] = pc[t]
    BY <1>5, <1>t DEF Reuse, Save, Resume, EndWith, TypeOK
  <2> QED BY <1>1, <2>1
<1>6. ASSUME NEW u \in Tasks,
             NoLongerOurs(u) \/ NotRefreshable(u) \/ LockToRefresh(u) \/ Finish(u) \/ Granted(u)
      PROVE  FALSE
  BY <1>1, <1>6, <1>t
     DEF NoLongerOurs, NotRefreshable, LockToRefresh, Finish, Granted, End, EndWith, TypeOK
<1>7. ASSUME NEW u \in Tasks, Refused(u) \/ Incomplete(u) \/ TransportError(u)
      PROVE  FALSE
  BY <1>1, <1>7, <1>t DEF Refused, Incomplete, TransportError, Resume, End, EndWith, TypeOK
<1>8. ASSUME NEW u \in Tasks, NEW k \in Tokens, NEW created \in 0..MaxClock,
             SkipRow(u, k, created) \/ AcceptRow(u, k, created)
             \/ DeleteExpiredRow(u, k, created) \/ LockRow(u, k, created)
      PROVE  FALSE
  BY <1>1, <1>8, <1>t DEF SkipRow, AcceptRow, DeleteExpiredRow, LockRow, TypeOK
<1>9. CASE Environment \/ UNCHANGED vars
  BY <1>1, <1>9 DEF Environment, Tick, Revoke, Reauthorize, Reassign, vars
<1> QED BY <1>2, <1>3, <1>4, <1>5, <1>6, <1>7, <1>8, <1>9 DEF Next, Step

LEMMA EndsEmpty ==
  ASSUME IInv, BulkInv, LoopInv, [Next]_vars, NEW t \in Tasks, Ends(t, "empty")
  PROVE  \A seen \in observed[t] : ~InQueryset(t, seen[1])
<1>t. TypeOK
  BY DEF IInv
<1>1. pc[t] # "idle" /\ pc'[t] = "idle" /\ outcome'[t] = "empty"
  BY DEF Ends
<1>2. CASE Finish(t)
  <2>1. /\ pc[t] = "loop" /\ \A seen \in observed[t] : seen[1] \in visited[t]
        /\ {k \in kept[t] : InQueryset(t, k)} = {} /\ ~incomplete[t]
    BY <1>1, <1>2, <1>t DEF Finish, End, EndWith, TypeOK
  <2>2. BulkOf(t) /\ ~Holding(t)
    BY <2>1 DEF BulkInv, LoopInv, Works, Holding
  <2> QED BY <2>1, <2>2 DEF BulkOf, Settled
<1>3. ASSUME NEW u \in Tasks, Begin(u) \/ Kill(u)
      PROVE  FALSE
  BY <1>1, <1>3, <1>t DEF Begin, LoadInstance, Observe, Kill, End, EndWith, TypeOK
<1>4. ASSUME NEW u \in Tasks, Finish(u), u # t
      PROVE  FALSE
  BY <1>1, <1>4, <1>t DEF Finish, End, EndWith, TypeOK
<1>5. ASSUME NEW u \in Tasks,
             NoLongerOurs(u) \/ NotRefreshable(u) \/ LockToRefresh(u) \/ Reuse(u) \/ Granted(u)
      PROVE  FALSE
  BY <1>1, <1>5, <1>t
     DEF NoLongerOurs, NotRefreshable, LockToRefresh, Reuse, Granted, End, EndWith, TypeOK
<1>6. ASSUME NEW u \in Tasks, Save(u) \/ Refused(u) \/ Incomplete(u) \/ TransportError(u)
      PROVE  FALSE
  BY <1>1, <1>6, <1>t DEF Save, Refused, Incomplete, TransportError, Resume, End, EndWith, TypeOK
<1>7. ASSUME NEW u \in Tasks, NEW k \in Tokens, NEW created \in 0..MaxClock,
             SkipRow(u, k, created) \/ AcceptRow(u, k, created)
             \/ DeleteExpiredRow(u, k, created) \/ LockRow(u, k, created)
      PROVE  FALSE
  BY <1>1, <1>7, <1>t DEF SkipRow, AcceptRow, DeleteExpiredRow, LockRow, TypeOK
<1>8. CASE Environment \/ UNCHANGED vars
  BY <1>1, <1>8 DEF Environment, Tick, Revoke, Reauthorize, Reassign, vars
<1> QED BY <1>2, <1>3, <1>4, <1>5, <1>6, <1>7, <1>8 DEF Next, Step

(* A step of a caller whose row is not its identity's changes nothing.     *)
LEMMA StaleStep ==
  ASSUME IInv, NEW t \in Tasks, pc[t] = "start", Step(t),
         row' # row \/ locks' # locks \/ outcome'[t] = "ok"
  PROVE  Present(target[t]) /\ row[target[t]].owner = copy[t].owner
<1>1. CASE NoLongerOurs(t)
  <2>1. row' = row /\ locks' = locks /\ outcome'[t] # "ok"
    BY <1>1 DEF NoLongerOurs, End, EndWith, table, IInv, TypeOK
  <2> QED BY <2>1
<1>2. CASE Reuse(t) \/ NotRefreshable(t) \/ LockToRefresh(t)
  BY <1>2 DEF Reuse, NotRefreshable, LockToRefresh, SameIdentity
<1>3. ASSUME NEW k \in Tokens, NEW created \in 0..MaxClock,
             SkipRow(t, k, created) \/ AcceptRow(t, k, created)
             \/ DeleteExpiredRow(t, k, created) \/ LockRow(t, k, created)
      PROVE  FALSE
  BY <1>3 DEF SkipRow, AcceptRow, DeleteExpiredRow, LockRow, Visit
<1> QED
  BY <1>1, <1>2, <1>3 DEF Step, Finish, Granted, Save, Refused, Incomplete, TransportError

(* What a call stores, deletes and returns is about the row as it is under *)
(* the lock and about the identity the caller loaded (token_refresh.py).   *)
THEOREM ActsOnTheRow == Spec => CallsActOnTheRow
<1> DEFINE Inv == IInv /\ BulkInv /\ LoopInv
<1>1. Inv /\ [Next]_vars => [\A k \in Tokens : ~Present(k) => row'[k] = Gone]_vars
  BY RowMoves DEF Moves, Present
<1>2. Inv /\ [Next]_vars =>
        [\A t \in Tasks : pc[t] = "start" =>
           LET k == target[t] IN
           /\ Step(t) /\ (row' # row \/ locks' # locks \/ outcome'[t] = "ok")
                 => Present(k) /\ row[k].owner = copy[t].owner]_vars
  BY StaleStep
<1>3. Inv /\ [Next]_vars =>
        [\A t \in Tasks : Ends(t, "ok") =>
            copy'[t] = row'[target[t]] /\ ~Expired(copy'[t])]_vars
  BY EndsOk
<1>4. Inv /\ [Next]_vars =>
        [\A t \in Tasks : Ends(t, "empty") =>
            \A seen \in observed[t] :
               ~(InQueryset(t, seen[1]) /\ row[seen[1]].grant \in live)]_vars
  BY EndsEmpty
<1>5. Spec => DeletedStaysDeleted
  BY <1>1, BulkInvariant, PTL DEF Spec, DeletedStaysDeleted
<1>6. Spec => StaleIdentityIsInert
  BY <1>2, BulkInvariant, PTL DEF Spec, StaleIdentityIsInert
<1>7. Spec => CallerShowsTheRow
  BY <1>3, BulkInvariant, PTL DEF Spec, CallerShowsTheRow
<1>8. Spec => EmptyMeansNothingLeft
  BY <1>4, BulkInvariant, PTL DEF Spec, EmptyMeansNothingLeft
<1> QED BY <1>5, <1>6, <1>7, <1>8 DEF CallsActOnTheRow
=============================================================================
