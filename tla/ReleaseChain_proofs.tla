-------------------------- MODULE ReleaseChain_proofs --------------------------
(***************************************************************************)
(* Proofs about ReleaseChain.  What a root must be like (Sound) depends on *)
(* nothing but its parent's being so: it is proved of the two ways to      *)
(* compose a root, then of the runs that write one.                        *)
(***************************************************************************)
EXTENDS ReleaseChain, SequenceTheorems, TLAPS

-----------------------------------------------------------------------------
(* Companies and their shards.                                             *)
LEMMA ShardFacts ==
  ASSUME NEW c \in Companies
  PROVE  /\ ShardOf(c) \in Shards
         /\ c \in ShardOf(c)
         /\ \A s \in Shards : c \in s => s = ShardOf(c)
<1>1. \E s \in Shards : c \in s
  BY ChainAssumption
<1>2. ShardOf(c) \in Shards /\ c \in ShardOf(c)
  BY <1>1 DEF ShardOf
<1>3. ASSUME NEW s \in Shards, c \in s PROVE s = ShardOf(c)
  BY <1>2, <1>3, ChainAssumption
<1> QED BY <1>2, <1>3

LEMMA PinnedIsCompany == Pinned \in Companies
BY ChainAssumption

LEMMA ShardIsOfCompanies ==
  ASSUME NEW s \in Shards, NEW c \in s
  PROVE  c \in Companies
BY ChainAssumption

-----------------------------------------------------------------------------
(* What holds of a root.  Registries: payloads are of the root's registry, *)
(* or of the one it was changed from; the pinned company is of the root's. *)
Registries(m) ==
  \A c \in Companies :
    LET payload == Item(m, c).payload IN
    /\ payload.release = m.release => payload.registry = m.registry
    /\ m.change = {} => payload.registry = m.registry
    /\ \A change \in m.change :
         /\ payload.registry \in {change.from, change.to}
         /\ c = Pinned => payload.registry = change.to
         /\ c = Pinned => payload.release # Materialization

Changes(m) ==
  /\ \A change \in m.change : change.to = m.registry /\ change.affected = {Pinned}
  /\ \A a, b \in m.change : a = b
  /\ m.change = {} => m.registry = 0

Lineage(m) ==
  /\ Len(m.release) >= 1
  /\ \A q \in m.sources : Len(q) <= Len(m.release)
  /\ \A i \in 1..Len(m.release) - 1 : SubSeq(m.release, 1, i) \in m.previous

Contents(m) ==
  \A c \in Companies :
    LET payload == Item(m, c).payload IN
    /\ payload.company = c
    /\ payload.release \in m.sources
    /\ payload.snapshot.restated = FALSE
    /\ m.screen.rows[c] = payload

Sound(m) == ManifestOK(m) /\ Lineage(m) /\ Contents(m) /\ Changes(m) /\ Registries(m)

LEMMA ItemType ==
  ASSUME NEW m, ManifestOK(m), NEW c \in Companies
  PROVE  Item(m, c) \in Items
<1>1. m.catalog[ShardOf(c)] \in ShardObjects(ShardOf(c))
  BY ShardFacts DEF ManifestOK
<1>2. m.catalog[ShardOf(c)].items \in [ShardOf(c) -> Items]
  BY <1>1 DEF ShardObjects
<1> QED BY <1>2, ShardFacts DEF Item

LEMMA PayloadType ==
  ASSUME NEW m, ManifestOK(m), NEW c \in Companies
  PROVE  /\ Item(m, c).payload \in Payloads
         /\ Item(m, c).payload.release \in Releases
         /\ Item(m, c).payload.registry \in Nat
         /\ Item(m, c).payload.snapshot \in Snapshot
<1>1. Item(m, c).payload \in Payloads
  BY ItemType DEF Items
<1> QED BY <1>1 DEF Payloads

-----------------------------------------------------------------------------
(* The universe publication.                                               *)
LEMMA ArchivedType == Archived \in Snapshot /\ Nothing \in CandidateType
BY ChainAssumption DEF Archived, Snapshot, Nothing, CandidateType

LEMMA UniverseType ==
  /\ Materialization \in Releases /\ Universe \in Releases
  /\ Len(Materialization) = 0 /\ Len(Universe) = 1
<1>1. [kind |-> "universe", candidate |-> Nothing, registry |-> 0] \in Change
  BY ArchivedType DEF Change
<1> QED BY <1>1 DEF Materialization, Universe, Releases

LEMMA ArchiveTypes ==
  /\ \A c \in Companies : ArchivePayload(c) \in Payloads
  /\ \A s \in Shards : ArchiveShard(s) \in ShardObjects(s)
<1>1. ASSUME NEW c \in Companies PROVE ArchivePayload(c) \in Payloads
  BY UniverseType, ArchivedType DEF ArchivePayload, Payloads
<1>2. NoCeiling \in Ceilings
  BY DEF NoCeiling, Ceilings
<1>3. ASSUME NEW s \in Shards PROVE ArchiveShard(s) \in ShardObjects(s)
  <2>1. \A c \in s : [payload |-> ArchivePayload(c), ceiling |-> NoCeiling] \in Items
    BY <1>1, <1>2, ShardIsOfCompanies DEF Items
  <2> QED BY <2>1, UniverseType DEF ArchiveShard, ShardObjects
<1> QED BY <1>1, <1>3

LEMMA UniverseItem ==
  ASSUME NEW c \in Companies
  PROVE  Item(UniverseRoot, c).payload = ArchivePayload(c)
BY ShardFacts DEF Item, UniverseRoot, ArchiveShard

LEMMA UniverseSound == Sound(UniverseRoot)
<1>1. UniverseRoot.screen \in Screens
  BY ArchiveTypes, UniverseType DEF UniverseRoot, Screens
<1>2. ManifestOK(UniverseRoot)
  BY <1>1, ArchiveTypes, UniverseType DEF UniverseRoot, ManifestOK
<1>3. Lineage(UniverseRoot)
  <2>1. /\ UniverseRoot.release = Universe /\ UniverseRoot.sources = {Materialization}
    BY DEF UniverseRoot
  <2>2. 1..Len(Universe) - 1 = {}
    BY UniverseType
  <2> QED BY <2>1, <2>2, UniverseType DEF Lineage
<1>4. Contents(UniverseRoot)
  <2>1. ASSUME NEW c \in Companies
        PROVE  /\ Item(UniverseRoot, c).payload.company = c
               /\ Item(UniverseRoot, c).payload.release \in UniverseRoot.sources
               /\ Item(UniverseRoot, c).payload.snapshot.restated = FALSE
               /\ UniverseRoot.screen.rows[c] = Item(UniverseRoot, c).payload
    <3>1. UniverseRoot.sources = {Materialization} /\ UniverseRoot.screen.rows[c] = ArchivePayload(c)
      BY DEF UniverseRoot
    <3> QED BY <3>1, UniverseItem DEF ArchivePayload, Archived
  <2> QED BY <2>1 DEF Contents
<1>5. Changes(UniverseRoot)
  BY DEF Changes, UniverseRoot
<1>6. Registries(UniverseRoot)
  <2> SUFFICES ASSUME NEW c \in Companies
               PROVE  ArchivePayload(c).registry = UniverseRoot.registry /\ UniverseRoot.change = {}
    BY UniverseItem DEF Registries
  <2> QED BY DEF ArchivePayload, UniverseRoot
<1> QED BY <1>2, <1>3, <1>4, <1>5, <1>6 DEF Sound

-----------------------------------------------------------------------------
(* A path grows by one change.                                             *)
LEMMA Extends ==
  ASSUME NEW r \in Releases, NEW x \in Change
  PROVE  /\ Append(r, x) \in Releases
         /\ Len(Append(r, x)) = Len(r) + 1
         /\ \A i \in 1..Len(r) : SubSeq(Append(r, x), 1, i) = SubSeq(r, 1, i)
         /\ SubSeq(r, 1, Len(r)) = r
<1>1. Append(r, x) \in Releases /\ Len(Append(r, x)) = Len(r) + 1
  BY DEF Releases
<1>2. ASSUME NEW i \in 1..Len(r) PROVE SubSeq(Append(r, x), 1, i) = SubSeq(r, 1, i)
  <2>1. SubSeq(Append(r, x), 1, i) \in Seq(Change) /\ SubSeq(r, 1, i) \in Seq(Change)
    BY DEF Releases
  <2>2. Len(SubSeq(Append(r, x), 1, i)) = i /\ Len(SubSeq(r, 1, i)) = i
    BY DEF Releases
  <2>3. \A j \in 1..i : SubSeq(Append(r, x), 1, i)[j] = SubSeq(r, 1, i)[j]
    BY DEF Releases
  <2> QED BY <2>1, <2>2, <2>3, SeqEqual
<1>3. SubSeq(r, 1, Len(r)) = r
  BY SubSeqFull DEF Releases
<1> QED BY <1>1, <1>2, <1>3

LEMMA LineageGrows ==
  ASSUME NEW m, NEW n, NEW x \in Change,
         m.release \in Releases, m.sources \subseteq Releases, Lineage(m),
         n.release = Append(m.release, x),
         n.sources = m.sources \cup {n.release},
         m.previous \cup {m.release} \subseteq n.previous
  PROVE  Lineage(n)
<1>1. Len(n.release) = Len(m.release) + 1 /\ Len(m.release) \in Nat
  BY Extends DEF Releases
<1>2. Len(n.release) >= 1
  BY <1>1
<1>3. ASSUME NEW q \in n.sources PROVE Len(q) <= Len(n.release)
  <2>1. CASE q = n.release
    BY <2>1, <1>1
  <2>2. CASE q \in m.sources
    <3>1. Len(q) <= Len(m.release) /\ Len(q) \in Nat
      BY <2>2 DEF Lineage, Releases
    <3> QED BY <3>1, <1>1
  <2> QED BY <2>1, <2>2
<1>4. ASSUME NEW i \in 1..Len(n.release) - 1 PROVE SubSeq(n.release, 1, i) \in n.previous
  <2>1. i \in 1..Len(m.release)
    BY <1>1
  <2>2. SubSeq(n.release, 1, i) = SubSeq(m.release, 1, i)
    BY <2>1, Extends
  <2>3. CASE i = Len(m.release)
    BY <2>2, <2>3, Extends
  <2>4. CASE i # Len(m.release)
    <3>1. i \in 1..Len(m.release) - 1
      BY <2>1, <2>4, <1>1
    <3> QED BY <3>1, <2>2 DEF Lineage
  <2> QED BY <2>3, <2>4
<1> QED BY <1>2, <1>3, <1>4 DEF Lineage

-----------------------------------------------------------------------------
(* The root an update composes.                                            *)
LEMMA UpdateTypes ==
  ASSUME NEW root, Sound(root), NEW k \in CandidateType
  PROVE  /\ ReleaseOf(root, k) \in Releases
         /\ Len(ReleaseOf(root, k)) = Len(root.release) + 1
         /\ \A c \in Companies : Rebuilt(root, k, c) \in Payloads
         /\ \A c \in Companies : UpdatedItem(root, k, c) \in Items
         /\ \A s \in Shards : UpdatedShard(root, k, s) \in ShardObjects(s)
         /\ UpdatedScreen(root, k) \in Screens
<1>1. ManifestOK(root) /\ root.release \in Releases /\ root.registry \in Nat
  BY DEF Sound, ManifestOK
<1>2. [kind |-> "update", candidate |-> k, registry |-> root.registry] \in Change
  BY <1>1 DEF Change
<1>3. ReleaseOf(root, k) \in Releases /\ Len(ReleaseOf(root, k)) = Len(root.release) + 1
  BY <1>1, <1>2, Extends DEF ReleaseOf
<1>4. ASSUME NEW c \in Companies PROVE Rebuilt(root, k, c) \in Payloads
  <2>1. k.snapshots[c] \in Snapshot
    BY DEF CandidateType
  <2> QED BY <2>1, <1>1, <1>3 DEF Rebuilt, Payloads
<1>5. ASSUME NEW c \in Companies PROVE UpdatedItem(root, k, c) \in Items
  <2>1. k.snapshots[c].filed \in Nat
    BY DEF CandidateType, Snapshot
  <2>2. [own |-> TRUE, filed |-> k.snapshots[c].filed] \in Ceilings
    BY <2>1 DEF Ceilings
  <2> QED BY <2>2, <1>4 DEF UpdatedItem, Items
<1>6. ASSUME NEW s \in Shards PROVE UpdatedShard(root, k, s) \in ShardObjects(s)
  <2>1. root.catalog[s].items \in [s -> Items]
    BY <1>1 DEF ManifestOK, ShardObjects
  <2>2. \A c \in s : (IF c \in k.companies THEN UpdatedItem(root, k, c)
                      ELSE root.catalog[s].items[c]) \in Items
    BY <2>1, <1>5, ShardIsOfCompanies
  <2> QED BY <2>2, <1>3 DEF UpdatedShard, ShardObjects
<1>7. UpdatedScreen(root, k) \in Screens
  <2>1. root.screen.rows \in [Companies -> Payloads]
    BY <1>1 DEF ManifestOK, Screens
  <2> QED BY <2>1, <1>1, <1>3, <1>4 DEF UpdatedScreen, Screens
<1> QED BY <1>3, <1>4, <1>5, <1>6, <1>7

LEMMA UpdatedPayload ==
  ASSUME NEW root, NEW k, NEW previous, NEW c \in Companies
  PROVE  Item(UpdatedRoot(root, previous, k), c) =
           IF c \in k.companies THEN UpdatedItem(root, k, c) ELSE Item(root, c)
<1> DEFINE s == ShardOf(c)
<1>1. s \in Shards /\ c \in s
  BY ShardFacts
<1>2. Item(UpdatedRoot(root, previous, k), c) =
        (IF s \in ChangedShards(k) THEN UpdatedShard(root, k, s) ELSE root.catalog[s]).items[c]
  BY <1>1 DEF Item, UpdatedRoot
<1>3. CASE s \in ChangedShards(k)
  BY <1>1, <1>2, <1>3 DEF UpdatedShard, Item
<1>4. CASE s \notin ChangedShards(k)
  <2>1. c \notin k.companies
    BY <1>1, <1>4 DEF ChangedShards
  <2> QED BY <2>1, <1>2, <1>4 DEF Item
<1> QED BY <1>3, <1>4

LEMMA UpdatedFields ==
  ASSUME NEW root, NEW k, NEW previous
  PROVE  LET new == UpdatedRoot(root, previous, k) IN
         /\ new.release = ReleaseOf(root, k) /\ new.registry = root.registry
         /\ new.sources = root.sources \cup {ReleaseOf(root, k)}
         /\ new.previous = previous /\ new.change = root.change
         /\ new.screen = UpdatedScreen(root, k)
         /\ DOMAIN new.catalog = Shards
         /\ \A s \in Shards : new.catalog[s] =
              IF s \in ChangedShards(k) THEN UpdatedShard(root, k, s) ELSE root.catalog[s]
BY DEF UpdatedRoot, SourcesOf, ChangeOf

LEMMA UpdateSound ==
  ASSUME NEW root, Sound(root), NEW k \in CandidateType, Admitted(root, k),
         NEW previous \in SUBSET Releases,
         root.previous \cup {root.release} \subseteq previous
  PROVE  Sound(UpdatedRoot(root, previous, k))
<1> DEFINE new == UpdatedRoot(root, previous, k)
<1>1. ManifestOK(root) /\ Lineage(root) /\ Contents(root) /\ Changes(root) /\ Registries(root)
  BY DEF Sound
<1>2. /\ new.release = ReleaseOf(root, k) /\ new.registry = root.registry
      /\ new.sources = root.sources \cup {ReleaseOf(root, k)}
      /\ new.previous = previous /\ new.change = root.change
      /\ new.screen = UpdatedScreen(root, k)
      /\ DOMAIN new.catalog = Shards
      /\ \A s \in Shards : new.catalog[s] =
           IF s \in ChangedShards(k) THEN UpdatedShard(root, k, s) ELSE root.catalog[s]
  BY UpdatedFields
<1>3. \A c \in Companies : Item(new, c).payload =
        IF c \in k.companies THEN Rebuilt(root, k, c) ELSE Item(root, c).payload
  BY UpdatedPayload DEF UpdatedItem
<1> HIDE DEF new
<1>4. ManifestOK(new)
  BY <1>1, <1>2, UpdateTypes DEF ManifestOK
<1>5. Lineage(new)
  <2>1. [kind |-> "update", candidate |-> k, registry |-> root.registry] \in Change
    BY <1>1 DEF Change, ManifestOK
  <2> QED BY <2>1, <1>1, <1>2, LineageGrows DEF ManifestOK, ReleaseOf
<1>6. Contents(new)
  <2>1. ASSUME NEW c \in Companies
        PROVE  /\ Item(new, c).payload.company = c
               /\ Item(new, c).payload.release \in new.sources
               /\ Item(new, c).payload.snapshot.restated = FALSE
               /\ new.screen.rows[c] = Item(new, c).payload
    <3>1. CASE c \in k.companies
      <4>1. k.snapshots[c].restated = FALSE
        <5>1. ArchiveHistory(Rebuilt(root, k, c)) = ArchiveHistory(Item(root, c).payload)
          BY <3>1 DEF Admitted
        <5>2. Item(root, c).payload.snapshot.restated = FALSE
          BY <1>1 DEF Contents
        <5> QED BY <5>1, <5>2 DEF ArchiveHistory, Rebuilt
      <4>2. new.screen.rows[c] = Rebuilt(root, k, c)
        BY <3>1, <1>2 DEF UpdatedScreen
      <4> QED BY <4>1, <4>2, <3>1, <1>2, <1>3 DEF Rebuilt
    <3>2. CASE c \notin k.companies
      <4>1. new.screen.rows[c] = root.screen.rows[c]
        BY <3>2, <1>2 DEF UpdatedScreen
      <4> QED BY <4>1, <3>2, <1>1, <1>2, <1>3 DEF Contents
    <3> QED BY <3>1, <3>2
  <2> QED BY <2>1 DEF Contents
<1>7. Changes(new)
  BY <1>1, <1>2 DEF Changes
<1>8. Registries(new)
  <2>1. ASSUME NEW c \in Companies
        PROVE  LET payload == Item(new, c).payload IN
               /\ payload.release = new.release => payload.registry = new.registry
               /\ new.change = {} => payload.registry = new.registry
               /\ \A change \in new.change :
                    /\ payload.registry \in {change.from, change.to}
                    /\ c = Pinned => payload.registry = change.to
                    /\ c = Pinned => payload.release # Materialization
    <3>1. CASE c \in k.companies
      <4>0. Item(new, c).payload = Rebuilt(root, k, c)
        BY <3>1, <1>3
      <4>1. /\ Item(new, c).payload.registry = root.registry
            /\ Item(new, c).payload.release = ReleaseOf(root, k)
        BY <4>0 DEF Rebuilt
      <4>2. ReleaseOf(root, k) # Materialization
        <5>1. Len(ReleaseOf(root, k)) = Len(root.release) + 1 /\ Len(root.release) >= 1
          BY <1>1, UpdateTypes DEF Lineage
        <5>2. Len(root.release) \in Nat
          BY <1>1 DEF ManifestOK, Releases
        <5> QED BY <5>1, <5>2, UniverseType
      <4>3. \A change \in root.change : change.to = root.registry
        BY <1>1 DEF Changes
      <4> QED BY <4>1, <4>2, <4>3, <1>2
    <3>2. CASE c \notin k.companies
      <4>1. Item(new, c).payload = Item(root, c).payload
        BY <3>2, <1>3
      <4>2. Item(root, c).payload.release # new.release
        <5>1. Len(Item(root, c).payload.release) <= Len(root.release)
          BY <1>1 DEF Contents, Lineage
        <5>2. Len(new.release) = Len(root.release) + 1
          BY <1>2, UpdateTypes
        <5>3. Len(Item(root, c).payload.release) \in Nat /\ Len(root.release) \in Nat
          BY <1>1, PayloadType DEF ManifestOK, Releases
        <5> QED BY <5>1, <5>2, <5>3
      <4> QED BY <4>1, <4>2, <1>1, <1>2 DEF Registries
    <3> QED BY <3>1, <3>2
  <2> QED BY <2>1 DEF Registries
<1> QED BY <1>4, <1>5, <1>6, <1>7, <1>8 DEF Sound, new
-----------------------------------------------------------------------------
(* The root an override composes.                                          *)
LEMMA OverrideTypes ==
  ASSUME NEW root, Sound(root), NEW registry \in Nat
  PROVE  /\ OverrideRelease(root, registry) \in Releases
         /\ Len(OverrideRelease(root, registry)) = Len(root.release) + 1
         /\ PinnedPayload(root, registry) \in Payloads
         /\ PinnedShard(root, registry) \in ShardObjects(ShardOf(Pinned))
         /\ PinnedScreen(root, registry) \in Screens
<1>1. ManifestOK(root) /\ root.release \in Releases
  BY DEF Sound, ManifestOK
<1>2. [kind |-> "override", candidate |-> Nothing, registry |-> registry] \in Change
  BY ArchivedType DEF Change
<1>3. /\ OverrideRelease(root, registry) \in Releases
      /\ Len(OverrideRelease(root, registry)) = Len(root.release) + 1
  BY <1>1, <1>2, Extends DEF OverrideRelease
<1>4. PinnedPayload(root, registry) \in Payloads
  BY <1>1, <1>3, PayloadType, PinnedIsCompany DEF PinnedPayload, Payloads
<1>5. PinnedShard(root, registry) \in ShardObjects(ShardOf(Pinned))
  <2> DEFINE s == ShardOf(Pinned)
  <2>1. s \in Shards /\ Pinned \in s
    BY ShardFacts, PinnedIsCompany
  <2>2. root.catalog[s].items \in [s -> Items]
    BY <1>1, <2>1 DEF ManifestOK, ShardObjects
  <2>3. [payload |-> PinnedPayload(root, registry),
         ceiling |-> root.catalog[s].items[Pinned].ceiling] \in Items
    BY <2>1, <2>2, <1>4 DEF Items
  <2>4. [root.catalog[s].items EXCEPT
           ![Pinned] = [payload |-> PinnedPayload(root, registry), ceiling |-> @.ceiling]]
          \in [s -> Items]
    BY <2>1, <2>2, <2>3
  <2> QED BY <2>4, <1>3 DEF PinnedShard, ShardObjects
<1>6. PinnedScreen(root, registry) \in Screens
  <2>1. root.screen.rows \in [Companies -> Payloads]
    BY <1>1 DEF ManifestOK, Screens
  <2> QED BY <2>1, <1>3, <1>4 DEF PinnedScreen, Screens
<1> QED BY <1>3, <1>4, <1>5, <1>6

LEMMA OverriddenFields ==
  ASSUME NEW root, ManifestOK(root), NEW registry
  PROVE  LET new == OverriddenRoot(root, registry) IN
         /\ new.release = OverrideRelease(root, registry) /\ new.registry = registry
         /\ new.sources = root.sources \cup {OverrideRelease(root, registry)}
         /\ new.previous = root.previous \cup {root.release}
         /\ new.change = {[affected |-> {Pinned}, from |-> root.registry, to |-> registry]}
         /\ new.screen = PinnedScreen(root, registry)
         /\ new.catalog = [root.catalog EXCEPT ![ShardOf(Pinned)] = PinnedShard(root, registry)]
BY DEF OverriddenRoot

LEMMA OverriddenItem ==
  ASSUME NEW root, ManifestOK(root), NEW registry, NEW c \in Companies
  PROVE  Item(OverriddenRoot(root, registry), c).payload =
           IF c = Pinned THEN PinnedPayload(root, registry) ELSE Item(root, c).payload
<1> DEFINE new == OverriddenRoot(root, registry)
<1> DEFINE p == ShardOf(Pinned)
<1>1. ShardOf(c) \in Shards /\ c \in ShardOf(c) /\ p \in Shards /\ Pinned \in p
  BY ShardFacts, PinnedIsCompany
<1>2. /\ DOMAIN root.catalog = Shards
      /\ root.catalog[p].items \in [p -> Items]
  BY <1>1 DEF ManifestOK, ShardObjects
<1>3. new.catalog = [root.catalog EXCEPT ![p] = PinnedShard(root, registry)]
  BY OverriddenFields
<1>4. PinnedShard(root, registry).items =
        [root.catalog[p].items EXCEPT
           ![Pinned] = [payload |-> PinnedPayload(root, registry), ceiling |-> @.ceiling]]
  BY DEF PinnedShard
<1> HIDE DEF new
<1>5. CASE c = Pinned
  <2>1. new.catalog[p] = PinnedShard(root, registry)
    BY <1>1, <1>2, <1>3
  <2>2. PinnedShard(root, registry).items[Pinned].payload = PinnedPayload(root, registry)
    BY <1>1, <1>2, <1>4
  <2> QED BY <2>1, <2>2, <1>5 DEF Item, new
<1>6. CASE c # Pinned /\ ShardOf(c) = p
  <2>1. new.catalog[p] = PinnedShard(root, registry)
    BY <1>1, <1>2, <1>3
  <2>2. PinnedShard(root, registry).items[c] = root.catalog[p].items[c]
    BY <1>1, <1>2, <1>4, <1>6
  <2> QED BY <2>1, <2>2, <1>6 DEF Item, new
<1>7. CASE c # Pinned /\ ShardOf(c) # p
  <2>1. new.catalog[ShardOf(c)] = root.catalog[ShardOf(c)]
    BY <1>1, <1>2, <1>3, <1>7
  <2> QED BY <2>1, <1>7 DEF Item, new
<1> QED BY <1>5, <1>6, <1>7

LEMMA OverrideSound ==
  ASSUME NEW root, Sound(root), NEW registry \in Nat, registry # root.registry,
         Item(root, Pinned).payload.release = Materialization
  PROVE  Sound(OverriddenRoot(root, registry))
<1> DEFINE new == OverriddenRoot(root, registry)
<1>1. ManifestOK(root) /\ Lineage(root) /\ Contents(root) /\ Changes(root) /\ Registries(root)
  BY DEF Sound
<1>2. /\ new.release = OverrideRelease(root, registry) /\ new.registry = registry
      /\ new.sources = root.sources \cup {OverrideRelease(root, registry)}
      /\ new.previous = root.previous \cup {root.release}
      /\ new.change = {[affected |-> {Pinned}, from |-> root.registry, to |-> registry]}
      /\ new.screen = PinnedScreen(root, registry)
      /\ new.catalog = [root.catalog EXCEPT ![ShardOf(Pinned)] = PinnedShard(root, registry)]
  BY <1>1, OverriddenFields
<1>3. \A c \in Companies : Item(new, c).payload =
        IF c = Pinned THEN PinnedPayload(root, registry) ELSE Item(root, c).payload
  BY <1>1, OverriddenItem
<1> HIDE DEF new
<1>4. root.change = {}
  BY <1>1, PinnedIsCompany DEF Registries
<1>5. /\ PinnedPayload(root, registry).release = OverrideRelease(root, registry)
      /\ PinnedPayload(root, registry).registry = registry
      /\ PinnedPayload(root, registry).company = Pinned
      /\ PinnedPayload(root, registry).snapshot = Item(root, Pinned).payload.snapshot
  BY DEF PinnedPayload
<1>6. ManifestOK(new)
  <2>1. ShardOf(Pinned) \in Shards
    BY ShardFacts, PinnedIsCompany
  <2>2. DOMAIN new.catalog = Shards /\ \A s \in Shards : new.catalog[s] \in ShardObjects(s)
    BY <1>1, <1>2, <2>1, OverrideTypes DEF ManifestOK
  <2>3. new.change \subseteq RegistryChanges
    BY <1>1, <1>2, PinnedIsCompany DEF ManifestOK, RegistryChanges
  <2> QED BY <1>1, <1>2, <2>2, <2>3, OverrideTypes DEF ManifestOK
<1>7. Lineage(new)
  <2>1. [kind |-> "override", candidate |-> Nothing, registry |-> registry] \in Change
    BY ArchivedType DEF Change
  <2>2. root.release \in Releases /\ root.sources \subseteq Releases
    BY <1>1 DEF ManifestOK
  <2>3. /\ new.release = Append(root.release,
              [kind |-> "override", candidate |-> Nothing, registry |-> registry])
        /\ new.sources = root.sources \cup {new.release}
        /\ root.previous \cup {root.release} \subseteq new.previous
    BY <1>2 DEF OverrideRelease
  <2> QED BY <2>1, <2>2, <2>3, <1>1, LineageGrows
<1>8. Contents(new)
  <2>1. ASSUME NEW c \in Companies
        PROVE  /\ Item(new, c).payload.company = c
               /\ Item(new, c).payload.release \in new.sources
               /\ Item(new, c).payload.snapshot.restated = FALSE
               /\ new.screen.rows[c] = Item(new, c).payload
    <3>1. root.screen.rows \in [Companies -> Payloads]
      BY <1>1 DEF ManifestOK, Screens
    <3>2. new.screen.rows = [root.screen.rows EXCEPT ![Pinned] = PinnedPayload(root, registry)]
      BY <1>2 DEF PinnedScreen
    <3>3. new.screen.rows[c] = IF c = Pinned THEN PinnedPayload(root, registry)
                               ELSE root.screen.rows[c]
      BY <3>1, <3>2
    <3>4. CASE c = Pinned
      <4>1. Item(new, c).payload = PinnedPayload(root, registry)
        BY <3>4, <1>3
      <4>2. Item(root, Pinned).payload.snapshot.restated = FALSE
        BY <1>1, PinnedIsCompany DEF Contents
      <4> QED BY <4>1, <4>2, <3>3, <3>4, <1>2, <1>5
    <3>5. CASE c # Pinned
      <4>1. Item(new, c).payload = Item(root, c).payload
        BY <3>5, <1>3
      <4> QED BY <4>1, <3>3, <3>5, <1>1, <1>2 DEF Contents
    <3> QED BY <3>4, <3>5
  <2> QED BY <2>1 DEF Contents
<1>9. Changes(new)
  <2>1. new.change # {} BY <1>2
  <2>2. \A change \in new.change : change.to = new.registry /\ change.affected = {Pinned}
    BY <1>2
  <2>3. \A a, b \in new.change : a = b
    BY <1>2
  <2> QED BY <2>1, <2>2, <2>3 DEF Changes
<1>10. Registries(new)
  <2> DEFINE change == [affected |-> {Pinned}, from |-> root.registry, to |-> registry]
  <2>1. ASSUME NEW c \in Companies
        PROVE  LET payload == Item(new, c).payload IN
               /\ payload.release = new.release => payload.registry = registry
               /\ payload.registry \in {root.registry, registry}
               /\ c = Pinned => payload.registry = registry
               /\ c = Pinned => payload.release # Materialization
    <3>1. /\ Len(new.release) = Len(root.release) + 1
          /\ Len(root.release) >= 1 /\ Len(root.release) \in Nat
      BY <1>1, <1>2, OverrideTypes DEF Lineage, ManifestOK, Releases
    <3>2. CASE c = Pinned
      <4>1. Item(new, c).payload = PinnedPayload(root, registry)
        BY <3>2, <1>3
      <4>2. new.release # Materialization
        BY <3>1, UniverseType
      <4> QED BY <4>1, <4>2, <1>2, <1>5
    <3>3. CASE c # Pinned
      <4>1. Item(new, c).payload = Item(root, c).payload
        BY <3>3, <1>3
      <4>2. Item(root, c).payload.release # new.release
        <5>1. Len(Item(root, c).payload.release) <= Len(root.release)
          BY <1>1 DEF Contents, Lineage
        <5>2. Len(Item(root, c).payload.release) \in Nat
          BY <1>1, PayloadType DEF Releases
        <5> QED BY <5>1, <5>2, <3>1
      <4>3. Item(root, c).payload.registry = root.registry
        BY <1>1, <1>4 DEF Registries
      <4> QED BY <4>1, <4>2, <4>3, <3>3
    <3> QED BY <3>2, <3>3
  <2>2. new.change = {change} /\ change.from = root.registry /\ change.to = registry
    BY <1>2
  <2> HIDE DEF change
  <2> QED BY <2>1, <2>2, <1>2 DEF Registries
<1> QED BY <1>6, <1>7, <1>8, <1>9, <1>10 DEF Sound, new

-----------------------------------------------------------------------------
(* The bucket and the runs.  A root is whole, and the releases it resolves *)
(* are published; a run has written what it has moved past.                *)
Whole(m) ==
  /\ \A s \in Shards : m.catalog[s] \in catalogs
  /\ \A c \in Companies : Item(m, c).payload \in payloads
  /\ m.screen \in screens

Published(q) == \E m \in manifests : m.release = q

StoreInv ==
  /\ \A m \in manifests : Sound(m) /\ Whole(m) /\ \A q \in m.previous : Published(q)
  /\ receipts \subseteq manifests
  /\ UniverseRoot \in manifests

Composed(run) == UpdatedRoot(run.root, run.previous, run.candidate)

RunOK(run) ==
  /\ Admitted(run.root, run.candidate)
  /\ run.root.previous \cup {run.root.release} \subseteq run.previous
  /\ \A q \in run.previous : Published(q)
  /\ \A c \in run.candidate.companies \ run.companies :
       Rebuilt(run.root, run.candidate, c) \in payloads
  /\ \A s \in ChangedShards(run.candidate) \ run.shards :
       UpdatedShard(run.root, run.candidate, s) \in catalogs
  /\ run.phase # "companies" => run.companies = {}
  /\ run.phase \notin {"companies", "catalog"} => run.shards = {}
  /\ run.phase \in {"manifest", "receipt"} =>
       UpdatedScreen(run.root, run.candidate) \in screens
  /\ run.phase = "receipt" => Composed(run) \in manifests

RunInv == \A r \in Runs : runs[r].phase \notin Ended => RunOK(runs[r])

Inv == TypeOK /\ StoreInv /\ RunInv

Grows ==
  /\ payloads \subseteq payloads' /\ catalogs \subseteq catalogs'
  /\ screens \subseteq screens' /\ manifests \subseteq manifests'
  /\ receipts \subseteq receipts'

LEMMA WholeStays ==
  ASSUME Grows, NEW m, Whole(m)
  PROVE  Whole(m)'
BY DEF Grows, Whole

LEMMA PublishedStays ==
  ASSUME Grows, NEW q, Published(q)
  PROVE  Published(q)'
BY DEF Grows, Published

LEMMA RunStays ==
  ASSUME Grows, NEW run, RunOK(run)
  PROVE  RunOK(run)'
<1>1. /\ Admitted(run.root, run.candidate)
      /\ run.root.previous \cup {run.root.release} \subseteq run.previous
      /\ run.phase # "companies" => run.companies = {}
      /\ run.phase \notin {"companies", "catalog"} => run.shards = {}
  BY DEF RunOK
<1>2. \A q \in run.previous : Published(q)'
  BY PublishedStays DEF RunOK
<1>3. /\ \A c \in run.candidate.companies \ run.companies :
           Rebuilt(run.root, run.candidate, c) \in payloads'
      /\ \A s \in ChangedShards(run.candidate) \ run.shards :
           UpdatedShard(run.root, run.candidate, s) \in catalogs'
      /\ run.phase \in {"manifest", "receipt"} =>
           UpdatedScreen(run.root, run.candidate) \in screens'
      /\ run.phase = "receipt" => Composed(run) \in manifests'
  BY DEF RunOK, Grows
<1> QED BY <1>1, <1>2, <1>3 DEF RunOK

\* The root of a run that has pinned everything but the manifest.
LEMMA ComposedWhole ==
  ASSUME NEW run, RunOK(run), run.phase = "manifest", Whole(run.root)
  PROVE  Whole(Composed(run))
<1> DEFINE root == run.root
<1> DEFINE k == run.candidate
<1>1. run.companies = {} /\ run.shards = {}
  BY DEF RunOK
<1>2. ASSUME NEW s \in Shards PROVE Composed(run).catalog[s] \in catalogs
  <2>1. Composed(run).catalog[s] =
          IF s \in ChangedShards(k) THEN UpdatedShard(root, k, s) ELSE root.catalog[s]
    BY UpdatedFields DEF Composed
  <2> QED BY <2>1, <1>1 DEF RunOK, Whole
<1>3. ASSUME NEW c \in Companies PROVE Item(Composed(run), c).payload \in payloads
  <2>1. Item(Composed(run), c) = IF c \in k.companies THEN UpdatedItem(root, k, c)
                                 ELSE Item(root, c)
    BY UpdatedPayload DEF Composed
  <2>2. CASE c \in k.companies
    <3>1. Item(Composed(run), c).payload = Rebuilt(root, k, c)
      BY <2>1, <2>2 DEF UpdatedItem
    <3> QED BY <3>1, <2>2, <1>1 DEF RunOK
  <2>3. CASE c \notin k.companies
    BY <2>1, <2>3 DEF Whole
  <2> QED BY <2>2, <2>3
<1>4. Composed(run).screen \in screens
  <2>1. Composed(run).screen = UpdatedScreen(root, k)
    BY UpdatedFields DEF Composed
  <2> QED BY <2>1 DEF RunOK
<1> QED BY <1>2, <1>3, <1>4 DEF Whole

\* Shards are disjoint, so every shard of the override's root is one of the
\* deployed root's or the pinned company's.
LEMMA OverriddenWhole ==
  ASSUME NEW root, ManifestOK(root), NEW registry, Whole(root)', Grows,
         Item(OverriddenRoot(root, registry), Pinned).payload \in payloads',
         OverriddenRoot(root, registry).catalog[ShardOf(Pinned)] \in catalogs',
         OverriddenRoot(root, registry).screen \in screens'
  PROVE  Whole(OverriddenRoot(root, registry))'
<1> DEFINE new == OverriddenRoot(root, registry)
<1>1. new.catalog = [root.catalog EXCEPT ![ShardOf(Pinned)] = PinnedShard(root, registry)]
  BY OverriddenFields
<1>2. DOMAIN root.catalog = Shards
  BY DEF ManifestOK
<1>3. \A c \in Companies : Item(new, c).payload =
        IF c = Pinned THEN PinnedPayload(root, registry) ELSE Item(root, c).payload
  BY OverriddenItem
<1> HIDE DEF new
<1>4. \A s \in Shards : new.catalog[s] \in catalogs'
  <2>1. \A s \in Shards : s # ShardOf(Pinned) => new.catalog[s] = root.catalog[s]
    BY <1>1, <1>2
  <2> QED BY <2>1 DEF Whole, new
<1>5. \A c \in Companies : Item(new, c).payload \in payloads'
  <2>1. \A c \in Companies : c # Pinned => Item(new, c).payload = Item(root, c).payload
    BY <1>3
  <2>2. \A c \in Companies : Item(root, c).payload \in payloads'
    BY DEF Whole
  <2> QED BY <2>1, <2>2 DEF new
<1>6. new.screen \in screens'
  BY DEF new
<1> QED BY <1>4, <1>5, <1>6 DEF Whole, new

-----------------------------------------------------------------------------
(* A step of one run.                                                      *)
LEMMA RunFacts ==
  ASSUME Inv, NEW r \in Runs
  PROVE  /\ runs[r] \in RunRecords
         /\ runs[r].phase \in Phases /\ runs[r].root \in manifests
         /\ runs[r].previous \in SUBSET Releases
         /\ runs[r].candidate \in CandidateType
         /\ runs[r].companies \in SUBSET Companies /\ runs[r].shards \in SUBSET Shards
         /\ runs[r].creates \in Nat
         /\ Sound(runs[r].root) /\ Whole(runs[r].root)
         /\ runs[r].phase \notin Ended => RunOK(runs[r])
<1>1. runs[r] \in RunRecords
  BY DEF Inv, TypeOK
<1>2. /\ runs[r].phase \in Phases /\ runs[r].root \in manifests
      /\ runs[r].previous \in SUBSET Releases
      /\ runs[r].candidate \in CandidateType
      /\ runs[r].companies \in SUBSET Companies /\ runs[r].shards \in SUBSET Shards
      /\ runs[r].creates \in Nat
  BY <1>1 DEF RunRecords
<1> QED BY <1>1, <1>2 DEF Inv, StoreInv, RunInv

LEMMA RecordsGrow ==
  ASSUME Grows
  PROVE  RunRecords \subseteq RunRecords'
BY DEF Grows, RunRecords

LEMMA StoreTyped ==
  ASSUME StoreInv
  PROVE  \A m \in manifests : ManifestOK(m)
BY DEF StoreInv, Sound

LEMMA StoreStays ==
  ASSUME StoreInv, Grows, manifests' = manifests, receipts' = receipts
  PROVE  StoreInv'
<1>1. ASSUME NEW m \in manifests
      PROVE  Sound(m) /\ Whole(m)' /\ \A q \in m.previous : Published(q)'
  BY WholeStays, PublishedStays DEF StoreInv
<1> QED BY <1>1 DEF StoreInv

\* Everything in the bucket has its type.
Typed ==
  /\ code \in Nat /\ starts \in Nat
  /\ payloads \subseteq Payloads
  /\ \A object \in catalogs : \E s \in Shards : object \in ShardObjects(s)
  /\ screens \subseteq Screens

LEMMA OneRunMoves ==
  ASSUME Inv, Grows, StoreInv', Typed', NEW r \in Runs, NEW new,
         runs' = [runs EXCEPT ![r] = new], new \in RunRecords',
         new.phase \notin Ended => RunOK(new)'
  PROVE  Inv'
<1>1. runs \in [Runs -> RunRecords]
  BY DEF Inv, TypeOK
<1>2. runs' \in [Runs -> RunRecords']
  BY <1>1, RecordsGrow
<1>3. (\A m \in manifests : ManifestOK(m))'
  BY StoreTyped, PTL
<1>4. TypeOK'
  BY <1>2, <1>3 DEF TypeOK, Typed
<1>5. ASSUME NEW q \in Runs, runs'[q].phase \notin Ended PROVE RunOK(runs[q])'
  <2>1. PICK run : run = runs'[q]
    OBVIOUS
  <2>2. RunOK(run)'
    <3>1. CASE q = r
      BY <3>1, <2>1, <1>1, <1>5
    <3>2. CASE q # r
      <4>1. run = runs[q]
        BY <3>2, <2>1, <1>1
      <4>2. RunOK(run)
        BY <4>1, <2>1, <1>5 DEF Inv, RunInv
      <4> QED BY <4>2, RunStays
    <3> QED BY <3>1, <3>2
  <2> QED BY <2>1, <2>2 DEF RunOK, Composed
<1> QED BY <1>4, <1>5 DEF Inv, RunInv

LEMMA NoRunMoves ==
  ASSUME Inv, Grows, StoreInv', Typed', runs' = runs
  PROVE  Inv'
<1>1. runs \in [Runs -> RunRecords]
  BY DEF Inv, TypeOK
<1>2. runs' \in [Runs -> RunRecords']
  BY <1>1, RecordsGrow
<1>3. (\A m \in manifests : ManifestOK(m))'
  BY StoreTyped, PTL
<1>4. TypeOK'
  BY <1>2, <1>3 DEF TypeOK, Typed
<1>5. ASSUME NEW q \in Runs, runs[q].phase \notin Ended PROVE RunOK(runs[q])'
  <2>1. PICK run : run = runs[q]
    OBVIOUS
  <2>2. RunOK(run)'
    BY <2>1, <1>5, RunStays DEF Inv, RunInv
  <2> QED BY <2>1, <2>2 DEF RunOK, Composed
<1> QED BY <1>4, <1>5 DEF Inv, RunInv

LEMMA InitInv == Init => Inv
<1> SUFFICES ASSUME Init PROVE Inv
  OBVIOUS
<1>1. /\ code = 0 /\ starts = 0 /\ receipts = {UniverseRoot} /\ manifests = {UniverseRoot}
      /\ payloads = {ArchivePayload(c) : c \in Companies}
      /\ catalogs = {ArchiveShard(s) : s \in Shards}
      /\ screens = {UniverseRoot.screen}
      /\ runs = [r \in Runs |-> Idle]
  BY DEF Init
<1>2. Sound(UniverseRoot) /\ ManifestOK(UniverseRoot)
  BY UniverseSound DEF Sound
<1>3. Whole(UniverseRoot)
  <2>1. \A s \in Shards : UniverseRoot.catalog[s] = ArchiveShard(s)
    BY DEF UniverseRoot
  <2>2. \A c \in Companies : Item(UniverseRoot, c).payload \in payloads
    BY <1>1, UniverseItem
  <2> QED BY <2>1, <2>2, <1>1 DEF Whole
<1>4. StoreInv
  <2>1. UniverseRoot.previous = {}
    BY DEF UniverseRoot
  <2> QED BY <2>1, <1>1, <1>2, <1>3 DEF StoreInv
<1>5. Idle \in RunRecords /\ Idle.phase \in Ended
  BY <1>1, ArchivedType DEF Idle, RunRecords, Phases, Ended
<1>6. Typed
  <2>1. payloads \subseteq Payloads
    BY <1>1, ArchiveTypes
  <2>2. \A object \in catalogs : \E s \in Shards : object \in ShardObjects(s)
    BY <1>1, ArchiveTypes
  <2>3. screens \subseteq Screens
    BY <1>1, <1>2 DEF ManifestOK
  <2> QED BY <2>1, <2>2, <2>3, <1>1 DEF Typed
<1>7. RunInv
  BY <1>1, <1>5 DEF RunInv
<1>8. TypeOK
  BY <1>1, <1>2, <1>5, <1>6 DEF TypeOK, Typed
<1> QED BY <1>4, <1>7, <1>8 DEF Inv

LEMMA StartInv ==
  ASSUME Inv, NEW r \in Runs, NEW root \in receipts, NEW original \in receipts,
         NEW k \in Candidates, Start(r, root, original, k)
  PROVE  Inv'
<1> DEFINE new == [phase |-> "companies", root |-> root,
                   previous |-> PreviousOf(root, original), candidate |-> k,
                   companies |-> k.companies, shards |-> ChangedShards(k), creates |-> 0]
<1>1. /\ runs' = [runs EXCEPT ![r] = new] /\ starts' = starts + 1
      /\ UNCHANGED <<code, payloads, catalogs, screens, manifests, receipts>>
      /\ Admitted(root, k)
  BY DEF Start, bucket
<1>2. Grows /\ StoreInv' /\ Typed'
  <2>1. Grows
    BY <1>1 DEF Grows
  <2>2. Typed'
    BY <1>1 DEF Typed, Inv, TypeOK
  <2> QED BY <2>1, <2>2, <1>1, StoreStays DEF Inv
<1>3. root \in manifests /\ original \in manifests /\ k \in CandidateType
  BY ChainAssumption DEF Inv, StoreInv
<1>4. Sound(root) /\ Sound(original) /\ \A q \in root.previous : Published(q)
  BY <1>3 DEF Inv, StoreInv
<1>5. /\ PreviousOf(root, original) \subseteq Releases
      /\ root.previous \cup {root.release} \subseteq PreviousOf(root, original)
      /\ \A q \in PreviousOf(root, original) : Published(q)
  BY <1>3, <1>4 DEF PreviousOf, Sound, ManifestOK, Published
<1>6. k.companies \subseteq Companies /\ ChangedShards(k) \subseteq Shards
  BY <1>3 DEF CandidateType, ChangedShards
<1>7. new \in RunRecords'
  BY <1>1, <1>3, <1>5, <1>6 DEF RunRecords, Phases, Writing
<1>8. RunOK(new)
  <2>1. /\ new.phase = "companies" /\ new.root = root /\ new.candidate = k
        /\ new.previous = PreviousOf(root, original)
        /\ new.companies = k.companies /\ new.shards = ChangedShards(k)
    OBVIOUS
  <2> HIDE DEF new
  <2> QED BY <2>1, <1>1, <1>5 DEF RunOK
<1>9. RunOK(new)'
  <2>1. PICK fresh : fresh = new
    OBVIOUS
  <2> QED BY <2>1, <1>2, <1>8, RunStays
<1> HIDE DEF new
<1> QED BY <1>1, <1>2, <1>7, <1>9, OneRunMoves

\* A run is given up, or ends in a conflict.
LEMMA GiveUp ==
  ASSUME Inv, NEW r \in Runs, NEW new \in RunRecords, new.phase \in Ended,
         runs' = [runs EXCEPT ![r] = new],
         UNCHANGED <<code, bucket, receipts, starts>>
  PROVE  Inv'
<1>1. Grows /\ manifests' = manifests /\ receipts' = receipts
  BY DEF Grows, bucket
<1>2. Typed'
  BY DEF Typed, Inv, TypeOK, bucket
<1>3. new \in RunRecords'
  BY <1>1, RecordsGrow
<1> QED BY <1>1, <1>2, <1>3, StoreStays, OneRunMoves DEF Inv

LEMMA IdleType ==
  ASSUME StoreInv
  PROVE  Idle \in RunRecords /\ Idle.phase \in Ended
BY ArchivedType DEF StoreInv, Idle, RunRecords, Phases, Ended

LEMMA Advanced ==
  ASSUME NEW run \in RunRecords, NEW phase \in Phases,
         NEW companies \in SUBSET Companies, NEW shards \in SUBSET Shards
  PROVE  [run EXCEPT !.phase = phase, !.companies = companies,
                     !.shards = shards, !.creates = @ + 1] \in RunRecords
<1>1. PICK a : a = [run EXCEPT !.phase = phase]
  OBVIOUS
<1>2. a \in RunRecords
  BY <1>1 DEF RunRecords
<1>3. PICK b : b = [a EXCEPT !.companies = companies]
  OBVIOUS
<1>4. b \in RunRecords
  BY <1>2, <1>3 DEF RunRecords
<1>5. PICK c : c = [b EXCEPT !.shards = shards]
  OBVIOUS
<1>6. c \in RunRecords
  BY <1>4, <1>5 DEF RunRecords
<1>7. c.creates + 1 \in Nat
  BY <1>6 DEF RunRecords
<1>8. PICK d : d = [c EXCEPT !.creates = @ + 1]
  OBVIOUS
<1>9. d \in RunRecords
  BY <1>6, <1>7, <1>8 DEF RunRecords
<1>10. d = [run EXCEPT !.phase = phase, !.companies = companies,
                       !.shards = shards, !.creates = @ + 1]
  BY <1>1, <1>3, <1>5, <1>8
<1> QED BY <1>9, <1>10

LEMMA PinCompanyInv ==
  ASSUME Inv, NEW r \in Runs, NEW c \in Companies, PinCompany(r, c)
  PROVE  Inv'
<1> DEFINE run == runs[r]
<1> DEFINE object == Rebuilt(run.root, run.candidate, c)
<1> DEFINE left == run.companies \ {c}
<1> DEFINE next == IF left = {} THEN "catalog" ELSE "companies"
<1>1. PICK new : new = [run EXCEPT !.phase = next, !.companies = left, !.creates = @ + 1]
  OBVIOUS
<1>2. /\ run.phase = "companies" /\ payloads' = payloads \cup {object}
      /\ UNCHANGED <<code, catalogs, screens, manifests, receipts, starts>>
  BY DEF PinCompany
<1>3. runs' = [runs EXCEPT ![r] = new]
  BY <1>1 DEF PinCompany
<1>4. run \in RunRecords /\ Sound(run.root) /\ run.candidate \in CandidateType /\ RunOK(run)
  BY <1>2, RunFacts DEF Ended
<1>5. Grows
  BY <1>2 DEF Grows
<1>6. Typed'
  BY <1>2, <1>4, UpdateTypes DEF Typed, Inv, TypeOK
<1>7. /\ new.phase = next /\ new.companies = left /\ new.root = run.root
      /\ new.previous = run.previous /\ new.candidate = run.candidate /\ new.shards = run.shards
  BY <1>1, <1>4 DEF RunRecords
<1>8. new \in RunRecords
  <2>1. next \in Phases
    BY DEF Phases, Writing
  <2>2. run.companies \in SUBSET Companies /\ run.shards \in SUBSET Shards
    BY RunFacts DEF Inv
  <2>3. new = [run EXCEPT !.phase = next, !.companies = left,
                         !.shards = run.shards, !.creates = @ + 1]
    BY <1>1, <1>4 DEF RunRecords
  <2> QED BY <2>1, <2>2, <2>3, <1>4, Advanced
<1>9. RunOK(new)'
  <2>1. PICK before : before = run
    OBVIOUS
  <2>2. RunOK(before)'
    BY <2>1, <1>4, <1>5, RunStays
  <2>3. \A d \in new.candidate.companies \ new.companies :
          Rebuilt(new.root, new.candidate, d) \in payloads'
    BY <2>1, <2>2, <1>2, <1>7 DEF RunOK
  <2>4. new.phase # "companies" => new.companies = {}
    BY <1>7
  <2>5. new.phase \in {"companies", "catalog"}
    BY <1>7
  <2>6. /\ new.root = before.root /\ new.previous = before.previous
        /\ new.candidate = before.candidate /\ new.shards = before.shards
    BY <2>1, <1>7
  <2> QED BY <2>2, <2>3, <2>4, <2>5, <2>6 DEF RunOK
<1> QED BY <1>2, <1>3, <1>5, <1>6, <1>8, <1>9, StoreStays, RecordsGrow, OneRunMoves DEF Inv

LEMMA PinShardInv ==
  ASSUME Inv, NEW r \in Runs, NEW s \in Shards, PinShard(r, s)
  PROVE  Inv'
<1> DEFINE run == runs[r]
<1> DEFINE object == UpdatedShard(run.root, run.candidate, s)
<1> DEFINE left == run.shards \ {s}
<1> DEFINE next == IF left = {} THEN "screen" ELSE "catalog"
<1>1. PICK new : new = [run EXCEPT !.phase = next, !.shards = left, !.creates = @ + 1]
  OBVIOUS
<1>2. /\ run.phase = "catalog" /\ catalogs' = catalogs \cup {object}
      /\ UNCHANGED <<code, payloads, screens, manifests, receipts, starts>>
  BY DEF PinShard
<1>3. runs' = [runs EXCEPT ![r] = new]
  BY <1>1 DEF PinShard
<1>4. run \in RunRecords /\ Sound(run.root) /\ run.candidate \in CandidateType /\ RunOK(run)
  BY <1>2, RunFacts DEF Ended
<1>5. Grows
  BY <1>2 DEF Grows
<1>6. Typed'
  BY <1>2, <1>4, UpdateTypes DEF Typed, Inv, TypeOK
<1>7. /\ new.phase = next /\ new.shards = left /\ new.root = run.root
      /\ new.previous = run.previous /\ new.candidate = run.candidate
      /\ new.companies = run.companies
  BY <1>1, <1>4 DEF RunRecords
<1>8. new \in RunRecords
  <2>1. next \in Phases
    BY DEF Phases, Writing
  <2>2. run.companies \in SUBSET Companies /\ run.shards \in SUBSET Shards
    BY RunFacts DEF Inv
  <2>3. new = [run EXCEPT !.phase = next, !.companies = run.companies,
                         !.shards = left, !.creates = @ + 1]
    BY <1>1, <1>4 DEF RunRecords
  <2> QED BY <2>1, <2>2, <2>3, <1>4, Advanced
<1>9. RunOK(new)'
  <2>1. PICK before : before = run
    OBVIOUS
  <2>2. RunOK(before)'
    BY <2>1, <1>4, <1>5, RunStays
  <2>3. \A d \in ChangedShards(new.candidate) \ new.shards :
          UpdatedShard(new.root, new.candidate, d) \in catalogs'
    BY <2>1, <2>2, <1>2, <1>7 DEF RunOK
  <2>4. new.phase \notin {"companies", "catalog"} => new.shards = {}
    BY <1>7
  <2>5. new.phase \in {"catalog", "screen"} /\ new.companies = {}
    BY <2>1, <2>2, <1>2, <1>7 DEF RunOK
  <2>6. /\ new.root = before.root /\ new.previous = before.previous
        /\ new.candidate = before.candidate /\ new.companies = before.companies
    BY <2>1, <1>7
  <2> QED BY <2>2, <2>3, <2>4, <2>5, <2>6 DEF RunOK
<1> QED BY <1>2, <1>3, <1>5, <1>6, <1>8, <1>9, StoreStays, RecordsGrow, OneRunMoves DEF Inv

LEMMA PinScreenInv ==
  ASSUME Inv, NEW r \in Runs, PinScreen(r)
  PROVE  Inv'
<1> DEFINE run == runs[r]
<1> DEFINE object == UpdatedScreen(run.root, run.candidate)
<1>1. PICK new : new = [run EXCEPT !.phase = "manifest", !.creates = @ + 1]
  OBVIOUS
<1>2. /\ run.phase = "screen" /\ screens' = screens \cup {object}
      /\ UNCHANGED <<code, payloads, catalogs, manifests, receipts, starts>>
  BY DEF PinScreen
<1>3. runs' = [runs EXCEPT ![r] = new]
  BY <1>1 DEF PinScreen, Step
<1>4. run \in RunRecords /\ Sound(run.root) /\ run.candidate \in CandidateType /\ RunOK(run)
  BY <1>2, RunFacts DEF Ended
<1>5. Grows
  BY <1>2 DEF Grows
<1>6. Typed'
  BY <1>2, <1>4, UpdateTypes DEF Typed, Inv, TypeOK
<1>7. /\ new.phase = "manifest" /\ new.shards = run.shards /\ new.root = run.root
      /\ new.previous = run.previous /\ new.candidate = run.candidate
      /\ new.companies = run.companies
  BY <1>1, <1>4 DEF RunRecords
<1>8. new \in RunRecords
  <2>1. "manifest" \in Phases
    BY DEF Phases, Writing
  <2>2. run.companies \in SUBSET Companies /\ run.shards \in SUBSET Shards
    BY RunFacts DEF Inv
  <2>3. new = [run EXCEPT !.phase = "manifest", !.companies = run.companies,
                         !.shards = run.shards, !.creates = @ + 1]
    BY <1>1, <1>4 DEF RunRecords
  <2> QED BY <2>1, <2>2, <2>3, <1>4, Advanced
<1>9. RunOK(new)'
  <2>1. PICK before : before = run
    OBVIOUS
  <2>2. RunOK(before)'
    BY <2>1, <1>4, <1>5, RunStays
  <2>3. UpdatedScreen(new.root, new.candidate) \in screens'
    BY <1>2, <1>7
  <2>4. new.companies = {} /\ new.shards = {}
    BY <2>1, <2>2, <1>2, <1>7 DEF RunOK
  <2>5. /\ new.root = before.root /\ new.previous = before.previous
        /\ new.candidate = before.candidate /\ new.companies = before.companies
        /\ new.shards = before.shards
    BY <2>1, <1>7
  <2> QED BY <2>2, <2>3, <2>4, <2>5, <1>7 DEF RunOK
<1> QED BY <1>2, <1>3, <1>5, <1>6, <1>8, <1>9, StoreStays, RecordsGrow, OneRunMoves DEF Inv

LEMMA PinManifestInv ==
  ASSUME Inv, NEW r \in Runs, PinManifest(r)
  PROVE  Inv'
<1> DEFINE run == runs[r]
<1> DEFINE object == Composed(run)
<1>1. PICK new : new = [run EXCEPT !.phase = "receipt", !.creates = @ + 1]
  OBVIOUS
<1>2. /\ run.phase = "manifest" /\ manifests' = manifests \cup {object}
      /\ UNCHANGED <<code, payloads, catalogs, screens, receipts, starts>>
  BY DEF PinManifest, RunRoot, Composed
<1>3. runs' = [runs EXCEPT ![r] = new]
  BY <1>1 DEF PinManifest, Step
<1>4. /\ run \in RunRecords /\ Sound(run.root) /\ Whole(run.root)
      /\ run.candidate \in CandidateType /\ run.previous \in SUBSET Releases /\ RunOK(run)
  BY <1>2, RunFacts DEF Ended
<1>5. Grows
  BY <1>2 DEF Grows
<1>6. Typed'
  BY <1>2 DEF Typed, Inv, TypeOK
<1>7. /\ new.phase = "receipt" /\ new.shards = run.shards /\ new.root = run.root
      /\ new.previous = run.previous /\ new.candidate = run.candidate
      /\ new.companies = run.companies
  BY <1>1, <1>4 DEF RunRecords
<1>8. new \in RunRecords
  <2>1. "receipt" \in Phases
    BY DEF Phases, Writing
  <2>2. run.companies \in SUBSET Companies /\ run.shards \in SUBSET Shards
    BY RunFacts DEF Inv
  <2>3. new = [run EXCEPT !.phase = "receipt", !.companies = run.companies,
                         !.shards = run.shards, !.creates = @ + 1]
    BY <1>1, <1>4 DEF RunRecords
  <2> QED BY <2>1, <2>2, <2>3, <1>4, Advanced
<1>9. RunOK(new)'
  <2>1. PICK before : before = run
    OBVIOUS
  <2>2. RunOK(before)'
    BY <2>1, <1>4, <1>5, RunStays
  <2>3. Composed(new) \in manifests'
    BY <1>2, <1>7 DEF Composed
  <2>4. /\ new.root = before.root /\ new.previous = before.previous
        /\ new.candidate = before.candidate /\ new.companies = before.companies
        /\ new.shards = before.shards /\ before.phase = "manifest"
    BY <2>1, <1>2, <1>7
  <2> QED BY <2>2, <2>3, <2>4, <1>7 DEF RunOK
<1>10. StoreInv'
  <2>1. Sound(object)
    BY <1>4, UpdateSound DEF RunOK, Composed
  <2>2. Whole(object)
    BY <1>2, <1>4, ComposedWhole
  <2>3. object.previous = run.previous
    BY UpdatedFields DEF Composed
  <2>4. \A q \in object.previous : Published(q)
    BY <2>3, <1>4 DEF RunOK
  <2> HIDE DEF object
  <2>5. ASSUME NEW m \in manifests'
        PROVE  Sound(m) /\ Whole(m)' /\ \A q \in m.previous : Published(q)'
    <3>1. Sound(m) /\ Whole(m) /\ \A q \in m.previous : Published(q)
      <4>1. CASE m = object
        BY <4>1, <2>1, <2>2, <2>4
      <4>2. CASE m \in manifests
        BY <4>2 DEF Inv, StoreInv
      <4> QED BY <4>1, <4>2, <1>2
    <3>2. PICK n : n = m
      OBVIOUS
    <3> QED BY <3>1, <3>2, <1>5, WholeStays, PublishedStays DEF Whole
  <2>6. receipts' \subseteq manifests' /\ UniverseRoot \in manifests'
    BY <1>2 DEF Inv, StoreInv
  <2> QED BY <2>5, <2>6 DEF StoreInv
<1> QED BY <1>3, <1>5, <1>6, <1>8, <1>9, <1>10, RecordsGrow, OneRunMoves

LEMMA EndsInv ==
  ASSUME Inv, NEW r \in Runs, Conflict(r) \/ Refuse(r) \/ Crash(r)
  PROVE  Inv'
<1>1. UNCHANGED <<code, bucket, receipts, starts>>
  BY DEF Conflict, Refuse, Crash
<1>2. CASE Conflict(r)
  <2>1. PICK new : new = [runs[r] EXCEPT !.phase = "conflict"]
    OBVIOUS
  <2>2. runs' = [runs EXCEPT ![r] = new]
    BY <1>2, <2>1 DEF Conflict
  <2>3. new \in RunRecords /\ new.phase \in Ended
    BY <2>1, RunFacts DEF RunRecords, Phases, Ended
  <2> QED BY <2>2, <2>3, <1>1, GiveUp
<1>3. CASE Refuse(r) \/ Crash(r)
  <2>1. runs' = [runs EXCEPT ![r] = Idle]
    BY <1>3 DEF Refuse, Crash
  <2> QED BY <2>1, <1>1, GiveUp, IdleType DEF Inv
<1> QED BY <1>2, <1>3

LEMMA FileReceiptInv ==
  ASSUME Inv, NEW r \in Runs, FileReceipt(r)
  PROVE  Inv'
<1>1. /\ runs' = [runs EXCEPT ![r] = Idle] /\ receipts' = receipts \cup {Composed(runs[r])}
      /\ runs[r].phase = "receipt"
      /\ UNCHANGED <<code, payloads, catalogs, screens, manifests, starts>>
  BY DEF FileReceipt, bucket, RunRoot, Composed
<1>2. Composed(runs[r]) \in manifests
  BY <1>1, RunFacts DEF RunOK, Ended
<1>3. Grows
  BY <1>1 DEF Grows
<1>4. Typed'
  BY <1>1 DEF Typed, Inv, TypeOK
<1>5. StoreInv'
  <2>1. ASSUME NEW m \in manifests
        PROVE  Sound(m) /\ Whole(m)' /\ \A q \in m.previous : Published(q)'
    BY <1>3, WholeStays, PublishedStays DEF Inv, StoreInv
  <2>2. receipts' \subseteq manifests /\ UniverseRoot \in manifests
    BY <1>1, <1>2 DEF Inv, StoreInv
  <2> QED BY <2>1, <2>2, <1>1 DEF StoreInv
<1>6. Idle \in RunRecords' /\ Idle.phase \in Ended
  BY <1>3, RecordsGrow, IdleType DEF Inv
<1> QED BY <1>1, <1>3, <1>4, <1>5, <1>6, OneRunMoves

LEMMA ChangeEngineInv ==
  ASSUME Inv, ChangeEngine
  PROVE  Inv'
<1>1. code' = code + 1 /\ UNCHANGED <<payloads, catalogs, screens, manifests, receipts, runs, starts>>
  BY DEF ChangeEngine, bucket
<1>2. Grows
  BY <1>1 DEF Grows
<1>3. Typed'
  BY <1>1 DEF Typed, Inv, TypeOK
<1> QED BY <1>1, <1>2, <1>3, StoreStays, NoRunMoves DEF Inv

LEMMA OverrideInv ==
  ASSUME Inv, NEW deployed \in receipts, Override(deployed)
  PROVE  Inv'
<1> DEFINE root == OverriddenRoot(deployed, code)
<1>1. /\ code # deployed.registry
      /\ Item(deployed, Pinned).payload.release = Materialization
      /\ payloads' = payloads \cup {Item(root, Pinned).payload}
      /\ catalogs' = catalogs \cup {root.catalog[ShardOf(Pinned)]}
      /\ screens' = screens \cup {root.screen}
      /\ manifests' = manifests \cup {root}
      /\ receipts' = receipts \cup {root}
      /\ UNCHANGED <<code, runs, starts>>
  BY DEF Override
<1>2. /\ deployed \in manifests /\ Sound(deployed) /\ ManifestOK(deployed) /\ Whole(deployed)
      /\ \A q \in deployed.previous : Published(q)
      /\ code \in Nat
  BY DEF Inv, StoreInv, TypeOK, Sound
<1>3. Sound(root) /\ ManifestOK(root)
  BY <1>1, <1>2, OverrideSound DEF Sound
<1>4. root.previous = deployed.previous \cup {deployed.release}
  BY <1>2, OverriddenFields
<1>5. Item(root, Pinned).payload \in Payloads
  BY <1>3, PayloadType, PinnedIsCompany
<1>6. root.catalog[ShardOf(Pinned)] \in ShardObjects(ShardOf(Pinned)) /\ ShardOf(Pinned) \in Shards
  BY <1>3, ShardFacts, PinnedIsCompany DEF ManifestOK
<1>7. Grows
  BY <1>1 DEF Grows
<1>8. PICK base, registry : base = deployed /\ registry = code
  OBVIOUS
<1>9. Whole(base)'
  BY <1>2, <1>7, <1>8, WholeStays
<1>10. PICK new : new = root
  OBVIOUS
<1>11. Whole(new)'
  <2>1. new = OverriddenRoot(base, registry)
    BY <1>8, <1>10
  <2>2. /\ Item(new, Pinned).payload \in payloads'
        /\ new.catalog[ShardOf(Pinned)] \in catalogs'
        /\ new.screen \in screens'
    BY <1>1, <1>10
  <2>3. ManifestOK(base)
    BY <1>2, <1>8
  <2> HIDE DEF root
  <2> QED BY <2>1, <2>2, <2>3, <1>7, <1>9, OverriddenWhole
<1>12. Typed'
  <2> HIDE DEF root
  <2>1. payloads' \subseteq Payloads
    BY <1>1, <1>5 DEF Inv, TypeOK
  <2>2. \A object \in catalogs' : \E s \in Shards : object \in ShardObjects(s)
    BY <1>1, <1>6 DEF Inv, TypeOK
  <2>3. screens' \subseteq Screens
    BY <1>1, <1>3 DEF Inv, TypeOK, ManifestOK
  <2> QED BY <2>1, <2>2, <2>3, <1>1, <1>2 DEF Typed, Inv, TypeOK
<1>13. StoreInv'
  <2> HIDE DEF root
  <2>1. ASSUME NEW m \in manifests
        PROVE  Sound(m) /\ Whole(m)' /\ \A q \in m.previous : Published(q)'
    BY <1>7, WholeStays, PublishedStays DEF Inv, StoreInv
  <2>2. Sound(new) /\ Whole(new)' /\ \A q \in new.previous : Published(q)'
    <3>1. \A q \in new.previous : Published(q)
      BY <1>2, <1>4, <1>10 DEF Published
    <3> QED BY <3>1, <1>3, <1>7, <1>10, <1>11, PublishedStays
  <2>3. manifests' = manifests \cup {new} /\ receipts' = receipts \cup {new}
    BY <1>1, <1>10
  <2>4. receipts' \subseteq manifests' /\ UniverseRoot \in manifests'
    BY <2>3 DEF Inv, StoreInv
  <2> QED BY <2>1, <2>2, <2>3, <2>4 DEF StoreInv
<1> QED BY <1>1, <1>7, <1>12, <1>13, NoRunMoves

LEMMA NextInv == Inv /\ [Next]_vars => Inv'
<1> SUFFICES ASSUME Inv, [Next]_vars PROVE Inv'
  OBVIOUS
<1>1. CASE ChangeEngine
  BY <1>1, ChangeEngineInv
<1>2. ASSUME NEW r \in Runs, Update(r) PROVE Inv'
  <2>1. CASE \E root, original \in receipts, k \in Candidates : Start(r, root, original, k)
    BY <2>1, StartInv
  <2>2. CASE \E c \in Companies : PinCompany(r, c)
    BY <2>2, PinCompanyInv
  <2>3. CASE \E s \in Shards : PinShard(r, s)
    BY <2>3, PinShardInv
  <2>4. CASE PinScreen(r)
    BY <2>4, PinScreenInv
  <2>5. CASE PinManifest(r)
    BY <2>5, PinManifestInv
  <2>6. CASE FileReceipt(r)
    BY <2>6, FileReceiptInv
  <2>7. CASE Conflict(r) \/ Refuse(r) \/ Crash(r)
    BY <2>7, EndsInv
  <2> QED BY <1>2, <2>1, <2>2, <2>3, <2>4, <2>5, <2>6, <2>7 DEF Update
<1>3. CASE \E deployed \in receipts : Override(deployed)
  BY <1>3, OverrideInv
<1>4. CASE UNCHANGED vars
  <2>1. UNCHANGED <<code, payloads, catalogs, screens, manifests, receipts, runs, starts>>
    BY <1>4 DEF vars, bucket
  <2>2. Grows
    BY <2>1 DEF Grows
  <2>3. Typed'
    BY <2>1 DEF Typed, Inv, TypeOK
  <2> QED BY <2>1, <2>2, <2>3, StoreStays, NoRunMoves DEF Inv
<1> QED BY <1>1, <1>2, <1>3, <1>4 DEF Next

THEOREM Invariant == Spec => []Inv
<1> QED BY InitInv, NextInv, PTL DEF Spec

-----------------------------------------------------------------------------
(* Every variable keeps its type.                                          *)
THEOREM TypeCorrect == Spec => []TypeOK
<1>1. Inv => TypeOK
  BY DEF Inv
<1> QED BY <1>1, Invariant, PTL

(* A published manifest is never ahead of what it refers to, whatever runs *)
(* write, stop or are refused.                                             *)
THEOREM WholeCorrect == Spec => []RootsAreWhole
<1>1. Inv => RootsAreWhole
  BY DEF Inv, StoreInv, Whole, RootsAreWhole
<1> QED BY <1>1, Invariant, PTL

(* Every release of a root's path resolves through the root.               *)
THEOREM AncestorsCorrect == Spec => []AncestorsResolve
<1>1. Inv => AncestorsResolve
  <2> SUFFICES ASSUME Inv, NEW m \in manifests, NEW i \in 1..Len(m.release) - 1
               PROVE  Resolves(m, SubSeq(m.release, 1, i))
    BY DEF AncestorsResolve
  <2>1. SubSeq(m.release, 1, i) \in m.previous
    BY DEF Inv, StoreInv, Sound, Lineage
  <2>2. Published(SubSeq(m.release, 1, i))
    BY <2>1 DEF Inv, StoreInv
  <2> QED BY <2>1, <2>2 DEF Resolves, Published
<1> QED BY <1>1, Invariant, PTL

(* The screen of every root shows the payloads of its catalog.             *)
THEOREM ScreenCorrect == Spec => []ScreenFollowsCatalog
<1>1. Inv => ScreenFollowsCatalog
  BY DEF Inv, StoreInv, Sound, Contents, ScreenFollowsCatalog
<1> QED BY <1>1, Invariant, PTL

(* As of the archive's cutoff every root shows what the first one showed,  *)
(* but for the revenue of a company whose change the root itself declares. *)
THEOREM ArchiveCorrect == Spec => []ArchiveReproduces
<1>1. Inv => ArchiveReproduces
  <2> SUFFICES ASSUME Inv, NEW m \in manifests, NEW c \in Companies
               PROVE  LET shown == ArchiveHistory(Item(m, c).payload)
                          first == ArchiveHistory(ArchivePayload(c))
                      IN
                      /\ DeclaredFor(m, c) = {} => shown = first
                      /\ \A change \in DeclaredFor(m, c) :
                           shown = [restated |-> first.restated, revenue |-> change.to]
    BY DEF ArchiveReproduces
  <2> DEFINE payload == Item(m, c).payload
  <2>1. Contents(m) /\ Changes(m) /\ Registries(m)
    BY DEF Inv, StoreInv, Sound
  <2>2. payload.company = c /\ payload.snapshot.restated = FALSE
    BY <2>1 DEF Contents
  <2>3. ArchiveHistory(ArchivePayload(c)) = [restated |-> FALSE, revenue |-> 0]
    BY DEF ArchiveHistory, ArchivePayload, Archived
  <2>4. ArchiveHistory(payload) =
          [restated |-> FALSE, revenue |-> IF c = Pinned THEN payload.registry ELSE 0]
    BY <2>2 DEF ArchiveHistory
  <2>5. ASSUME DeclaredFor(m, c) = {}, c = Pinned PROVE payload.registry = 0
    <3>1. m.change = {} BY <2>1, <2>5 DEF DeclaredFor, Changes
    <3> QED BY <2>1, <3>1 DEF Changes, Registries
  <2>6. ASSUME NEW change \in DeclaredFor(m, c)
        PROVE  c = Pinned /\ payload.registry = change.to
    <3>1. change \in m.change /\ c \in change.affected BY DEF DeclaredFor
    <3>2. c = Pinned BY <2>1, <3>1 DEF Changes
    <3> QED BY <2>1, <3>1, <3>2 DEF Registries
  <2> HIDE DEF payload
  <2>7. DeclaredFor(m, c) = {} => ArchiveHistory(payload) = ArchiveHistory(ArchivePayload(c))
    BY <2>3, <2>4, <2>5
  <2>8. ASSUME NEW change \in DeclaredFor(m, c)
        PROVE  ArchiveHistory(payload) =
                 [restated |-> ArchiveHistory(ArchivePayload(c)).restated,
                  revenue |-> change.to]
    <3>1. ArchiveHistory(payload) = [restated |-> FALSE, revenue |-> change.to]
      BY <2>4, <2>6, <2>8
    <3>2. ArchiveHistory(ArchivePayload(c)).restated = FALSE BY <2>3
    <3> QED BY <3>1, <3>2, Zenon
  <2> QED BY <2>7, <2>8 DEF payload
<1> QED BY <1>1, Invariant, PTL

(* What the Worker refuses of a sound root was rebuilt after a change of   *)
(* the registry.                                                           *)
LEMMA SoundIsServed ==
  ASSUME NEW m, Sound(m), Whole(m), NEW c \in Companies, ~RebuiltAfterChange(m, c)
  PROVE  Served(m, c)
<1> DEFINE payload == Item(m, c).payload
<1>1. ManifestOK(m) /\ Contents(m) /\ Changes(m) /\ Registries(m)
  BY DEF Sound
<1>2. payload.registry = ExpectedRegistry(m, c)
  <2> DEFINE inherited == {change \in m.change : c \notin change.affected /\ change.to = m.registry}
  <2>1. ExpectedRegistry(m, c) = IF payload.release # m.release /\ inherited # {}
                                 THEN (CHOOSE change \in inherited : TRUE).from
                                 ELSE m.registry
    BY DEF ExpectedRegistry
  <2> HIDE DEF inherited
  <2>2. CASE payload.release # m.release /\ inherited # {}
    <3>1. PICK change \in inherited : change = CHOOSE x \in inherited : TRUE
      BY <2>2
    <3>2. change \in m.change /\ c \notin change.affected /\ change.to = m.registry
      BY <3>1 DEF inherited
    <3>3. payload.registry \in {change.from, change.to}
      BY <3>2, <1>1 DEF Registries
    <3>4. payload.registry # change.to
      BY <3>2, <2>2 DEF RebuiltAfterChange
    <3> QED BY <3>1, <3>3, <3>4, <2>1, <2>2
  <2>3. CASE payload.release = m.release
    <3>1. payload.registry = m.registry
      BY <2>3, <1>1 DEF Registries
    <3> QED BY <3>1, <2>1, <2>3
  <2>4. CASE inherited = {} /\ m.change = {}
    <3>1. payload.registry = m.registry
      BY <2>4, <1>1 DEF Registries
    <3> QED BY <3>1, <2>1, <2>4
  <2>5. CASE inherited = {} /\ m.change # {}
    <3>1. PICK change \in m.change : TRUE
      BY <2>5
    <3>2. change.to = m.registry /\ change.affected = {Pinned}
      BY <1>1 DEF Changes
    <3>3. c = Pinned
      BY <3>1, <3>2, <2>5 DEF inherited
    <3>4. payload.registry = change.to
      BY <3>1, <3>3, <1>1 DEF Registries
    <3> QED BY <3>2, <3>4, <2>1, <2>5
  <2> QED BY <2>2, <2>3, <2>4, <2>5
<1>3. m.catalog[ShardOf(c)] \in catalogs /\ payload \in payloads
  BY ShardFacts DEF Whole
<1>4. payload.release \in m.sources /\ payload.company = c
  BY <1>1 DEF Contents
<1> QED BY <1>2, <1>3, <1>4 DEF Served

(* The Worker serves every company of every root but those of the          *)
(* exception.                                                              *)
THEOREM ServedCorrect == Spec => []ServedUnlessRebuilt
<1>1. Inv => ServedUnlessRebuilt
  BY SoundIsServed DEF Inv, StoreInv, ServedUnlessRebuilt
<1> QED BY <1>1, Invariant, PTL

LEMMA NextGrows == Next => Grows
<1> SUFFICES ASSUME Next PROVE Grows
  OBVIOUS
<1>1. CASE ChangeEngine
  BY <1>1 DEF ChangeEngine, Grows, bucket
<1>2. ASSUME NEW r \in Runs, Update(r) PROVE Grows
  <2>1. CASE \E root, original \in receipts, k \in Candidates : Start(r, root, original, k)
    BY <2>1 DEF Start, Grows, bucket
  <2>2. CASE \E c \in Companies : PinCompany(r, c)
    BY <2>2 DEF PinCompany, Grows
  <2>3. CASE \E s \in Shards : PinShard(r, s)
    BY <2>3 DEF PinShard, Grows
  <2>4. CASE PinScreen(r) \/ PinManifest(r)
    BY <2>4 DEF PinScreen, PinManifest, Grows
  <2>5. CASE FileReceipt(r) \/ Conflict(r) \/ Refuse(r) \/ Crash(r)
    BY <2>5 DEF FileReceipt, Conflict, Refuse, Crash, Grows, bucket
  <2> QED BY <1>2, <2>1, <2>2, <2>3, <2>4, <2>5 DEF Update
<1>3. CASE \E deployed \in receipts : Override(deployed)
  BY <1>3 DEF Override, Grows
<1> QED BY <1>1, <1>2, <1>3 DEF Next

(* The bucket is create-only.                                              *)
THEOREM ObjectsStay == Spec => ObjectsFinal
<1>1. [Next]_vars => [Grows]_vars
  BY NextGrows
<1> QED BY <1>1, PTL DEF Spec, ObjectsFinal, Grows

-----------------------------------------------------------------------------
(* Conflicts.  A path determines its root, and with it every object an     *)
(* update writes below the path; only the releases a root resolves are     *)
(* the operator's choice.                                                  *)
ByUpdate(q) == \E path \in Releases, k \in CandidateType, g \in Nat :
  q = Append(path, [kind |-> "update", candidate |-> k, registry |-> g])

Unique == \A m, n \in manifests : m.release = n.release => m = n

PayloadOf(p) ==
  ByUpdate(p.release) =>
    \E root \in manifests, k \in CandidateType :
      p.release = ReleaseOf(root, k) /\ p = Rebuilt(root, k, p.company)

ShardFrom(object) ==
  ByUpdate(object.release) =>
    \E root \in manifests, k \in CandidateType :
      object.release = ReleaseOf(root, k) /\ object = UpdatedShard(root, k, object.shard)

ScreenFrom(screen) ==
  ByUpdate(screen.release) =>
    \E root \in manifests, k \in CandidateType :
      screen.release = ReleaseOf(root, k) /\ screen = UpdatedScreen(root, k)

RootFrom(m) ==
  \/ m.release = Universe
  \/ \E root \in manifests, k \in CandidateType : m = UpdatedRoot(root, m.previous, k)
  \/ \E root \in manifests, g \in Nat : m = OverriddenRoot(root, g)

MadeInv ==
  /\ Unique
  /\ \A p \in payloads : PayloadOf(p)
  /\ \A object \in catalogs : ShardFrom(object)
  /\ \A screen \in screens : ScreenFrom(screen)
  /\ \A m \in manifests : RootFrom(m)

LEMMA OneChange ==
  ASSUME NEW q \in Releases, NEW p \in Releases, NEW x \in Change, NEW y \in Change,
         Append(q, x) = Append(p, y)
  PROVE  q = p /\ x = y
BY AppendInjective DEF Releases

LEMMA UpdateIsOne ==
  ASSUME NEW root, ManifestOK(root), NEW k \in CandidateType
  PROVE  ByUpdate(ReleaseOf(root, k))
BY DEF ManifestOK, ReleaseOf, ByUpdate

LEMMA OtherKinds ==
  /\ ~ByUpdate(Materialization) /\ ~ByUpdate(Universe)
  /\ \A root : \A g \in Nat : ManifestOK(root) => ~ByUpdate(OverrideRelease(root, g))
  /\ \A root : \A g \in Nat : ManifestOK(root) => OverrideRelease(root, g) # Universe
  /\ \A root : \A k \in CandidateType : ManifestOK(root) => ReleaseOf(root, k) # Universe
<1> DEFINE Up(k, g) == [kind |-> "update", candidate |-> k, registry |-> g]
<1> DEFINE Over(g) == [kind |-> "override", candidate |-> Nothing, registry |-> g]
<1> DEFINE First == [kind |-> "universe", candidate |-> Nothing, registry |-> 0]
<1>1. /\ \A k \in CandidateType : \A g \in Nat : Up(k, g) \in Change
      /\ \A g \in Nat : Over(g) \in Change
      /\ First \in Change
  BY ArchivedType DEF Change
<1>2. << >> \in Releases /\ Universe = Append(<< >>, First)
  BY <1>1 DEF Releases, Universe
<1>3. \A k \in CandidateType : \A g \in Nat : Up(k, g).kind = "update"
  OBVIOUS
<1>4. \A g \in Nat : Over(g).kind = "override"
  OBVIOUS
<1>5. First.kind = "universe"
  OBVIOUS
<1>6. /\ \A q : ByUpdate(q) => \E path \in Releases, k \in CandidateType, g \in Nat :
                                 q = Append(path, Up(k, g))
      /\ \A root : \A g : OverrideRelease(root, g) = Append(root.release, Over(g))
      /\ \A root : \A k : ReleaseOf(root, k) = Append(root.release, Up(k, root.registry))
  BY DEF ByUpdate, OverrideRelease, ReleaseOf
<1> HIDE DEF Up, Over, First
<1>7. ~ByUpdate(Materialization)
  <2> SUFFICES ASSUME ByUpdate(Materialization) PROVE FALSE
    OBVIOUS
  <2>1. PICK path \in Releases, k \in CandidateType, g \in Nat :
          Materialization = Append(path, Up(k, g))
    BY <1>6
  <2>2. Up(k, g) \in Change
    BY <1>1
  <2>3. Len(Append(path, Up(k, g))) = Len(path) + 1 /\ Len(path) \in Nat
    BY <2>2, Extends DEF Releases
  <2> QED BY <2>1, <2>3, UniverseType
<1>8. ~ByUpdate(Universe)
  <2> SUFFICES ASSUME ByUpdate(Universe) PROVE FALSE
    OBVIOUS
  <2>1. PICK path \in Releases, k \in CandidateType, g \in Nat : Universe = Append(path, Up(k, g))
    BY <1>6
  <2>2. Append(path, Up(k, g)) = Append(<< >>, First) /\ Up(k, g) \in Change
    BY <2>1, <1>1, <1>2
  <2>3. Up(k, g) = First
    BY <2>2, <1>1, <1>2, OneChange
  <2> QED BY <2>3, <1>3, <1>5
<1>9. ASSUME NEW root, NEW g \in Nat, ManifestOK(root) PROVE ~ByUpdate(OverrideRelease(root, g))
  <2> SUFFICES ASSUME ByUpdate(OverrideRelease(root, g)) PROVE FALSE
    OBVIOUS
  <2>1. PICK path \in Releases, k \in CandidateType, h \in Nat :
          OverrideRelease(root, g) = Append(path, Up(k, h))
    BY <1>6
  <2>2. root.release \in Releases
    BY <1>9 DEF ManifestOK
  <2>3. Up(k, h) = Over(g)
    BY <2>1, <2>2, <1>1, <1>6, OneChange
  <2> QED BY <2>3, <1>3, <1>4
<1>10. ASSUME NEW root, NEW g \in Nat, ManifestOK(root) PROVE OverrideRelease(root, g) # Universe
  <2>1. root.release \in Releases
    BY <1>10 DEF ManifestOK
  <2>2. OverrideRelease(root, g) = Universe => Over(g) = First
    BY <2>1, <1>1, <1>2, <1>6, OneChange
  <2> QED BY <2>2, <1>4, <1>5
<1>11. ASSUME NEW root, NEW k \in CandidateType, ManifestOK(root) PROVE ReleaseOf(root, k) # Universe
  <2>1. root.release \in Releases /\ root.registry \in Nat
    BY <1>11 DEF ManifestOK
  <2>2. ReleaseOf(root, k) = Universe => Up(k, root.registry) = First
    BY <2>1, <1>1, <1>2, <1>6, OneChange
  <2> QED BY <2>1, <2>2, <1>3, <1>5
<1> QED BY <1>7, <1>8, <1>9, <1>10, <1>11

\* The root and the candidate of an update's path.
LEMMA PathOfUpdate ==
  ASSUME NEW m, ManifestOK(m), NEW n, ManifestOK(n),
         NEW k \in CandidateType, NEW j \in CandidateType, ReleaseOf(m, k) = ReleaseOf(n, j)
  PROVE  m.release = n.release /\ k = j
<1>1. /\ m.release \in Releases /\ n.release \in Releases
      /\ m.registry \in Nat /\ n.registry \in Nat
  BY DEF ManifestOK
<1>2. PICK x, y : /\ x = [kind |-> "update", candidate |-> k, registry |-> m.registry]
                  /\ y = [kind |-> "update", candidate |-> j, registry |-> n.registry]
  OBVIOUS
<1>3. x \in Change /\ y \in Change
  BY <1>1, <1>2 DEF Change
<1>4. Append(m.release, x) = Append(n.release, y)
  BY <1>2 DEF ReleaseOf
<1>5. m.release = n.release /\ x = y
  BY <1>1, <1>3, <1>4, OneChange
<1>6. x.candidate = k /\ y.candidate = j
  BY <1>2
<1> QED BY <1>5, <1>6

LEMMA PathOfOverride ==
  ASSUME NEW m, ManifestOK(m), NEW n, ManifestOK(n),
         NEW g \in Nat, NEW h \in Nat, OverrideRelease(m, g) = OverrideRelease(n, h)
  PROVE  m.release = n.release /\ g = h
<1>1. m.release \in Releases /\ n.release \in Releases
  BY DEF ManifestOK
<1>2. PICK x, y : /\ x = [kind |-> "override", candidate |-> Nothing, registry |-> g]
                  /\ y = [kind |-> "override", candidate |-> Nothing, registry |-> h]
  OBVIOUS
<1>3. x \in Change /\ y \in Change
  BY <1>2, ArchivedType DEF Change
<1>4. Append(m.release, x) = Append(n.release, y)
  BY <1>2 DEF OverrideRelease
<1>5. m.release = n.release /\ x = y
  BY <1>1, <1>3, <1>4, OneChange
<1>6. x.registry = g /\ y.registry = h
  BY <1>2
<1> QED BY <1>5, <1>6

\* What a run would write, where something is there already.
LEMMA WrittenBefore ==
  ASSUME Inv, MadeInv, NEW root \in manifests, NEW k \in CandidateType
  PROVE  /\ \A p \in payloads :
              p.release = ReleaseOf(root, k) => p = Rebuilt(root, k, p.company)
         /\ \A object \in catalogs :
              object.release = ReleaseOf(root, k) => object = UpdatedShard(root, k, object.shard)
         /\ \A screen \in screens :
              screen.release = ReleaseOf(root, k) => screen = UpdatedScreen(root, k)
         /\ \A m \in manifests :
              m.release = ReleaseOf(root, k) => m = UpdatedRoot(root, m.previous, k)
<1>1. ManifestOK(root) /\ ByUpdate(ReleaseOf(root, k))
  BY UpdateIsOne DEF Inv, TypeOK
<1>2. ASSUME NEW n \in manifests, NEW j \in CandidateType, ReleaseOf(root, k) = ReleaseOf(n, j)
      PROVE  n = root /\ j = k
  <2>1. ManifestOK(n)
    BY DEF Inv, TypeOK
  <2>2. n.release = root.release /\ j = k
    BY <2>1, <1>1, <1>2, PathOfUpdate
  <2> QED BY <2>2 DEF MadeInv, Unique
<1>3. ASSUME NEW p \in payloads, p.release = ReleaseOf(root, k)
      PROVE  p = Rebuilt(root, k, p.company)
  <2>1. PICK n \in manifests, j \in CandidateType :
          p.release = ReleaseOf(n, j) /\ p = Rebuilt(n, j, p.company)
    BY <1>1, <1>3 DEF MadeInv, PayloadOf
  <2>2. n = root /\ j = k
    BY <2>1, <1>2, <1>3
  <2> QED BY <2>1, <2>2
<1>4. ASSUME NEW object \in catalogs, object.release = ReleaseOf(root, k)
      PROVE  object = UpdatedShard(root, k, object.shard)
  <2>1. PICK n \in manifests, j \in CandidateType :
          object.release = ReleaseOf(n, j) /\ object = UpdatedShard(n, j, object.shard)
    BY <1>1, <1>4 DEF MadeInv, ShardFrom
  <2>2. n = root /\ j = k
    BY <2>1, <1>2, <1>4
  <2> QED BY <2>1, <2>2
<1>5. ASSUME NEW screen \in screens, screen.release = ReleaseOf(root, k)
      PROVE  screen = UpdatedScreen(root, k)
  <2>1. PICK n \in manifests, j \in CandidateType :
          screen.release = ReleaseOf(n, j) /\ screen = UpdatedScreen(n, j)
    BY <1>1, <1>5 DEF MadeInv, ScreenFrom
  <2>2. n = root /\ j = k
    BY <2>1, <1>2, <1>5
  <2> QED BY <2>1, <2>2
<1>6. ASSUME NEW m \in manifests, m.release = ReleaseOf(root, k)
      PROVE  m = UpdatedRoot(root, m.previous, k)
  <2>1. RootFrom(m)
    BY DEF MadeInv
  <2>2. m.release # Universe
    BY <1>1, <1>6, OtherKinds
  <2>3. ASSUME NEW n \in manifests, NEW g \in Nat, m = OverriddenRoot(n, g) PROVE FALSE
    <3>1. ManifestOK(n)
      BY DEF Inv, TypeOK
    <3>2. m.release = OverrideRelease(n, g)
      BY <3>1, <2>3, OverriddenFields
    <3> QED BY <3>1, <3>2, <1>1, <1>6, OtherKinds
  <2>4. PICK n \in manifests, j \in CandidateType : m = UpdatedRoot(n, m.previous, j)
    BY <2>1, <2>2, <2>3 DEF RootFrom
  <2>5. m.release = ReleaseOf(n, j)
    <3>1. UpdatedRoot(n, m.previous, j).release = ReleaseOf(n, j)
      BY UpdatedFields
    <3> QED BY <3>1, <2>4
  <2>6. n = root /\ j = k
    BY <2>5, <1>2, <1>6
  <2> QED BY <2>4, <2>6
<1> QED BY <1>3, <1>4, <1>5, <1>6

LEMMA MadeStays ==
  ASSUME Grows
  PROVE  /\ \A p : PayloadOf(p) => PayloadOf(p)'
         /\ \A object : ShardFrom(object) => ShardFrom(object)'
         /\ \A screen : ScreenFrom(screen) => ScreenFrom(screen)'
         /\ \A m : RootFrom(m) => RootFrom(m)'
<1>1. ASSUME NEW p, PayloadOf(p) PROVE PayloadOf(p)'
  BY <1>1 DEF Grows, PayloadOf
<1>2. ASSUME NEW object, ShardFrom(object) PROVE ShardFrom(object)'
  BY <1>2 DEF Grows, ShardFrom
<1>3. ASSUME NEW screen, ScreenFrom(screen) PROVE ScreenFrom(screen)'
  BY <1>3 DEF Grows, ScreenFrom
<1>4. ASSUME NEW m, RootFrom(m) PROVE RootFrom(m)'
  BY <1>4 DEF Grows, RootFrom
<1> QED BY <1>1, <1>2, <1>3, <1>4

LEMMA MadeStep ==
  ASSUME MadeInv, Grows, Unique',
         \A p \in payloads' : p \in payloads \/ PayloadOf(p),
         \A object \in catalogs' : object \in catalogs \/ ShardFrom(object),
         \A screen \in screens' : screen \in screens \/ ScreenFrom(screen),
         \A m \in manifests' : m \in manifests \/ RootFrom(m)
  PROVE  MadeInv'
<1>1. /\ \A p \in payloads' : PayloadOf(p)
      /\ \A object \in catalogs' : ShardFrom(object)
      /\ \A screen \in screens' : ScreenFrom(screen)
      /\ \A m \in manifests' : RootFrom(m)
  BY DEF MadeInv
<1>2. /\ \A p \in payloads' : PayloadOf(p)'
      /\ \A object \in catalogs' : ShardFrom(object)'
      /\ \A screen \in screens' : ScreenFrom(screen)'
      /\ \A m \in manifests' : RootFrom(m)'
  BY <1>1, MadeStays
<1> QED BY <1>2 DEF MadeInv

LEMMA InitMade == Init => MadeInv
<1> SUFFICES ASSUME Init PROVE MadeInv
  OBVIOUS
<1>1. /\ manifests = {UniverseRoot}
      /\ payloads = {ArchivePayload(c) : c \in Companies}
      /\ catalogs = {ArchiveShard(s) : s \in Shards}
      /\ screens = {UniverseRoot.screen}
  BY DEF Init
<1>2. /\ \A c : ArchivePayload(c).release = Materialization
      /\ \A s : ArchiveShard(s).release = Universe
      /\ UniverseRoot.screen.release = Universe /\ UniverseRoot.release = Universe
  BY DEF ArchivePayload, ArchiveShard, UniverseRoot
<1>3. \A p \in payloads : PayloadOf(p)
  BY <1>1, <1>2, OtherKinds DEF PayloadOf
<1>4. \A object \in catalogs : ShardFrom(object)
  BY <1>1, <1>2, OtherKinds DEF ShardFrom
<1>5. \A screen \in screens : ScreenFrom(screen)
  BY <1>1, <1>2, OtherKinds DEF ScreenFrom
<1>6. \A m \in manifests : RootFrom(m)
  BY <1>1, <1>2 DEF RootFrom
<1>7. Unique
  BY <1>1 DEF Unique
<1> QED BY <1>3, <1>4, <1>5, <1>6, <1>7 DEF MadeInv

LEMMA OverrideMade ==
  ASSUME Inv, MadeInv, Grows, NEW deployed \in receipts, Override(deployed)
  PROVE  MadeInv'
<1> DEFINE root == OverriddenRoot(deployed, code)
<1>1. /\ payloads' = payloads \cup {Item(root, Pinned).payload}
      /\ catalogs' = catalogs \cup {root.catalog[ShardOf(Pinned)]}
      /\ screens' = screens \cup {root.screen}
      /\ manifests' = manifests \cup {root}
  BY DEF Override
<1>2. deployed \in manifests /\ ManifestOK(deployed) /\ code \in Nat
  BY DEF Inv, StoreInv, TypeOK
<1>3. /\ root.release = OverrideRelease(deployed, code)
      /\ root.screen = PinnedScreen(deployed, code)
      /\ root.catalog = [deployed.catalog EXCEPT ![ShardOf(Pinned)] = PinnedShard(deployed, code)]
  BY <1>2, OverriddenFields
<1>4. Item(root, Pinned).payload = PinnedPayload(deployed, code)
  BY <1>2, OverriddenItem, PinnedIsCompany
<1>5. ShardOf(Pinned) \in DOMAIN deployed.catalog
  BY <1>2, ShardFacts, PinnedIsCompany DEF ManifestOK
<1>6. RootFrom(root)
  BY <1>2 DEF RootFrom
<1> HIDE DEF root
<1>7. root.catalog[ShardOf(Pinned)] = PinnedShard(deployed, code)
  BY <1>3, <1>5
<1>8. ~ByUpdate(OverrideRelease(deployed, code))
  BY <1>2, OtherKinds
<1>9. /\ PinnedPayload(deployed, code).release = OverrideRelease(deployed, code)
      /\ PinnedShard(deployed, code).release = OverrideRelease(deployed, code)
      /\ PinnedScreen(deployed, code).release = OverrideRelease(deployed, code)
  BY DEF PinnedPayload, PinnedShard, PinnedScreen
<1>10. /\ PayloadOf(Item(root, Pinned).payload)
       /\ ShardFrom(root.catalog[ShardOf(Pinned)])
       /\ ScreenFrom(root.screen)
  BY <1>3, <1>4, <1>7, <1>8, <1>9 DEF PayloadOf, ShardFrom, ScreenFrom
<1>11. ASSUME NEW m \in manifests, m.release = root.release PROVE m = root
  <2>1. m.release # Universe
    BY <1>2, <1>3, <1>11, OtherKinds
  <2>2. ASSUME NEW n \in manifests, NEW k \in CandidateType, m = UpdatedRoot(n, m.previous, k)
        PROVE  FALSE
    <3>1. UpdatedRoot(n, m.previous, k).release = ReleaseOf(n, k)
      BY UpdatedFields
    <3>2. m.release = ReleaseOf(n, k) /\ ManifestOK(n)
      BY <3>1, <2>2 DEF Inv, TypeOK
    <3>3. ByUpdate(m.release)
      BY <3>2, UpdateIsOne
    <3> QED BY <3>3, <1>3, <1>8, <1>11
  <2>3. PICK n \in manifests, g \in Nat : m = OverriddenRoot(n, g)
    BY <2>1, <2>2 DEF MadeInv, RootFrom
  <2>4. ManifestOK(n)
    BY DEF Inv, TypeOK
  <2>5. m.release = OverrideRelease(n, g)
    BY <2>3, <2>4, OverriddenFields
  <2>6. OverrideRelease(n, g) = OverrideRelease(deployed, code)
    BY <2>5, <1>3, <1>11
  <2>7. n.release = deployed.release /\ g = code
    BY <2>6, <2>4, <1>2, PathOfOverride
  <2>8. n = deployed
    BY <2>7, <1>2 DEF MadeInv, Unique
  <2> QED BY <2>3, <2>7, <2>8 DEF root
<1>12. Unique'
  <2>1. \A m, n \in manifests : m.release = n.release => m = n
    BY DEF MadeInv, Unique
  <2>2. \A m, n \in manifests \cup {root} : m.release = n.release => m = n
    BY <2>1, <1>11
  <2> QED BY <2>2, <1>1 DEF Unique
<1> QED BY <1>1, <1>6, <1>10, <1>12, MadeStep

LEMMA NextMade == Inv /\ MadeInv /\ [Next]_vars => MadeInv'
<1> SUFFICES ASSUME Inv, MadeInv, [Next]_vars PROVE MadeInv'
  OBVIOUS
<1>1. CASE UNCHANGED <<payloads, catalogs, screens, manifests>>
  BY <1>1 DEF MadeInv, Unique, PayloadOf, ShardFrom, ScreenFrom, RootFrom
<1>2. ASSUME NEW r \in Runs, NEW c \in Companies, PinCompany(r, c) PROVE MadeInv'
  <2> DEFINE run == runs[r]
  <2> DEFINE object == Rebuilt(run.root, run.candidate, c)
  <2>1. payloads' = payloads \cup {object} /\ UNCHANGED <<catalogs, screens, manifests>>
    BY <1>2 DEF PinCompany
  <2>2. run.root \in manifests /\ run.candidate \in CandidateType
    BY RunFacts
  <2>3. object.release = ReleaseOf(run.root, run.candidate) /\ object.company = c
    BY DEF Rebuilt
  <2>4. PayloadOf(object)
    BY <2>2, <2>3 DEF PayloadOf
  <2> HIDE DEF object
  <2>5. Unique'
    BY <2>1 DEF MadeInv, Unique
  <2>6. Grows
    BY <1>2 DEF PinCompany, Grows
  <2> QED BY <2>1, <2>4, <2>5, <2>6, MadeStep
<1>3. ASSUME NEW r \in Runs, NEW s \in Shards, PinShard(r, s) PROVE MadeInv'
  <2> DEFINE run == runs[r]
  <2> DEFINE object == UpdatedShard(run.root, run.candidate, s)
  <2>1. catalogs' = catalogs \cup {object} /\ UNCHANGED <<payloads, screens, manifests>>
    BY <1>3 DEF PinShard
  <2>2. run.root \in manifests /\ run.candidate \in CandidateType
    BY RunFacts
  <2>3. object.release = ReleaseOf(run.root, run.candidate) /\ object.shard = s
    BY DEF UpdatedShard
  <2>4. ShardFrom(object)
    BY <2>2, <2>3 DEF ShardFrom
  <2> HIDE DEF object
  <2>5. Unique'
    BY <2>1 DEF MadeInv, Unique
  <2>6. Grows
    BY <1>3 DEF PinShard, Grows
  <2> QED BY <2>1, <2>4, <2>5, <2>6, MadeStep
<1>4. ASSUME NEW r \in Runs, PinScreen(r) PROVE MadeInv'
  <2> DEFINE run == runs[r]
  <2> DEFINE object == UpdatedScreen(run.root, run.candidate)
  <2>1. screens' = screens \cup {object} /\ UNCHANGED <<payloads, catalogs, manifests>>
    BY <1>4 DEF PinScreen
  <2>2. run.root \in manifests /\ run.candidate \in CandidateType
    BY RunFacts
  <2>3. object.release = ReleaseOf(run.root, run.candidate)
    BY DEF UpdatedScreen
  <2>4. ScreenFrom(object)
    BY <2>2, <2>3 DEF ScreenFrom
  <2> HIDE DEF object
  <2>5. Unique'
    BY <2>1 DEF MadeInv, Unique
  <2>6. Grows
    BY <1>4 DEF PinScreen, Grows
  <2> QED BY <2>1, <2>4, <2>5, <2>6, MadeStep
<1>5. ASSUME NEW r \in Runs, PinManifest(r) PROVE MadeInv'
  <2> DEFINE run == runs[r]
  <2> DEFINE object == Composed(run)
  <2>1. /\ manifests' = manifests \cup {object} /\ UNCHANGED <<payloads, catalogs, screens>>
        /\ \A held \in manifests : held.release = object.release => held = object
    BY <1>5 DEF PinManifest, ManifestTaken, RunRoot, Composed
  <2>2. run.root \in manifests /\ run.candidate \in CandidateType
    BY RunFacts
  <2>3. object = UpdatedRoot(run.root, object.previous, run.candidate)
    <3>1. object.previous = run.previous
      BY UpdatedFields DEF Composed
    <3> QED BY <3>1 DEF Composed
  <2> HIDE DEF object
  <2>4. RootFrom(object)
    BY <2>2, <2>3 DEF RootFrom
  <2>5. Unique'
    <3>1. \A m, n \in manifests \cup {object} : m.release = n.release => m = n
      BY <2>1 DEF MadeInv, Unique
    <3> QED BY <3>1, <2>1 DEF Unique
  <2>6. Grows
    BY <1>5 DEF PinManifest, Grows
  <2> QED BY <2>1, <2>4, <2>5, <2>6, MadeStep
<1>6. CASE \E deployed \in receipts : Override(deployed)
  BY <1>6, OverrideMade, NextGrows DEF Next
<1>7. CASE ChangeEngine \/ UNCHANGED vars
  BY <1>1, <1>7 DEF ChangeEngine, vars, bucket
<1>8. ASSUME NEW r \in Runs, Update(r) PROVE MadeInv'
  <2>1. CASE \E root, original \in receipts, k \in Candidates : Start(r, root, original, k)
    BY <2>1, <1>1 DEF Start, bucket
  <2>2. CASE FileReceipt(r) \/ Conflict(r) \/ Refuse(r) \/ Crash(r)
    BY <2>2, <1>1 DEF FileReceipt, Conflict, Refuse, Crash, bucket
  <2> QED BY <1>8, <2>1, <2>2, <1>2, <1>3, <1>4, <1>5 DEF Update
<1> QED BY <1>6, <1>7, <1>8 DEF Next

\* Of the objects a run finds taken, only the manifest can be.
LEMMA TakenIsManifest ==
  ASSUME Inv, MadeInv, NEW r \in Runs, Taken(r)
  PROVE  \E m \in manifests :
           m.release = RunRoot(r).release /\ m.previous # RunRoot(r).previous
<1> DEFINE root == runs[r].root
<1> DEFINE k == runs[r].candidate
<1>1. root \in manifests /\ k \in CandidateType
  BY RunFacts
<1>2. /\ \A p \in payloads : p.release = ReleaseOf(root, k) => p = Rebuilt(root, k, p.company)
      /\ \A object \in catalogs :
           object.release = ReleaseOf(root, k) => object = UpdatedShard(root, k, object.shard)
      /\ \A screen \in screens :
           screen.release = ReleaseOf(root, k) => screen = UpdatedScreen(root, k)
      /\ \A m \in manifests :
           m.release = ReleaseOf(root, k) => m = UpdatedRoot(root, m.previous, k)
  BY <1>1, WrittenBefore
<1>3. ManifestTaken(r)
  BY <1>2 DEF Taken
<1>4. PICK held \in manifests : held.release = RunRoot(r).release /\ held # RunRoot(r)
  BY <1>3 DEF ManifestTaken
<1>5. RunRoot(r) = UpdatedRoot(root, runs[r].previous, k)
  BY DEF RunRoot
<1>6. RunRoot(r).release = ReleaseOf(root, k) /\ RunRoot(r).previous = runs[r].previous
  BY <1>5, UpdatedFields
<1>7. held = UpdatedRoot(root, held.previous, k)
  BY <1>2, <1>4, <1>6
<1>8. held.previous # runs[r].previous
  BY <1>4, <1>5, <1>7
<1> QED BY <1>4, <1>6, <1>8

LEMMA NextConflict ==
  Inv /\ MadeInv /\ ConflictMeansOtherOriginal /\ [Next]_vars => ConflictMeansOtherOriginal'
<1> SUFFICES ASSUME Inv, MadeInv, ConflictMeansOtherOriginal, [Next]_vars,
                    NEW r \in Runs, runs'[r].phase = "conflict"
             PROVE  \E m \in manifests' :
                      m.release = RunRoot(r)'.release /\ m.previous # RunRoot(r)'.previous
  BY DEF ConflictMeansOtherOriginal
<1>1. manifests \subseteq manifests'
  BY NextGrows DEF Grows, vars, bucket
<1>2. runs \in [Runs -> RunRecords]
  BY DEF Inv, TypeOK
<1>3. CASE runs'[r] = runs[r]
  <2>1. RunRoot(r)' = RunRoot(r)
    BY <1>3 DEF RunRoot
  <2> QED BY <2>1, <1>1, <1>3 DEF ConflictMeansOtherOriginal
<1>4. CASE Conflict(r)
  <2>1. /\ runs'[r].root = runs[r].root /\ runs'[r].previous = runs[r].previous
        /\ runs'[r].candidate = runs[r].candidate
    BY <1>2, <1>4 DEF Conflict, RunRecords
  <2>2. RunRoot(r)' = RunRoot(r)
    BY <2>1 DEF RunRoot
  <2>3. Taken(r)
    BY <1>4 DEF Conflict
  <2> QED BY <2>2, <2>3, <1>1, TakenIsManifest
<1>5. ASSUME NEW q \in Runs, Update(q) PROVE runs'[r] = runs[r] \/ Conflict(r)
  <2>1. CASE q # r
    <3>1. CASE \E root, original \in receipts, k \in Candidates : Start(q, root, original, k)
      BY <3>1, <2>1, <1>2 DEF Start
    <3>2. CASE \E c \in Companies : PinCompany(q, c)
      BY <3>2, <2>1, <1>2 DEF PinCompany
    <3>3. CASE \E s \in Shards : PinShard(q, s)
      BY <3>3, <2>1, <1>2 DEF PinShard
    <3>4. CASE PinScreen(q) \/ PinManifest(q)
      BY <3>4, <2>1, <1>2 DEF PinScreen, PinManifest, Step
    <3>5. CASE FileReceipt(q) \/ Conflict(q) \/ Refuse(q) \/ Crash(q)
      BY <3>5, <2>1, <1>2 DEF FileReceipt, Conflict, Refuse, Crash
    <3> QED BY <1>5, <3>1, <3>2, <3>3, <3>4, <3>5 DEF Update
  <2>2. CASE q = r
    <3>1. CASE \E root, original \in receipts, k \in Candidates : Start(r, root, original, k)
      BY <3>1, <1>2 DEF Start
    <3>2. CASE \E c \in Companies : PinCompany(r, c)
      <4>1. PICK c \in Companies : PinCompany(r, c)
        BY <3>2
      <4>2. PICK new : new = [runs[r] EXCEPT
              !.phase = IF runs[r].companies \ {c} = {} THEN "catalog" ELSE "companies",
              !.companies = runs[r].companies \ {c}, !.creates = @ + 1]
        OBVIOUS
      <4>3. runs'[r] = new
        BY <4>1, <4>2, <1>2 DEF PinCompany
      <4>4. new.phase \in {"companies", "catalog"}
        BY <4>2, RunFacts DEF RunRecords
      <4> QED BY <4>3, <4>4
    <3>3. CASE \E s \in Shards : PinShard(r, s)
      <4>1. PICK s \in Shards : PinShard(r, s)
        BY <3>3
      <4>2. PICK new : new = [runs[r] EXCEPT
              !.phase = IF runs[r].shards \ {s} = {} THEN "screen" ELSE "catalog",
              !.shards = runs[r].shards \ {s}, !.creates = @ + 1]
        OBVIOUS
      <4>3. runs'[r] = new
        BY <4>1, <4>2, <1>2 DEF PinShard
      <4>4. new.phase \in {"catalog", "screen"}
        BY <4>2, RunFacts DEF RunRecords
      <4> QED BY <4>3, <4>4
    <3>4. CASE PinScreen(r) \/ PinManifest(r)
      BY <3>4, <1>2 DEF PinScreen, PinManifest, Step, RunRecords
    <3>5. CASE FileReceipt(r) \/ Refuse(r) \/ Crash(r)
      BY <3>5, <1>2 DEF FileReceipt, Refuse, Crash, Idle
    <3> QED BY <1>5, <2>2, <3>1, <3>2, <3>3, <3>4, <3>5 DEF Update
  <2> QED BY <2>1, <2>2
<1>6. CASE ChangeEngine \/ (\E deployed \in receipts : Override(deployed)) \/ UNCHANGED vars
  <2>1. runs' = runs
    BY <1>6 DEF ChangeEngine, Override, vars
  <2> QED BY <2>1, <1>3
<1> QED BY <1>3, <1>4, <1>5, <1>6 DEF Next

(* Reruns of the same inputs never meet their own objects with other       *)
(* bytes; a conflict shows that another original root was named.           *)
THEOREM ConflictCorrect == Spec => []ConflictMeansOtherOriginal
<1>1. Init => ConflictMeansOtherOriginal
  BY DEF Init, Idle, ConflictMeansOtherOriginal
<1> QED BY <1>1, InitInv, InitMade, NextInv, NextMade, NextConflict, PTL DEF Spec
=============================================================================
