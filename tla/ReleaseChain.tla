----------------------------- MODULE ReleaseChain -----------------------------
(***************************************************************************)
(* How one release of the SEC engine is made from another                  *)
(* (sec_incremental_update.py, sec_publish_update_release.py,              *)
(* sec_release_promotion.py, build_revenue_override_candidate.py) and how  *)
(* the Worker reads a company of it (sec_engine_api.company).              *)
(*                                                                         *)
(* The bucket is create-only.  A reference holds the digest of the object  *)
(* it names, so the model embeds the object: a manifest holds its catalog  *)
(* shards, a shard its items, an item the payload of its company.  The     *)
(* identity of a release is the digest of its parent's manifest and of the *)
(* change made to it: here the path of changes since the materialization.  *)
(*                                                                         *)
(* Operators run updates side by side, on any published parent and with    *)
(* any candidate they retrieved, stop and rerun them.  What a run reads is *)
(* immutable, candidates included, so its reads and gates are one step.    *)
(* The deployed root may be any that has a receipt.                        *)
(***************************************************************************)
EXTENDS Integers, Sequences, FiniteSets

CONSTANTS
  Companies,
  Shards,        \* the partition of the companies into catalog shards
  Pinned,        \* the company of the revenue pin (WMT)
  Runs,          \* runs of publish_update
  Candidates,    \* candidate directories: what operators have retrieved
  ArchiveAsOf,   \* filings the archive holds: maximum_as_of of every root
  MaxCreates,    \* Budget.maximum_creates
  MaxRegistry,   \* bound: changes of the engine, hence of the registry
  MaxReleases,   \* bound: no run starts when so many are published
  MaxStarts      \* bound: updates started, reruns included

\* What companyfacts holds of a company: how many filings, and whether a fact
\* of the archive has been restated.
Snapshot == [filed : Nat, restated : BOOLEAN]
CandidateType == [companies : SUBSET Companies, snapshots : [Companies -> Snapshot]]

ASSUME ChainAssumption ==
  /\ UNION Shards = Companies
  /\ \A s, t \in Shards : s # t => s \cap t = {}
  /\ Pinned \in Companies
  /\ ArchiveAsOf \in Nat /\ MaxRegistry \in Nat /\ MaxCreates \in Nat
  /\ Candidates \subseteq CandidateType

VARIABLES
  code,       \* the engine of the checkout, by the registry it belongs to
  payloads,   \* companies/ of all releases in the bucket,
  catalogs,   \* catalog/,
  screens,    \* screen/
  manifests,  \* and manifest.json
  receipts,   \* the roots that have a publication.json
  runs,       \* the updates under way
  starts      \* updates started so far

bucket == <<payloads, catalogs, screens, manifests>>
vars == <<code, bucket, receipts, runs, starts>>

-----------------------------------------------------------------------------
(* Releases.                                                               *)
Change == [kind : {"universe", "update", "override"},
           candidate : CandidateType, registry : Nat]
Releases == Seq(Change)

Payloads == [release : Releases, company : Companies, registry : Nat, snapshot : Snapshot]
\* maximum_as_of of an item that an update has rebuilt; others have none.
Ceilings == [own : {FALSE}, filed : {0}] \cup [own : {TRUE}, filed : Nat]
Items == [payload : Payloads, ceiling : Ceilings]
ShardObjects(s) == [release : Releases, shard : {s}, items : [s -> Items]]
Screens == [release : Releases, registry : Nat, rows : [Companies -> Payloads]]
RegistryChanges == [affected : SUBSET Companies, from : Nat, to : Nat]

ShardOf(c) == CHOOSE s \in Shards : c \in s
Item(m, c) == m.catalog[ShardOf(c)].items[c]

-----------------------------------------------------------------------------
(* The first root: the universe publication over its materialization.      *)
Archived == [filed |-> ArchiveAsOf, restated |-> FALSE]
Materialization == << >>
Nothing == [companies |-> {}, snapshots |-> [c \in Companies |-> Archived]]
Universe == << [kind |-> "universe", candidate |-> Nothing, registry |-> 0] >>

ArchivePayload(c) ==
  [release |-> Materialization, company |-> c, registry |-> 0, snapshot |-> Archived]

\* What a payload shows as of the archive's cutoff (maximum_as_of of every root): the facts
\* that were filed by then, and revenue as the engine defines it.  An engine redefines the
\* revenue of the pinned company only.
ArchiveHistory(p) ==
  [restated |-> p.snapshot.restated,
   revenue |-> IF p.company = Pinned THEN p.registry ELSE 0]

NoCeiling == [own |-> FALSE, filed |-> 0]

ArchiveShard(s) ==
  [release |-> Universe, shard |-> s,
   items |-> [c \in s |-> [payload |-> ArchivePayload(c), ceiling |-> NoCeiling]]]

UniverseRoot ==
  [release |-> Universe, registry |-> 0,
   sources |-> {Materialization}, previous |-> {},
   catalog |-> [s \in Shards |-> ArchiveShard(s)],
   screen |-> [release |-> Universe, registry |-> 0,
               rows |-> [c \in Companies |-> ArchivePayload(c)]],
   change |-> {}]

-----------------------------------------------------------------------------
(* What publish_update composes from a root and a candidate.               *)
ReleaseOf(root, k) ==
  Append(root.release, [kind |-> "update", candidate |-> k, registry |-> root.registry])

Rebuilt(root, k, c) ==
  [release |-> ReleaseOf(root, k), company |-> c,
   registry |-> root.registry, snapshot |-> k.snapshots[c]]

UpdatedItem(root, k, c) ==
  [payload |-> Rebuilt(root, k, c), ceiling |-> [own |-> TRUE, filed |-> k.snapshots[c].filed]]

ChangedShards(k) == {s \in Shards : s \cap k.companies # {}}

UpdatedShard(root, k, s) ==
  [release |-> ReleaseOf(root, k), shard |-> s,
   items |-> [c \in s |-> IF c \in k.companies THEN UpdatedItem(root, k, c)
                          ELSE root.catalog[s].items[c]]]

\* Mutant of UpdatedScreen: the rows of the parent are stamped anew.
UpdatedScreenStale(root, k) ==
  [release |-> ReleaseOf(root, k), registry |-> root.registry, rows |-> root.screen.rows]

UpdatedScreen(root, k) ==
  [release |-> ReleaseOf(root, k), registry |-> root.registry,
   rows |-> [c \in Companies |-> IF c \in k.companies THEN Rebuilt(root, k, c)
                                 ELSE root.screen.rows[c]]]

PreviousOf(root, original) == root.previous \cup {root.release, original.release}

SourcesOf(root, k) == root.sources \cup {ReleaseOf(root, k)}

\* Mutant of ChangeOf: the record of an earlier change of the registry is not handed on.
ChangeForgotten(root) == {}

\* new = dict(root, ...): every field that is not set is that of the parent.
ChangeOf(root) == root.change

UpdatedRoot(root, previous, k) ==
  [release |-> ReleaseOf(root, k), registry |-> root.registry,
   sources |-> SourcesOf(root, k),
   previous |-> previous,
   catalog |-> [s \in Shards |-> IF s \in ChangedShards(k) THEN UpdatedShard(root, k, s)
                                 ELSE root.catalog[s]],
   screen |-> UpdatedScreen(root, k),
   change |-> ChangeOf(root)]

\* Mutant of Admitted: the histories of the archive's cutoff are not compared.
AdmittedUnread(root, k) ==
  \A c \in k.companies :
    /\ Item(root, c).payload.release \in root.sources
    /\ k.snapshots[c].filed >= ArchiveAsOf

\* What has to hold of every company before anything is written.
Admitted(root, k) ==
  \A c \in k.companies :
    LET prior == Item(root, c).payload IN
      /\ prior.release \in root.sources
      /\ k.snapshots[c].filed >= ArchiveAsOf
      /\ ArchiveHistory(Rebuilt(root, k, c)) = ArchiveHistory(prior)

\* SCREEN_CONTEXT_MISMATCH
ScreenContext(root) ==
  root.screen.release = root.release /\ root.screen.registry = root.registry

-----------------------------------------------------------------------------
(* What build_revenue_override_candidate composes.  Only the pinned        *)
(* company is rebuilt; the others keep payloads of the earlier registry.   *)
OverrideRelease(root, registry) ==
  Append(root.release, [kind |-> "override", candidate |-> Nothing, registry |-> registry])

PinnedPayload(root, registry) ==
  [release |-> OverrideRelease(root, registry), company |-> Pinned,
   registry |-> registry, snapshot |-> Item(root, Pinned).payload.snapshot]

PinnedShard(root, registry) ==
  [release |-> OverrideRelease(root, registry), shard |-> ShardOf(Pinned),
   items |-> [root.catalog[ShardOf(Pinned)].items EXCEPT
                ![Pinned] = [payload |-> PinnedPayload(root, registry), ceiling |-> @.ceiling]]]

PinnedScreen(root, registry) ==
  [release |-> OverrideRelease(root, registry), registry |-> registry,
   rows |-> [root.screen.rows EXCEPT ![Pinned] = PinnedPayload(root, registry)]]

OverriddenRoot(root, registry) ==
  [release |-> OverrideRelease(root, registry), registry |-> registry,
   sources |-> root.sources \cup {OverrideRelease(root, registry)},
   previous |-> root.previous \cup {root.release},
   catalog |-> [root.catalog EXCEPT ![ShardOf(Pinned)] = PinnedShard(root, registry)],
   screen |-> PinnedScreen(root, registry),
   change |-> {[affected |-> {Pinned}, from |-> root.registry, to |-> registry]}]

-----------------------------------------------------------------------------
(* The Worker.  resolves: approved_release of an id other than the root's. *)
ExpectedRegistry(m, c) ==
  LET inherited == {change \in m.change : c \notin change.affected /\ change.to = m.registry} IN
  IF Item(m, c).payload.release # m.release /\ inherited # {}
  THEN (CHOOSE change \in inherited : TRUE).from
  ELSE m.registry

Served(m, c) ==
  LET payload == Item(m, c).payload IN
  /\ m.catalog[ShardOf(c)] \in catalogs
  /\ payload \in payloads
  /\ payload.release = m.release \/ payload.release \in m.sources
  /\ payload.registry = ExpectedRegistry(m, c)
  /\ payload.company = c

Resolves(m, release) ==
  /\ release \in m.previous
  /\ \E old \in manifests : old.release = release

-----------------------------------------------------------------------------
Ended == {"idle", "conflict"}
Writing == {"companies", "catalog", "screen", "manifest"}
Phases == Ended \cup Writing \cup {"receipt"}

Idle == [phase |-> "idle", root |-> UniverseRoot, previous |-> {},
         candidate |-> Nothing, companies |-> {}, shards |-> {}, creates |-> 0]

Init ==
  /\ code = 0
  /\ payloads = {ArchivePayload(c) : c \in Companies}
  /\ catalogs = {ArchiveShard(s) : s \in Shards}
  /\ screens = {UniverseRoot.screen}
  /\ manifests = {UniverseRoot}
  /\ receipts = {UniverseRoot}
  /\ runs = [r \in Runs |-> Idle]
  /\ starts = 0

-----------------------------------------------------------------------------
\* A change of sec_engine.py is merged.
ChangeEngine ==
  /\ code < MaxRegistry
  /\ code' = code + 1
  /\ UNCHANGED <<bucket, receipts, runs, starts>>

-----------------------------------------------------------------------------
(* One run of publish_update.                                              *)
Start(r, root, original, k) ==
  /\ runs[r].phase \in Ended
  /\ starts < MaxStarts /\ Cardinality(manifests) < MaxReleases
  /\ root.registry = code
  /\ k.companies # {}
  /\ Admitted(root, k)
  /\ runs' = [runs EXCEPT ![r] =
       [phase |-> "companies", root |-> root,
        previous |-> PreviousOf(root, original), candidate |-> k,
        companies |-> k.companies, shards |-> ChangedShards(k), creates |-> 0]]
  /\ starts' = starts + 1
  /\ UNCHANGED <<code, bucket, receipts>>

WithinBudget(r) == runs[r].creates < MaxCreates

Step(r, phase) == runs' = [runs EXCEPT ![r].phase = phase, ![r].creates = @ + 1]

\* Mutant of PinCompany: the first company is taken for the last.
PinCompanyOnce(r, c) ==
  LET run == runs[r] IN
  /\ run.phase = "companies" /\ c \in run.companies /\ WithinBudget(r)
  /\ payloads' = payloads \cup {Rebuilt(run.root, run.candidate, c)}
  /\ runs' = [runs EXCEPT ![r].phase = "catalog", ![r].companies = {}, ![r].creates = @ + 1]
  /\ UNCHANGED <<code, catalogs, screens, manifests, receipts, starts>>

\* pin: reserve, create unless the key exists, and compare what is there.
PinCompany(r, c) ==
  LET run == runs[r]
      object == Rebuilt(run.root, run.candidate, c)
      left == run.companies \ {c}
  IN
  /\ run.phase = "companies" /\ c \in run.companies /\ WithinBudget(r)
  /\ \A held \in payloads :
       held.release = object.release /\ held.company = c => held = object
  /\ payloads' = payloads \cup {object}
  /\ runs' = [runs EXCEPT ![r].phase = IF left = {} THEN "catalog" ELSE "companies",
                          ![r].companies = left, ![r].creates = @ + 1]
  /\ UNCHANGED <<code, catalogs, screens, manifests, receipts, starts>>

PinShard(r, s) ==
  LET run == runs[r]
      object == UpdatedShard(run.root, run.candidate, s)
      left == run.shards \ {s}
  IN
  /\ run.phase = "catalog" /\ s \in run.shards /\ WithinBudget(r)
  /\ \A held \in catalogs :
       held.release = object.release /\ held.shard = s => held = object
  /\ catalogs' = catalogs \cup {object}
  /\ runs' = [runs EXCEPT ![r].phase = IF left = {} THEN "screen" ELSE "catalog",
                          ![r].shards = left, ![r].creates = @ + 1]
  /\ UNCHANGED <<code, payloads, screens, manifests, receipts, starts>>

PinScreen(r) ==
  LET run == runs[r]
      object == UpdatedScreen(run.root, run.candidate)
  IN
  /\ run.phase = "screen" /\ WithinBudget(r) /\ ScreenContext(run.root)
  /\ \A held \in screens : held.release = object.release => held = object
  /\ screens' = screens \cup {object}
  /\ Step(r, "manifest")
  /\ UNCHANGED <<code, payloads, catalogs, manifests, receipts, starts>>

RunRoot(r) == UpdatedRoot(runs[r].root, runs[r].previous, runs[r].candidate)

\* The manifest of the release is there, and it is another one.
ManifestTaken(r) ==
  \E held \in manifests : held.release = RunRoot(r).release /\ held # RunRoot(r)

PinManifest(r) ==
  /\ runs[r].phase = "manifest" /\ WithinBudget(r)
  /\ ~ManifestTaken(r)
  /\ manifests' = manifests \cup {RunRoot(r)}
  /\ Step(r, "receipt")
  /\ UNCHANGED <<code, payloads, catalogs, screens, receipts, starts>>

\* Some object that is next under the run's prefix is there with other bytes.
Taken(r) ==
  LET run == runs[r]
      release == ReleaseOf(run.root, run.candidate)
  IN
  CASE run.phase = "companies" -> \E held \in payloads :
         /\ held.release = release /\ held.company \in run.companies
         /\ held # Rebuilt(run.root, run.candidate, held.company)
    [] run.phase = "catalog" -> \E held \in catalogs :
         /\ held.release = release /\ held.shard \in run.shards
         /\ held # UpdatedShard(run.root, run.candidate, held.shard)
    [] run.phase = "screen" -> \E held \in screens :
         held.release = release /\ held # UpdatedScreen(run.root, run.candidate)
    [] run.phase = "manifest" -> ManifestTaken(r)
    [] OTHER -> FALSE

Conflict(r) ==
  /\ WithinBudget(r) /\ Taken(r)
  /\ runs' = [runs EXCEPT ![r].phase = "conflict"]
  /\ UNCHANGED <<code, bucket, receipts, starts>>

\* PUBLICATION_BUDGET or SCREEN_CONTEXT_MISMATCH, with objects written already.
Refusable(r) ==
  ~WithinBudget(r) \/ (runs[r].phase = "screen" /\ ~ScreenContext(runs[r].root))

Refuse(r) ==
  /\ runs[r].phase \in Writing /\ Refusable(r)
  /\ runs' = [runs EXCEPT ![r] = Idle]
  /\ UNCHANGED <<code, bucket, receipts, starts>>

\* serving-manifest.json and publication.json of the run.
FileReceipt(r) ==
  /\ runs[r].phase = "receipt"
  /\ receipts' = receipts \cup {RunRoot(r)}
  /\ runs' = [runs EXCEPT ![r] = Idle]
  /\ UNCHANGED <<code, bucket, starts>>

\* The process ends, or a request fails, before or after it took effect.
Crash(r) ==
  /\ runs[r].phase \notin Ended
  /\ runs' = [runs EXCEPT ![r] = Idle]
  /\ UNCHANGED <<code, bucket, receipts, starts>>

Update(r) ==
  \/ \E root, original \in receipts, k \in Candidates : Start(r, root, original, k)
  \/ \E c \in Companies : PinCompany(r, c)
  \/ \E s \in Shards : PinShard(r, s)
  \/ PinScreen(r) \/ PinManifest(r) \/ FileReceipt(r)
  \/ Conflict(r) \/ Refuse(r) \/ Crash(r)

-----------------------------------------------------------------------------
(* The override of the deployed root, once the engine has changed.  Its    *)
(* first gate rebuilds the pinned company without the pin and has to find  *)
(* the payload that is deployed, which only one of the archive passes.     *)
(* The objects stay local; that they are uploaded is up to the rollout.    *)
Override(deployed) ==
  LET root == OverriddenRoot(deployed, code) IN
  /\ Cardinality(manifests) < MaxReleases
  /\ deployed.registry # code
  /\ Item(deployed, Pinned).payload.release = Materialization
  /\ ScreenContext(deployed)
  /\ payloads' = payloads \cup {Item(root, Pinned).payload}
  /\ catalogs' = catalogs \cup {root.catalog[ShardOf(Pinned)]}
  /\ screens' = screens \cup {root.screen}
  /\ manifests' = manifests \cup {root}
  /\ receipts' = receipts \cup {root}
  /\ UNCHANGED <<code, runs, starts>>

Next ==
  \/ ChangeEngine
  \/ \E r \in Runs : Update(r)
  \/ \E deployed \in receipts : Override(deployed)

Spec == Init /\ [][Next]_vars

-----------------------------------------------------------------------------
(* Every variable keeps its type.                                          *)
ManifestOK(m) ==
  /\ m.release \in Releases /\ m.registry \in Nat
  /\ m.sources \subseteq Releases /\ m.previous \subseteq Releases
  /\ DOMAIN m.catalog = Shards
  /\ \A s \in Shards : m.catalog[s] \in ShardObjects(s)
  /\ m.screen \in Screens
  /\ m.change \subseteq RegistryChanges

RunRecords == [phase : Phases, root : manifests, previous : SUBSET Releases,
               candidate : CandidateType, companies : SUBSET Companies,
               shards : SUBSET Shards, creates : Nat]

TypeOK ==
  /\ code \in Nat /\ starts \in Nat
  /\ payloads \subseteq Payloads
  /\ \A object \in catalogs : \E s \in Shards : object \in ShardObjects(s)
  /\ screens \subseteq Screens
  /\ \A m \in manifests : ManifestOK(m)
  /\ runs \in [Runs -> RunRecords]

(* Whoever finds a manifest finds all of the release: every shard, payload *)
(* and screen it refers to is in the bucket, its own and what it inherits, *)
(* whichever runs were stopped, refused or wrote the same release.  Roots  *)
(* with a receipt, the deployed one among them, are in the bucket.         *)
RootsAreWhole ==
  /\ \A m \in manifests :
       /\ \A s \in Shards : m.catalog[s] \in catalogs
       /\ \A c \in Companies : Item(m, c).payload \in payloads
       /\ m.screen \in screens
  /\ receipts \subseteq manifests

(* A release id that an answer carried still resolves through any later    *)
(* root of its path (previous_releases): a cursor or a citation taken      *)
(* before an update or an override does not dangle after it.               *)
AncestorsResolve ==
  \A m \in manifests : \A i \in 1..Len(m.release) - 1 :
    Resolves(m, SubSeq(m.release, 1, i))

(* The screen of a root shows the very payloads its catalog serves: a      *)
(* company is not screened on values other than its history.               *)
ScreenFollowsCatalog ==
  \A m \in manifests : \A c \in Companies :
    m.screen.rows[c] = Item(m, c).payload

\* The changes of the registry that a root declares for a company (registry_change).
DeclaredFor(m, c) == {change \in m.change : c \in change.affected}

(* As of the archive's cutoff every root shows of every company what the   *)
(* first one showed, through any number of updates, restatements at the    *)
(* SEC and changes of the engine; but for the companies of a change that   *)
(* the root itself declares, of which only the revenue differs, and is     *)
(* that of the registry it declares.  (Module doc of                       *)
(* sec_publish_update_release: "Prior-cutoff histories must reproduce      *)
(* exactly"; an override changes the history of its company at the same    *)
(* cutoff, build_revenue_override_candidate.py:282-300.)                   *)
ArchiveReproduces ==
  \A m \in manifests : \A c \in Companies :
    LET shown == ArchiveHistory(Item(m, c).payload)
        first == ArchiveHistory(ArchivePayload(c))
    IN
    /\ DeclaredFor(m, c) = {} => shown = first
    /\ \A change \in DeclaredFor(m, c) : shown = [restated |-> first.restated, revenue |-> change.to]

(* The Worker serves every company of every root, except a company that an *)
(* update rebuilt under the registry of an override and that a further     *)
(* root inherits.  (The exception is the disagreement EveryCompanyServed   *)
(* shows.)                                                                 *)
RebuiltAfterChange(m, c) ==
  \E change \in m.change :
    /\ c \notin change.affected
    /\ Item(m, c).payload.registry = change.to
    /\ Item(m, c).payload.release # m.release

ServedUnlessRebuilt ==
  \A m \in manifests : \A c \in Companies :
    RebuiltAfterChange(m, c) \/ Served(m, c)

(* A run meets an object of its own release with other bytes only when the *)
(* release was published naming another original root: reruns, and runs    *)
(* side by side, of the same inputs never conflict, and different          *)
(* candidates never share a prefix.                                        *)
ConflictMeansOtherOriginal ==
  \A r \in Runs : runs[r].phase = "conflict" =>
    \E m \in manifests :
      m.release = RunRoot(r).release /\ m.previous # RunRoot(r).previous

(* Nothing in the bucket, and no receipt, is replaced or removed.          *)
ObjectsFinal ==
  [][/\ payloads \subseteq payloads' /\ catalogs \subseteq catalogs'
     /\ screens \subseteq screens' /\ manifests \subseteq manifests'
     /\ receipts \subseteq receipts']_vars

(* An approved inherited payload is served                                 *)
(* (test_approved_inherited_payload_and_previous_release_reproduce): the   *)
(* claim for every root and company.                                       *)
EveryCompanyServed ==
  \A m \in manifests : \A c \in Companies : Served(m, c)
=============================================================================
