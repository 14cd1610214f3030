--------------------------- MODULE PublicationScripts ---------------------------
(***************************************************************************)
(* The publishing scripts of src/scripts as programs of Publication: the   *)
(* objects of the release, those whose bytes the release identity does not *)
(* cover, and the stages in which they are written.  A set of shards,      *)
(* members or artifacts is represented by one or two of them.              *)
(***************************************************************************)
EXTENDS Publication

Stg(objects, how) == [objects |-> objects, how |-> how]
\* One object after another, in this order.
InTurn(objects, how) == [k \in DOMAIN objects |-> Stg({objects[k]}, how)]
Prog(loose, phases, pointers) ==
  [release |-> UNION {phases[k].objects : k \in DOMAIN phases}, loose |-> loose,
   stages |-> phases, pointers |-> pointers]
Receipt == <<"receipt">>

\* The raw members one by one, then the manifest; both are read back before
\* the receipt.  With references to the archive there are no members to write.
Companyfacts == Prog({}, InTurn(<<"part", "other", "manifest">>, "immutable"), Receipt)
CompanyfactsReferences == Prog({}, InTurn(<<"manifest">>, "immutable"), Receipt)

\* Every gate comes before the first write; the companions in the order of
\* their names, the market manifest that refers to them, the root.
Unified == Prog({}, InTurn(<<"part", "other", "market", "manifest">>, "create"), Receipt)
\* The successor of a unified release: its summary, then its root.
UnifiedSummary == Prog({}, InTurn(<<"part", "manifest">>, "create"), Receipt)

\* Four tasks write the shards of the catalog; the manifest follows them.
Catalog ==
  Prog({}, <<Stg({"part", "other"}, "create"), Stg({"manifest"}, "create")>>, Receipt)
\* The same for the catalog extended by the completed exports; the time of the
\* scan is no part of an object.
CatalogExtension ==
  Prog({}, <<Stg({"part", "other"}, "create"), Stg({"manifest"}, "create")>>, Receipt)

\* Four tasks copy the raw files and the series; the manifest follows them, and each is
\* read back before the receipt.
HistoricalSeries ==
  Prog({}, <<Stg({"part", "other"}, "immutable"), Stg({"manifest"}, "immutable")>>, Receipt)

\* One content-addressed sidecar, uploaded and read back.
Coverage == Prog({}, InTurn(<<"manifest">>, "immutable"), Receipt)

\* Everything in one pool of four, the manifest with the rest.  The companies are
\* compared with their pins; the registry, the directory and the implementation
\* are read from the local directory and the checkout as they are.
Engine ==
  Prog({"other", "implementation", "manifest"},
       <<Stg({"part", "other", "implementation", "manifest"}, "create")>>,
       <<"receipt", "config">>)

\* In turn, the manifest before the registry and the implementation, all of them
\* as the local directory and the checkout have them.
History ==
  Prog({"part", "other", "implementation", "manifest"},
       InTurn(<<"part", "manifest", "other", "implementation">>, "create"),
       <<"receipt", "config">>)

\* The shards, the ticker list and the manifest in one pool of four.
Expanded == Prog({}, <<Stg({"part", "other", "manifest"}, "create")>>, Receipt)

\* The archive of a day is taken as it is when it is stored already; the index of
\* its members and the manifest, which holds the time, are claimed.
BulkRefresh ==
  Prog({"archive", "part", "manifest"},
       <<Stg({"archive"}, "adopt"), Stg({"part"}, "claim"), Stg({"manifest"}, "claim")>>,
       Receipt)

\* The manifest is claimed first, then the artifacts in turn, the summary last.
ReadinessIndex ==
  Prog({}, InTurn(<<"manifest", "part", "other", "summary">>, "claim"), Receipt)

\* The parts in turn, the summary, which holds the time the run took, the manifest:
\* each claimed, and the identity is of the records alone.
ReadinessRecords ==
  Prog({"part", "other", "summary", "manifest"},
       InTurn(<<"part", "other", "summary", "manifest">>, "claim"), Receipt)

\* The shards in turn, then the manifest.
CrspIndex == Prog({}, InTurn(<<"part", "other", "manifest">>, "create"), Receipt)

\* Six tasks write the shards; the manifest follows them.
StockHistoryIndex ==
  Prog({}, <<Stg({"part", "other"}, "create"), Stg({"manifest"}, "create")>>, Receipt)

\* The shards and the manifest in one pool of four.
ProviderPrices == Prog({}, <<Stg({"part", "other", "manifest"}, "create")>>, Receipt)

\* The tree of the source release is copied, its manifest too; then the screen and
\* the manifest of the new release are written over whatever is there, and CURRENT
\* when the operator asked for it.
ScreenRelease ==
  Prog({}, <<Stg({"part", "manifest"}, "foreign"), Stg({"screen"}, "replace"),
             Stg({"manifest"}, "replace")>>, <<"current">>)
\* CURRENT alone, for a candidate the operator says is uploaded.
ScreenPromotion == [ScreenRelease EXCEPT !.stages = <<>>]

ScriptPrograms ==
  {Companyfacts, CompanyfactsReferences, Unified, UnifiedSummary, Catalog, CatalogExtension,
   HistoricalSeries, Coverage, Engine, History, Expanded, BulkRefresh, ReadinessIndex, ReadinessRecords,
   CrspIndex, StockHistoryIndex, ProviderPrices, ScreenRelease, ScreenPromotion}
ScriptObjects == UNION {p.release : p \in ScriptPrograms}
ScriptPointers == {"receipt", "config", "current"}
================================================================================
