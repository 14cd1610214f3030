------------------------------ MODULE LocalBuilds ------------------------------
(***************************************************************************)
(* What an operator builds in local directories before it is published:    *)
(* the histories of an engine release and the series of a historical one,  *)
(* each in a directory of its own.                                         *)
(***************************************************************************)
EXTENDS Materialization, Acquisition

LocalBuildsSpec == MaterializationSpec /\ AcquisitionSpec

\* What an operator builds in a local directory and publishes is whole, and of the sources its
\* identity names, however often the build was killed, failed and was run again
\* (materialize_sec_engine.py and publish_sec_engine.py, history_store.py and
\* acquire_historical_sources.py).
LocalBuildsAreWhole == MaterializedIsOfItsRelease /\ AcquiredIsWhole
================================================================================
