------------------------------ MODULE Acquisition ------------------------------
(***************************************************************************)
(* history_store.py and acquire_historical_sources.py: official series are *)
(* fetched into a local directory, task by task, and a release is built of *)
(* them and may be published (how is HistoricalSeries in                   *)
(* PublicationScripts).                                                    *)
(*                                                                         *)
(* A response is kept under its digest, then the checkpoint of its task    *)
(* names it, each file in one rename; a later run takes what a checkpoint  *)
(* names, if it is there and is what its name says.  Somebody may clear    *)
(* raw files away, and a run may be killed between any two steps.          *)
(*                                                                         *)
(* A response is named by its task and edition.                            *)
(***************************************************************************)
EXTENDS Integers, FiniteSets

CONSTANTS
  Tasks,
  Editions,        \* of every source, from 1 on
  Unparsed,        \* <<task, edition>>: responses that no adapter makes observations of
  Fetchers,        \* tasks at a time: --workers
  MaxAcquisitions  \* bound: runs

ASSUME AcquisitionAssumption ==
  /\ Editions \in Nat \ {0} /\ Unparsed \subseteq Tasks \X (1..Editions)
  /\ {Fetchers, MaxAcquisitions} \subseteq Nat \ {0}

VARIABLES
  edition,       \* what each source serves
  rawFiles,      \* raw/<sha256>.bin
  checkpoint,    \* checkpoints/<task>.json: {edition} or {}
  acquisition,   \* the run under way
  seriesBuilt,   \* releases/<id>: the sources of each, and what its series are parsed from
  seriesPublished,
  acquisitions

acquisitionVars ==
  <<edition, rawFiles, checkpoint, acquisition, seriesBuilt, seriesPublished, acquisitions>>

\* Where a task is: [at, edition]; "fetched" and "kept" are between its steps.
Todo == [at |-> "todo", edition |-> 0]
NoAcquisition ==
  [on |-> FALSE, refresh |-> FALSE, publish |-> FALSE, task |-> [t \in Tasks |-> Todo]]

AcquisitionInit ==
  /\ edition = [t \in Tasks |-> 1]
  /\ rawFiles = {} /\ checkpoint = [t \in Tasks |-> {}]
  /\ acquisition = NoAcquisition
  /\ seriesBuilt = {} /\ seriesPublished = {} /\ acquisitions = 0

Move(t, at, e) == acquisition' = [acquisition EXCEPT !.task[t] = [at |-> at, edition |-> e]]

-----------------------------------------------------------------------------
NewEdition(t) ==
  /\ edition[t] < Editions
  /\ edition' = [edition EXCEPT ![t] = @ + 1]
  /\ UNCHANGED <<rawFiles, checkpoint, acquisition, seriesBuilt, seriesPublished, acquisitions>>

ClearRaw ==
  /\ \E raw \in rawFiles : rawFiles' = rawFiles \ {raw}
  /\ UNCHANGED <<edition, checkpoint, acquisition, seriesBuilt, seriesPublished, acquisitions>>

StartAcquisition ==
  /\ ~acquisition.on /\ acquisitions < MaxAcquisitions
  /\ \E refresh, publish \in BOOLEAN :
       acquisition' = [NoAcquisition EXCEPT !.on = TRUE, !.refresh = refresh, !.publish = publish]
  /\ acquisitions' = acquisitions + 1
  /\ UNCHANGED <<edition, rawFiles, checkpoint, seriesBuilt, seriesPublished>>

\* What the checkpoint of a task names, when it is there.
Reusable(t) == {e \in checkpoint[t] : ~acquisition.refresh /\ <<t, e>> \in rawFiles}

\* one: the response is the checkpoint's or the source's, or the source cannot be read, and it is
\* parsed before anything of it is kept.
LookOrFetch(t) ==
  /\ acquisition.on /\ acquisition.task[t].at = "todo"
  /\ Cardinality({u \in Tasks : acquisition.task[u].at \in {"fetched", "kept"}}) < Fetchers
  /\ LET parsed(e) == <<t, e>> \notin Unparsed
     IN  IF Reusable(t) # {}
         THEN \E e \in Reusable(t) : Move(t, IF parsed(e) THEN "done" ELSE "failed", e)
         ELSE \/ Move(t, IF parsed(edition[t]) THEN "fetched" ELSE "failed", edition[t])
              \/ Move(t, "failed", 0)
  /\ UNCHANGED <<edition, rawFiles, checkpoint, seriesBuilt, seriesPublished, acquisitions>>

KeepRaw(t) ==
  /\ acquisition.task[t].at = "fetched"
  /\ rawFiles' = rawFiles \cup {<<t, acquisition.task[t].edition>>}
  /\ Move(t, "kept", acquisition.task[t].edition)
  /\ UNCHANGED <<edition, checkpoint, seriesBuilt, seriesPublished, acquisitions>>

KeepCheckpoint(t) ==
  /\ acquisition.task[t].at = "kept"
  /\ checkpoint' = [checkpoint EXCEPT ![t] = {acquisition.task[t].edition}]
  /\ Move(t, "done", acquisition.task[t].edition)
  /\ UNCHANGED <<edition, rawFiles, seriesBuilt, seriesPublished, acquisitions>>

Succeeded == {t \in Tasks : acquisition.task[t].at = "done"}
Failures == {t \in Tasks : acquisition.task[t].at = "failed"}

\* The release of what succeeded: its sources, and the objects of its series.
ReleaseOf(done) == [t \in done |-> acquisition.task[t].edition]

\* publish refuses what is not finished, or does not find the raw files of the sources.
MayPublish(release) ==
  Failures = {} /\ \A t \in DOMAIN release : <<t, release[t]>> \in rawFiles

\* main, after acquire: a release is built of whatever succeeded.
BuildSeries ==
  /\ acquisition.on /\ Succeeded \cup Failures = Tasks
  /\ LET release == ReleaseOf(Succeeded)
     IN  /\ seriesBuilt' = IF Succeeded = {} THEN seriesBuilt ELSE seriesBuilt \cup {release}
         /\ seriesPublished' =
              IF Succeeded # {} /\ acquisition.publish /\ MayPublish(release)
              THEN seriesPublished \cup {[release |-> release,
                     raws |-> {<<t, release[t]>> : t \in Succeeded} \cap rawFiles]}
              ELSE seriesPublished
  /\ acquisition' = NoAcquisition
  /\ UNCHANGED <<edition, rawFiles, checkpoint, acquisitions>>

KillAcquisition ==
  /\ acquisition.on /\ acquisition' = NoAcquisition
  /\ UNCHANGED <<edition, rawFiles, checkpoint, seriesBuilt, seriesPublished, acquisitions>>

AcquisitionNext ==
  \/ StartAcquisition \/ BuildSeries \/ KillAcquisition \/ ClearRaw
  \/ \E t \in Tasks : NewEdition(t) \/ LookOrFetch(t) \/ KeepRaw(t) \/ KeepCheckpoint(t)

AcquisitionSpec == AcquisitionInit /\ [][AcquisitionNext]_acquisitionVars

-----------------------------------------------------------------------------
\* Whatever was fetched, failed, was killed or cleared away before, a published release has every
\* task, with observations that were parsed, and with the response that each of them is from.
AcquiredIsWhole ==
  \A p \in seriesPublished :
    /\ DOMAIN p.release = Tasks
    /\ \A t \in Tasks : <<t, p.release[t]>> \in p.raws \ Unparsed
================================================================================
