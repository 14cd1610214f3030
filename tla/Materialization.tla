---------------------------- MODULE Materialization ----------------------------
(***************************************************************************)
(* materialize_sec_engine.py, which makes the histories of the companies   *)
(* of an archive in a local directory, and the gates of                    *)
(* publish_sec_engine.py, which publishes them (how is in Publication).    *)
(*                                                                         *)
(* Four tasks extract the members of the archive, each only when its file  *)
(* does not exist; the main thread takes them in order.  Files are written *)
(* in place, and a kill during a write leaves a part of it.  The archive   *)
(* is replaced, and the code edited, whenever.                             *)
(*                                                                         *)
(* A member or a history is named by the archive, and the code, it is of.  *)
(***************************************************************************)
EXTENDS Integers, FiniteSets

CONSTANTS
  Companies,               \* 1..N, in the order they are taken
  Unhistoried,             \* those whose facts give no history
  Extractors,              \* tasks of the pool: 4
  MaxArchive, MaxCode,     \* bounds: archives, editions of the code
  MaxBuilds                \* bound: builds

ASSUME MaterializationAssumption ==
  /\ IsFiniteSet(Companies) /\ Companies = 1..Cardinality(Companies)
  /\ Unhistoried \subseteq Companies
  /\ {Extractors, MaxArchive, MaxCode, MaxBuilds} \subseteq Nat \ {0}

VARIABLES
  archive,     \* the archive in the bucket
  directory,   \* the archive that archive-directory.json lists
  code,        \* the checkout
  memberFile,  \* <cik>.companyfacts.json
  historyFile, \* <cik>.history.json
  manifestFile, \* engine-manifest.json, if whole
  build,       \* the build under way
  enginePublished, \* what passed the gates of the publisher
  builds

materializationVars ==
  <<archive, directory, code, memberFile, historyFile, manifestFile, build,
    enginePublished, builds>>

NoMember == 0
TornMember == -1
TornHistory == <<TornMember, 0>>

NoBuild == [pc |-> "idle", archive |-> 0, code |-> 0, extracting |-> {}, prepared |-> {},
            taken |-> 0, writing |-> FALSE, refs |-> [c \in {} |-> <<>>], quarantined |-> {}]

MaterializationInit ==
  /\ archive = 1 /\ directory = 1 /\ code = 1
  /\ memberFile = [c \in Companies |-> NoMember]
  /\ historyFile = [c \in Companies |-> TornHistory]
  /\ manifestFile = {} /\ build = NoBuild
  /\ enginePublished = {} /\ builds = 0

-----------------------------------------------------------------------------
ReplaceArchive ==
  /\ archive < MaxArchive
  /\ archive' = archive + 1
  /\ UNCHANGED <<directory, code, memberFile, historyFile, manifestFile, build,
                 enginePublished, builds>>

ListArchive ==
  /\ build.pc = "idle" /\ directory # archive
  /\ directory' = archive
  /\ UNCHANGED <<archive, code, memberFile, historyFile, manifestFile, build,
                 enginePublished, builds>>

EditCode ==
  /\ code < MaxCode
  /\ code' = code + 1
  /\ UNCHANGED <<archive, directory, memberFile, historyFile, manifestFile, build,
                 enginePublished, builds>>

\* main up to the pool.  The which is written before the archive is compared with its
\* directory, is read by the publisher as it is: see Engine in PublicationScripts.
StartBuild ==
  /\ build.pc = "idle" /\ builds < MaxBuilds /\ archive = directory
  /\ build' = [NoBuild EXCEPT !.pc = "building", !.archive = directory, !.code = code]
  /\ builds' = builds + 1
  /\ UNCHANGED <<archive, directory, code, memberFile, historyFile, manifestFile, enginePublished>>

\* prepare, up to the write; the pool goes on after the main thread has raised.  A member that
\* cannot be read any more, because the archive was replaced, raises where it is taken.
Prepare(c) ==
  /\ build.pc \in {"building", "raised"}
  /\ c \notin build.prepared \cup build.extracting
  /\ Cardinality(build.extracting) < Extractors
  /\ LET extract == memberFile[c] = NoMember /\ archive = build.archive
     IN  /\ memberFile' = [memberFile EXCEPT ![c] = IF extract THEN TornMember ELSE @]
         /\ build' = [build EXCEPT !.extracting = IF extract THEN @ \cup {c} ELSE @,
                                   !.prepared = IF extract THEN @ ELSE @ \cup {c}]
  /\ UNCHANGED <<archive, directory, code, historyFile, manifestFile, enginePublished,
                 builds>>

Extracted(c) ==
  /\ c \in build.extracting
  /\ memberFile' = [memberFile EXCEPT ![c] = build.archive]
  /\ build' = [build EXCEPT !.extracting = @ \ {c}, !.prepared = @ \cup {c}]
  /\ UNCHANGED <<archive, directory, code, historyFile, manifestFile, enginePublished,
                 builds>>

NextTaken == build.taken + 1

\* Mutant of Intact: that the file is there is enough.
Exists(c) == memberFile[c] # NoMember
\* Length and CRC of the file are those of the directory.
Intact(c) == memberFile[c] = build.archive

\* The main thread begins to write the history of a member, or raises.
TakeMember ==
  /\ build.pc = "building" /\ ~build.writing /\ NextTaken \in build.prepared
  /\ IF Intact(NextTaken)
     THEN /\ historyFile' = [historyFile EXCEPT ![NextTaken] = TornHistory]
          /\ build' = [build EXCEPT !.writing = TRUE]
     ELSE /\ build' = [build EXCEPT !.pc = "raised"]
          /\ UNCHANGED historyFile
  /\ UNCHANGED <<archive, directory, code, memberFile, manifestFile, enginePublished,
                 builds>>

\* The history is written, and the company listed or quarantined.
RecordHistory ==
  /\ build.pc = "building" /\ build.writing
  /\ LET c == NextTaken
         made == <<memberFile[c], build.code>>
         done == [build EXCEPT !.taken = c, !.writing = FALSE]
     IN  /\ historyFile' = [historyFile EXCEPT ![c] = made]
         /\ build' = IF c \in Unhistoried THEN [done EXCEPT !.quarantined = @ \cup {c}]
                     ELSE [done EXCEPT !.refs = [d \in DOMAIN @ \cup {c} |->
                                                   IF d = c THEN made ELSE @[d]]]
  /\ UNCHANGED <<archive, directory, code, memberFile, manifestFile, enginePublished,
                 builds>>

\* engine-manifest.json is opened for writing, and holds nothing.
OpenManifest ==
  /\ build.pc = "building" /\ NextTaken \notin Companies
  /\ manifestFile' = {}
  /\ build' = [build EXCEPT !.pc = "manifest"]
  /\ UNCHANGED <<archive, directory, code, memberFile, historyFile, enginePublished,
                 builds>>

WriteManifest ==
  /\ build.pc = "manifest"
  /\ manifestFile' = {[archive |-> build.archive, code |-> build.code, refs |-> build.refs,
                       quarantined |-> build.quarantined]}
  /\ build' = NoBuild
  /\ UNCHANGED <<archive, directory, code, memberFile, historyFile, enginePublished,
                 builds>>

\* The pool has nothing left to do: the process that raised ends.
EndRaised ==
  /\ build.pc = "raised" /\ build.prepared = Companies
  /\ build' = NoBuild
  /\ UNCHANGED <<archive, directory, code, memberFile, historyFile, manifestFile,
                 enginePublished, builds>>

KillBuild ==
  /\ build.pc # "idle"
  /\ build' = NoBuild
  /\ UNCHANGED <<archive, directory, code, memberFile, historyFile, manifestFile,
                 enginePublished, builds>>

\* publish_sec_engine: every history is the one its manifest refers to.
PublishEngine ==
  /\ \E m \in manifestFile :
       /\ \A c \in DOMAIN m.refs : historyFile[c] = m.refs[c]
       /\ enginePublished' = enginePublished \cup {[manifest |-> m,
            histories |-> [c \in DOMAIN m.refs |-> historyFile[c]]]}
  /\ enginePublished' # enginePublished
  /\ UNCHANGED <<archive, directory, code, memberFile, historyFile, manifestFile, build,
                 builds>>

MaterializationNext ==
  \/ ReplaceArchive \/ ListArchive \/ EditCode \/ StartBuild
  \/ \E c \in Companies : Prepare(c) \/ Extracted(c)
  \/ TakeMember \/ RecordHistory \/ OpenManifest \/ WriteManifest \/ EndRaised \/ KillBuild \/ PublishEngine

MaterializationSpec == MaterializationInit /\ [][MaterializationNext]_materializationVars

-----------------------------------------------------------------------------
\* Whatever was killed and run again in the same directory, with the archive replaced or the code
\* edited in between, the histories of a published release are all made by the code, and of whole
\* members of the archive, that its identity is a digest of; and no company of it is left out.
MaterializedIsOfItsRelease ==
  \A p \in enginePublished :
    LET m == p.manifest
    IN  /\ \A c \in DOMAIN p.histories : p.histories[c] = <<m.archive, m.code>>
        /\ DOMAIN p.histories = Companies \ Unhistoried /\ m.quarantined = Unhistoried
================================================================================
