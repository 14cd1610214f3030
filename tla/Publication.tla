------------------------------ MODULE Publication ------------------------------
(***************************************************************************)
(* Create-only publication: what every script does that publishes a         *)
(* content-addressed release.  The release identity is a digest of the     *)
(* input; the objects of the release are written under it, in stages, and  *)
(* only then the local receipt, the configuration or the CURRENT object    *)
(* that names the release.  Any number of runs of a script, of the same     *)
(* input or of others, interleave, and any run may stop between two steps. *)
(*                                                                         *)
(* A program says what a script writes and how; PublicationScripts has     *)
(* one for every script of the repository.                                 *)
(***************************************************************************)
EXTENDS Integers, Sequences, FiniteSets

CONSTANTS
  Programs,      \* what the scripts write, and how
  Objects,       \* names of objects within a release
  Pointers,      \* names of what is written after the release
  Inputs,        \* what the release identity is a digest of
  Envs,          \* what it is not: the checkout, the clock, the local directory
  Runs,
  MaxStarts, MaxCrashes   \* bounds

\* The bytes of an object: a function of the identity, or of the environment
\* of the run too; or those the same name has in the release it is copied from.
Absent == "absent"
Fixed == "fixed"
Foreign == "foreign"
Bodies == Envs \cup {Absent, Fixed, Foreign}

\* How a stage treats an object that is already there.
Hows == {"create",      \* If-None-Match, then compare what is stored
         "claim",       \* If-None-Match, and an existing object is an error
         "adopt",       \* HEAD, and an existing object is taken as it is
         "immutable",   \* rclone --immutable: look, then copy
         "foreign",     \* rclone copy --immutable of another release's tree
         "replace"}     \* rclone copyto: written over whatever is there

ASSUME ProgramAssumption ==
  /\ Envs \cap {Absent, Fixed, Foreign} = {}
  /\ MaxStarts \in Nat /\ MaxCrashes \in Nat
  /\ Programs \subseteq
       [release : SUBSET Objects, loose : SUBSET Objects,
        stages : Seq([objects : SUBSET Objects, how : Hows]),
        pointers : Seq(Pointers) \ {<<>>}]
  /\ "manifest" \in Objects

\* The order every script keeps to.  A script that writes at all writes its whole
\* release.  What the identity does not cover is never written over, and what is taken
\* as it is stored comes before anything else whose bytes depend on the run.  A manifest
\* that is copied from another release is replaced.
InOrder(p) ==
  /\ p.stages # <<>> => p.release \subseteq UNION {p.stages[k].objects : k \in DOMAIN p.stages}
  /\ \A k \in DOMAIN p.stages :
       LET s == p.stages[k] IN
       /\ s.objects \cap p.loose # {} => s.how \in {"create", "claim", "adopt"}
       /\ s.how = "adopt" =>
            /\ \E o \in p.loose : s.objects = {o}
            /\ \A j \in DOMAIN p.stages : j < k => p.stages[j].objects \cap p.loose = {}
       /\ s.how = "foreign" /\ "manifest" \in s.objects =>
            \E j \in DOMAIN p.stages :
              p.stages[j].how = "replace" /\ "manifest" \in p.stages[j].objects

ASSUME OrderAssumption == \A p \in Programs : InOrder(p)

VARIABLES
  program,    \* the program of this behaviour
  store,     \* the bodies in the bucket, per release and object
  pointer,   \* what each pointer names: [input, env], or None
  run,       \* the runs
  contested, \* history: two runs that copy a manifest were at work side by side
  starts, crashes

publicationVars == <<program, store, pointer, run, contested, starts, crashes>>

None == [input |-> "none", env |-> "none"]
Idle == [pc |-> "idle", input |-> "none", env |-> "none", stage |-> 0,
         done |-> {}, looked |-> {}, refused |-> FALSE]

stages == program.stages
StageOf(r) == stages[run[r].stage]
Left(r) == StageOf(r).objects \ run[r].done
Loose(o) == o \in program.loose
Bytes(o, how, e) ==
  CASE how = "foreign" -> IF o = "manifest" THEN Foreign ELSE Fixed
    [] how # "foreign" /\ Loose(o) -> e
    [] OTHER -> Fixed
Stored(r, o) == store[run[r].input][o]
Mine(r, o) == Bytes(o, StageOf(r).how, run[r].env)
\* A stage copies the manifest of another release.
Copies == \E k \in DOMAIN stages : stages[k].how = "foreign" /\ "manifest" \in stages[k].objects

PublicationInit ==
  /\ program \in Programs
  /\ store = [i \in Inputs |-> [o \in Objects |-> Absent]]
  /\ pointer = [n \in Pointers |-> None]
  /\ run = [r \in Runs |-> Idle] /\ contested = FALSE
  /\ starts = 0 /\ crashes = 0

-----------------------------------------------------------------------------
\* The input has passed the gates of the program, which write nothing.  No script
\* knows of another run.
Start(r, i, e) ==
  /\ run[r].pc # "working" /\ starts < MaxStarts
  /\ run' = [run EXCEPT ![r] = [Idle EXCEPT !.pc = "working", !.input = i, !.env = e,
                                            !.stage = 1]]
  /\ contested' = (contested \/ (Copies /\ \E q \in Runs : run[q].pc = "working"))
  /\ starts' = starts + 1
  /\ UNCHANGED <<program, store, pointer, crashes>>

\* rclone finds no object under the name; the copy is a step of its own.
Look(r, o) ==
  /\ run[r].pc = "working" /\ run[r].stage \in DOMAIN stages
  /\ StageOf(r).how \in {"immutable", "foreign"} /\ o \in Left(r) \ run[r].looked
  /\ Stored(r, o) = Absent
  /\ run' = [run EXCEPT ![r].looked = @ \cup {o}]
  /\ UNCHANGED <<program, store, pointer, contested, starts, crashes>>

\* An object is written: it was absent, or is written over.
Put(r, o) ==
  /\ run[r].pc = "working" /\ run[r].stage \in DOMAIN stages /\ o \in Left(r)
  /\ \/ StageOf(r).how \in {"create", "claim", "adopt"} /\ Stored(r, o) = Absent
     \/ StageOf(r).how \in {"immutable", "foreign"} /\ o \in run[r].looked
     \/ StageOf(r).how = "replace"
  /\ store' = [store EXCEPT ![run[r].input][o] = Mine(r, o)]
  /\ run' = [run EXCEPT ![r].done = @ \cup {o}]
  /\ UNCHANGED <<program, pointer, contested, starts, crashes>>

\* Mutant of Meet: an object that is there is taken for the run's own.
MeetUnread(r, o) ==
  /\ run[r].pc = "working" /\ run[r].stage \in DOMAIN stages
  /\ o \in Left(r) \ run[r].looked /\ StageOf(r).how # "replace" /\ Stored(r, o) # Absent
  /\ run' = [run EXCEPT ![r] = [run[r] EXCEPT !.done = @ \cup {o}]]
  /\ UNCHANGED <<program, store, pointer, contested, starts, crashes>>

\* Mutant of Meet: an object that is there is an error in every script.
MeetRefused(r, o) ==
  /\ run[r].pc = "working" /\ run[r].stage \in DOMAIN stages
  /\ o \in Left(r) \ run[r].looked /\ StageOf(r).how # "replace" /\ Stored(r, o) # Absent
  /\ run' = [run EXCEPT ![r] = [run[r] EXCEPT !.done = @ \cup {o}, !.refused = TRUE]]
  /\ UNCHANGED <<program, store, pointer, contested, starts, crashes>>

\* The object that is there makes the write fail.
Conflicts(r, o) ==
  \/ StageOf(r).how = "claim"
  \/ StageOf(r).how # "adopt" /\ Stored(r, o) # Mine(r, o)

\* An object is already there.  The tasks of a pool that are under way go on
\* after one of them was refused.
Meet(r, o) ==
  /\ run[r].pc = "working" /\ run[r].stage \in DOMAIN stages
  /\ o \in Left(r) \ run[r].looked /\ StageOf(r).how # "replace" /\ Stored(r, o) # Absent
  /\ run' = [run EXCEPT ![r] = [run[r] EXCEPT !.done = @ \cup {o},
       !.refused = @ \/ Conflicts(r, o),
       !.env = IF StageOf(r).how = "adopt" /\ Loose(o)
               THEN Stored(r, o) ELSE @]]
  /\ UNCHANGED <<program, store, pointer, contested, starts, crashes>>

\* The stage is complete: the next one begins.
Advance(r) ==
  /\ run[r].pc = "working" /\ run[r].stage \in DOMAIN stages /\ ~run[r].refused
  /\ Left(r) = {}
  /\ run' = [run EXCEPT ![r] = [run[r] EXCEPT !.stage = @ + 1, !.done = {}, !.looked = {}]]
  /\ UNCHANGED <<program, store, pointer, contested, starts, crashes>>

\* One of its writes was refused: the run raises.
Refuse(r) ==
  /\ run[r].pc = "working" /\ run[r].stage \in DOMAIN stages /\ run[r].refused
  /\ Left(r) = {}
  /\ run' = [run EXCEPT ![r].pc = "refused"]
  /\ UNCHANGED <<program, store, pointer, contested, starts, crashes>>

\* Every object is written and read back: the receipt, the configuration or
\* CURRENT is written, each in place.
Point(r) ==
  LET k == run[r].stage - Len(stages) IN
  /\ run[r].pc = "working" /\ k \in DOMAIN program.pointers
  /\ pointer' = [pointer EXCEPT ![program.pointers[k]] =
                   [input |-> run[r].input, env |-> run[r].env]]
  /\ run' = [run EXCEPT ![r] = [run[r] EXCEPT !.stage = @ + 1,
                 !.pc = IF k = Len(program.pointers) THEN "done" ELSE @]]
  /\ UNCHANGED <<program, store, contested, starts, crashes>>

\* The process dies, with the rclone it waits for, or a request fails and the program raises.
Crash(r) ==
  /\ run[r].pc = "working" /\ crashes < MaxCrashes
  /\ run' = [run EXCEPT ![r].pc = "crashed"]
  /\ crashes' = crashes + 1
  /\ UNCHANGED <<program, store, pointer, contested, starts>>

PublicationStep(r) ==
  \/ \E o \in Objects : Look(r, o) \/ Put(r, o) \/ Meet(r, o)
  \/ Advance(r) \/ Refuse(r) \/ Point(r)
\* Environments are told apart only where some bytes depend on them.
ApartEnvs == {e \in Envs : program.loose = {} => e = CHOOSE x \in Envs : TRUE}
StartAny == \E r \in Runs, i \in Inputs, e \in ApartEnvs : Start(r, i, e)

PublicationNext == StartAny \/ \E r \in Runs : PublicationStep(r) \/ Crash(r)

PublicationSpec == PublicationInit /\ [][PublicationNext]_publicationVars

\* A run goes on; after a crash the operator runs the program again.
PublicationFairSpec == PublicationSpec /\ WF_publicationVars(StartAny) /\ \A r \in Runs : WF_publicationVars(PublicationStep(r))

-----------------------------------------------------------------------------
\* What the pointers name.  An object of the release is the one the run that
\* wrote the pointer wrote or compared.
AsPublished(i, o, e) == store[i][o] = Bytes(o, "create", e)

\* A run that was at work beside another copied the manifest of the other release late.
CopiedOver(i, o) == contested /\ o = "manifest" /\ store[i][o] = Foreign

\* A program is checked when every object of its release is written or compared
\* by a stage; its manifest is last when a stage of its own writes it at the end.
Written == UNION {stages[k].objects : k \in DOMAIN stages}
Checked == program.release \subseteq Written
ManifestLast ==
  \A k \in DOMAIN stages : "manifest" \in stages[k].objects =>
     k = Len(stages) /\ stages[k].objects = {"manifest"}
Repeatable == \A k \in DOMAIN stages : stages[k].how \in {"create", "immutable"}

\* A receipt, a configuration or CURRENT never names a release of which an object
\* is missing or another than the one that was published, whatever runs crash or
\* run beside one another and even while they go on (the last statements of each
\* publishing script).  The screen script alone copies a manifest, takes no lock and
\* rclone looks before it copies: of its release too everything is so, unless two runs of
\* it were beside one another, and then everything but the manifest.
ReceiptIsWhole ==
  Checked => \A n \in Pointers : pointer[n] # None =>
    \A o \in program.release :
      AsPublished(pointer[n].input, o, pointer[n].env) \/ CopiedOver(pointer[n].input, o)

\* "Existing objects are copied to a new immutable prefix" (materialize_screen_release.py:134):
\* what CURRENT names is not written over.  The code does not keep it, and no run checks it:
\* it fails when a second run of the screen script copies the manifest of the source release
\* over the one that the first run has replaced.
NamedStaysWhole ==
  Checked => \A n \in Pointers : pointer[n] # None =>
    \A o \in program.release : AsPublished(pointer[n].input, o, pointer[n].env)

\* Where the manifest is written after a barrier, whoever finds it finds the whole
\* release, also when the run that wrote it did not live to write its receipt.
ManifestIsWhole ==
  ManifestLast => \A i \in Inputs : store[i]["manifest"] \notin {Absent, Foreign} =>
    \A o \in program.release : store[i][o] # Absent

\* A release that somebody finds is whole: one that a receipt, a configuration or CURRENT names,
\* and one whose manifest is there, of the scripts that write it after a barrier.
ReleasesAreWhole == ReceiptIsWhole /\ ManifestIsWhole

\* Whatever crashes left behind, a script that compares what it finds publishes in
\* the end when it is run again in the same environment.
Steady == \E e \in Envs : [](\A r \in Runs : run[r].pc = "working" => run[r].env = e)
RerunPublishes ==
  Steady /\ Repeatable => <>(\A k \in DOMAIN program.pointers :
                               pointer[program.pointers[k]] # None)

RunState ==
  [pc : {"idle", "working", "done", "refused", "crashed"}, input : Inputs \cup {"none"},
   env : Bodies \cup {"none"}, stage : Nat, done : SUBSET Objects, looked : SUBSET Objects,
   refused : BOOLEAN]

\* Every variable keeps its type.
PublicationTypeOK ==
  /\ program \in Programs
  /\ store \in [Inputs -> [Objects -> Bodies]]
  /\ pointer \in [Pointers -> [input : Inputs \cup {"none"}, env : Bodies \cup {"none"}]]
  /\ run \in [Runs -> RunState] /\ contested \in BOOLEAN
  /\ starts \in Nat /\ crashes \in Nat
================================================================================
