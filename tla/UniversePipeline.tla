--------------------------- MODULE UniversePipeline ---------------------------
(***************************************************************************)
(* The resumable run of scripts/sec_universe_pipeline.py: issuers are      *)
(* evaluated in order by the main thread and published by a small pool of  *)
(* threads, each of which pins the body of an issuer in the cloud and then *)
(* saves its checkpoint.  Receipts are written at fixed stages, and at the *)
(* end the checkpoints are published as one immutable catalog.             *)
(*                                                                         *)
(* A run may stop at a budget, fail in a pool thread, or be killed between *)
(* any two steps; the next run starts from the files it left.  Two runs at *)
(* a time, and a run with another --total, are not considered: the second  *)
(* has another release and refuses the checkpoints.  A body counts one     *)
(* unit of the budgets.                                                    *)
(***************************************************************************)
EXTENDS Integers, Sequences, FiniteSets

CONSTANTS
  Last,         \* issuers are 1..Last, in the order of "selected"
  ExpansionStages,       \* expansion_stages
  Usable,       \* issuers whose archive member can be materialized
  Flaky,        \* issuers whose archive member may be read badly, once
  PoolSize,     \* publications in flight: 4
  Cap,          \* bodies the first-month reserve pays for: 7 GB
  Spend,        \* bodies the budget of a run pays for: 9 GB and --maximum-spend
  MaxRuns       \* runs of the command considered

Issuers == 1..Last

ASSUME PipelineAssumption ==
  /\ Last \in Nat \ {0} /\ ExpansionStages \subseteq Issuers /\ Last \in ExpansionStages
  /\ Usable \subseteq Issuers /\ Flaky \subseteq Issuers
  /\ PoolSize \in Nat \ {0} /\ Cap \in Nat /\ Spend \in Nat /\ MaxRuns \in Nat \ {0}

\* What a catalog consists of beside its manifest, in the order it is pinned.
Parts == <<"catalog", "directory", "screen">>

VARIABLES
  check,        \* checkpoints: a status, and whether the source is classified
  receipts,     \* stage receipts on disk: "NONE", "PASS" or "TORN"
  publication,  \* publication.json: the checkpoints, stages and reason, or none
  bodies,       \* issuers whose body is in the cloud
  catalogs,     \* objects of catalogs in the cloud: <<checkpoints, part>>
  roots,        \* manifests in the cloud, by the checkpoints they publish
  mainThread,         \* the main thread: pc, index, reserved bodies, stages, reason, part, runs
  pending,      \* issuers handed to the pool and not yet awaited
  task          \* what the pool does with an issuer: outcome and phase

disk == <<check, receipts, publication>>
cloud == <<bodies, catalogs, roots>>
pipelineVars == <<disk, cloud, mainThread, pending, task>>

NoRecord == [status |-> "NONE", known |-> FALSE]
NoTask == [record |-> NoRecord, phase |-> "none"]
Nothing == [records |-> [i \in Issuers |-> NoRecord], stages |-> {}, reason |-> TRUE]

\* What evaluate may return for an issuer.
Outcome(i) ==
  {[status |-> x, known |-> k] : x \in (IF i \in Usable THEN {"USABLE"} ELSE {"QUARANTINED"})
                                     \cup (IF i \in Flaky THEN {"QUARANTINED"} ELSE {}),
                                 k \in BOOLEAN}

CheckedIssuers(i) == check[i].status # "NONE"
Body(record) == IF record.status = "USABLE" THEN 1 ELSE 0

PipelineInit ==
  /\ check = [i \in Issuers |-> NoRecord]
  /\ receipts = [n \in ExpansionStages |-> "NONE"]
  /\ publication = Nothing
  /\ bodies = {} /\ catalogs = {} /\ roots = {}
  /\ mainThread = [pc |-> "idle", index |-> 1, reserved |-> 0, stages |-> {},
             reason |-> FALSE, part |-> 0, runs |-> 0]
  /\ pending = <<>>
  /\ task = [i \in Issuers |-> NoTask]

Stopped == {"idle", "raised", "done"}
Quiet == \A i \in Issuers : task[i].phase \notin {"pin", "save"}

At(pc) == mainThread.pc = pc
MainGoes(pc) == mainThread' = [mainThread EXCEPT !.pc = pc]

-----------------------------------------------------------------------------
\* load_stages: a run starts from the receipts on disk, or fails on one that
\* cannot be read.
StartPipeline ==
  /\ mainThread.pc \in Stopped /\ Quiet /\ mainThread.runs < MaxRuns
  /\ mainThread' = [pc |-> IF \E n \in ExpansionStages : receipts[n] = "TORN" THEN "raised" ELSE "loop",
              index |-> 1, reserved |-> 0,
              stages |-> {n \in ExpansionStages : receipts[n] = "PASS"},
              reason |-> FALSE, part |-> 0, runs |-> mainThread.runs + 1]
  /\ pending' = <<>>
  /\ task' = [i \in Issuers |-> NoTask]
  /\ UNCHANGED <<disk, cloud>>

\* A checkpointed issuer is passed over: its body is reserved again, which may
\* be beyond the budget of this run and ends it, and the stage that ends with
\* the issuer is not looked at.
Skip ==
  /\ At("loop") /\ mainThread.index <= Last /\ CheckedIssuers(mainThread.index)
  /\ mainThread' = IF mainThread.reserved + Body(check[mainThread.index]) > Spend
              THEN [mainThread EXCEPT !.pc = "raised"]
              ELSE [mainThread EXCEPT !.index = @ + 1,
                                !.reserved = @ + Body(check[mainThread.index])]
  /\ UNCHANGED <<disk, cloud, pending, task>>

\* Mutant of Exhaust: the reason is forgotten.
ExhaustSilently ==
  /\ At("loop") /\ mainThread.index <= Last /\ ~CheckedIssuers(mainThread.index)
  /\ MainGoes("finish")
  /\ UNCHANGED <<disk, cloud, pending, task>>

\* The elapsed time, the disk or the reserve for bodies is used up.
Exhaust ==
  /\ At("loop") /\ mainThread.index <= Last /\ ~CheckedIssuers(mainThread.index)
  /\ mainThread' = [mainThread EXCEPT !.pc = "finish", !.reason = TRUE]
  /\ UNCHANGED <<disk, cloud, pending, task>>

\* The archive cannot be read or a file not be written, or the budget of the
\* run does not pay for the body.
Fault ==
  /\ At("loop") /\ mainThread.index <= Last /\ ~CheckedIssuers(mainThread.index)
  /\ MainGoes("raised")
  /\ UNCHANGED <<disk, cloud, pending, task>>

\* pool.submit
HandOver(record) ==
  /\ mainThread' = [mainThread EXCEPT !.pc = "wait", !.reserved = @ + Body(record)]
  /\ pending' = Append(pending, mainThread.index)
  /\ task' = [task EXCEPT ![mainThread.index] =
       [record |-> record, phase |-> IF record.status = "USABLE" THEN "pin" ELSE "save"]]
  /\ UNCHANGED <<disk, cloud>>

\* An issuer is evaluated and handed to the pool.  Any failure of extraction,
\* evaluation or reconciliation quarantines it.
Submit ==
  /\ At("loop") /\ mainThread.index <= Last /\ ~CheckedIssuers(mainThread.index)
  /\ \E record \in Outcome(mainThread.index) :
       /\ mainThread.reserved + Body(record) <= Spend
       /\ record.status = "USABLE" => mainThread.reserved < Cap
       /\ HandOver(record)

\* Mutant of Await: the exception of a publication is not delivered.
AwaitSuccess(then) ==
  /\ pending # <<>>
  /\ task[Head(pending)].phase = "done"
  /\ pending' = Tail(pending)
  /\ MainGoes(then)
  /\ UNCHANGED <<disk, cloud, task>>

\* pending.popleft().result(): the oldest publication is awaited; its exception
\* ends the run.
Await(then) ==
  /\ pending # <<>>
  /\ task[Head(pending)].phase \in {"done", "failed"}
  /\ pending' = Tail(pending)
  /\ MainGoes(IF task[Head(pending)].phase = "done" THEN then ELSE "raised")
  /\ UNCHANGED <<disk, cloud, task>>

\* At most PoolSize publications are in flight.
Throttle ==
  /\ At("wait")
  /\ \/ Len(pending) >= PoolSize /\ Await("mark")
     \/ /\ Len(pending) < PoolSize /\ MainGoes("mark")
        /\ UNCHANGED <<disk, cloud, pending, task>>

\* A stage drains the pool and leaves its receipt.
Mark ==
  /\ At("mark")
  /\ \/ /\ mainThread.index \notin ExpansionStages
        /\ mainThread' = [mainThread EXCEPT !.pc = "loop", !.index = @ + 1]
        /\ UNCHANGED <<disk, cloud, pending, task>>
     \/ mainThread.index \in ExpansionStages /\ Await("mark")
     \/ /\ mainThread.index \in ExpansionStages /\ pending = <<>>
        /\ receipts' = [receipts EXCEPT ![mainThread.index] = "PASS"]
        /\ mainThread' = [mainThread EXCEPT !.pc = "loop", !.index = @ + 1,
                                !.stages = @ \cup {mainThread.index}]
        /\ UNCHANGED <<check, publication, cloud, pending, task>>

\* All issuers were looked at, or the run stops early: the pool is drained.
Finish ==
  \/ /\ At("loop") /\ mainThread.index > Last /\ MainGoes("finish")
     /\ UNCHANGED <<disk, cloud, pending, task>>
  \/ At("finish") /\ Await("finish")
  \/ /\ At("finish") /\ pending = <<>> /\ MainGoes("classify")
     /\ UNCHANGED <<disk, cloud, pending, task>>

Unclassified == {i \in Issuers : CheckedIssuers(i) /\ ~check[i].known}

\* Mutant of Classify: a source that cannot be classified is passed over.
ClassifyLeniently ==
  /\ At("classify")
  /\ \/ \E i \in Unclassified :
          /\ \A j \in Unclassified : i <= j
          /\ \/ /\ check' = [check EXCEPT ![i].known = TRUE]
                /\ UNCHANGED mainThread
             \/ MainGoes("publish") /\ UNCHANGED check
     \/ /\ Unclassified = {} /\ MainGoes("publish")
        /\ UNCHANGED check
  /\ UNCHANGED <<receipts, publication, cloud, pending, task>>

\* The sources that evaluate did not classify are classified, and their
\* checkpoints replaced, one by one.
ClassifyCheckpoints ==
  /\ At("classify")
  /\ \/ \E i \in Unclassified :
          /\ \A j \in Unclassified : i <= j
          /\ \/ /\ check' = [check EXCEPT ![i].known = TRUE]
                /\ UNCHANGED mainThread
             \/ MainGoes("raised") /\ UNCHANGED check
     \/ /\ Unclassified = {} /\ MainGoes("publish")
        /\ UNCHANGED check
  /\ UNCHANGED <<receipts, publication, cloud, pending, task>>

-----------------------------------------------------------------------------
(* finish, in a thread of the pool *)

\* pin: a create-only write, read back.  It may fail before or after the object
\* is there.
Pin(i) ==
  /\ task[i].phase = "pin"
  /\ \/ /\ bodies' = bodies \cup {i}
        /\ task' = [task EXCEPT ![i].phase = "save"]
     \/ /\ bodies' \in {bodies, bodies \cup {i}}
        /\ task' = [task EXCEPT ![i].phase = "failed"]
  /\ UNCHANGED <<disk, catalogs, roots, mainThread, pending>>

\* save_checkpoint: the file is replaced as a whole, or the disk is full.
Save(i) ==
  /\ task[i].phase = "save"
  /\ \/ /\ check' = [check EXCEPT ![i] = task[i].record]
        /\ task' = [task EXCEPT ![i].phase = "done"]
     \/ /\ task' = [task EXCEPT ![i].phase = "failed"]
        /\ UNCHANGED check
  /\ UNCHANGED <<receipts, publication, cloud, mainThread, pending>>

-----------------------------------------------------------------------------
\* publish_catalog: the objects of the catalog are pinned in order under the
\* identity of the checkpoints; a pin that fails ends the run.
PublishPart ==
  /\ At("publish") /\ mainThread.part < Len(Parts)
  /\ \/ /\ catalogs' = catalogs \cup {<<check, Parts[mainThread.part + 1]>>}
        /\ mainThread' = [mainThread EXCEPT !.part = @ + 1]
     \/ MainGoes("raised") /\ UNCHANGED catalogs
  /\ UNCHANGED <<disk, bodies, roots, pending, task>>

\* Mutant of PublishRoot: the manifest is pinned before the screens.
PublishRootEarly ==
  /\ At("publish") /\ mainThread.part >= Len(Parts) - 1
  /\ roots' = roots \cup {check}
  /\ MainGoes("receipt")
  /\ UNCHANGED <<disk, bodies, catalogs, pending, task>>

\* The manifest comes last.
PublishRoot ==
  /\ At("publish") /\ mainThread.part = Len(Parts)
  /\ \/ /\ roots' = roots \cup {check}
        /\ MainGoes("receipt")
     \/ /\ roots' \in {roots, roots \cup {check}}
        /\ MainGoes("raised")
  /\ UNCHANGED <<disk, bodies, catalogs, pending, task>>

\* publication.json
WriteReceipt ==
  /\ At("receipt")
  /\ publication' = [records |-> check, stages |-> mainThread.stages, reason |-> mainThread.reason]
  /\ MainGoes("done")
  /\ UNCHANGED <<check, receipts, cloud, pending, task>>

\* The process is killed.  A stage receipt that was being written is torn.
KillPipeline ==
  /\ mainThread.pc # "idle" /\ ~(mainThread.pc \in Stopped /\ Quiet)
  /\ MainGoes("idle")
  /\ pending' = <<>>
  /\ task' = [i \in Issuers |-> NoTask]
  /\ receipts' \in {receipts} \cup
       IF At("mark") /\ mainThread.index \in ExpansionStages /\ pending = <<>>
       THEN {[receipts EXCEPT ![mainThread.index] = "TORN"]} ELSE {}
  /\ UNCHANGED <<check, publication, cloud>>

Main ==
  \/ Skip \/ Exhaust \/ Fault \/ Submit \/ Throttle \/ Mark \/ Finish \/ ClassifyCheckpoints
  \/ PublishPart \/ PublishRoot \/ WriteReceipt

Pool(i) == Pin(i) \/ Save(i)

PipelineNext == StartPipeline \/ Main \/ (\E i \in Issuers : Pool(i)) \/ KillPipeline

PipelineSpec == PipelineInit /\ [][PipelineNext]_pipelineVars

\* The threads of a run make progress; starting a run is up to the operator.
PipelineFairSpec ==
  /\ PipelineSpec
  /\ WF_pipelineVars(Main)
  /\ \A i \in Issuers : WF_pipelineVars(Pool(i))

-----------------------------------------------------------------------------
Record == [status : {"NONE", "USABLE", "QUARANTINED"}, known : BOOLEAN]
Records == [Issuers -> Record]
Counter == {"idle", "loop", "wait", "mark", "finish", "classify", "publish", "receipt",
            "done", "raised"}
MainState == [pc : Counter, index : 1..(Last + 1), reserved : 0..Spend,
              stages : SUBSET ExpansionStages, reason : BOOLEAN, part : 0..Len(Parts), runs : 0..MaxRuns]
TaskState == [record : Record, phase : {"none", "pin", "save", "done", "failed"}]

\* The shape of the state.  A run reserves no more than its budget, and awaits
\* no more publications than the pool may hold (lines 387 to 393).
PipelineTypeOK ==
  /\ check \in Records
  /\ receipts \in [ExpansionStages -> {"NONE", "PASS", "TORN"}]
  /\ publication \in [records : Records, stages : SUBSET ExpansionStages, reason : BOOLEAN]
  /\ bodies \subseteq Usable
  /\ catalogs \subseteq Records \X {"catalog", "directory", "screen"}
  /\ roots \subseteq Records
  /\ mainThread \in MainState
  /\ pending \in Seq(Issuers) /\ Len(pending) <= PoolSize
  /\ task \in [Issuers -> TaskState]

\* An issuer that a checkpoint calls usable has its body in the cloud, whatever
\* thread failed or run was killed on the way (finish pins before it saves).
BodyBeforeCheckpoint ==
  \A i \in Issuers : check[i].status = "USABLE" => i \in bodies

\* The receipt of a stage says PASS only when every issuer up to it has a
\* checkpoint: the pool was drained, and no failed publication passed over.
StageIsTrue ==
  \A n \in ExpansionStages : receipts[n] = "PASS" => \A i \in 1..n : CheckedIssuers(i)

\* A manifest in the cloud is servable: its catalog is complete and the bodies
\* it refers to are there, also after a run that was killed while publishing.
RootIsServable ==
  \A r \in roots :
    /\ \A k \in 1..Len(Parts) : <<r, Parts[k]>> \in catalogs
    /\ \A i \in Issuers : r[i].status = "USABLE" => i \in bodies

\* What a published catalog says of an issuer, no later run revises: the next
\* catalog only adds issuers, so a snapshot is never contradicted.
PublishedIsFinal ==
  \A r \in roots : \A i \in Issuers : r[i].status # "NONE" => check[i] = r[i]

\* The publication receipt names a catalog in the cloud and stages that were
\* passed, and gives no reason for stopping only if every issuer was attempted.
ReceiptIsHonest ==
  publication # Nothing =>
    /\ publication.records \in roots
    /\ \A n \in publication.stages : \A i \in 1..n : publication.records[i].status # "NONE"
    /\ ~publication.reason => \A i \in Issuers : publication.records[i].status # "NONE"

\* A run comes to an end, and so do the publications it left in the pool.
RunEnds == mainThread.pc \notin Stopped ~> (mainThread.pc \in Stopped /\ Quiet)
=============================================================================
