------------------------ MODULE UniversePipeline_proofs ------------------------
(***************************************************************************)
(* Proofs about the runs of the universe pipeline: for every number of     *)
(* issuers, stages, pool threads and runs, checkpoints have their bodies,  *)
(* receipts tell the truth, and published catalogs are servable and final. *)
(***************************************************************************)
EXTENDS UniversePipeline, TLAPS

Running == {"loop", "wait", "mark", "finish", "classify", "publish", "receipt"}
Closing == {"classify", "publish", "receipt"}

Elements(s) == {s[k] : k \in 1..Len(s)}
InFlight == Elements(pending)
Active(i) == task[i].phase \in {"pin", "save"}

\* The pool works on issuers without a checkpoint, and pins before it saves.
PoolInv ==
  \A i \in Issuers :
    /\ Active(i) => ~CheckedIssuers(i) /\ task[i].record.status # "NONE"
    /\ task[i].record.status = "USABLE" => i \in Usable
    /\ task[i].phase = "pin" => task[i].record.status = "USABLE"
    /\ task[i].phase = "save" /\ task[i].record.status = "USABLE" => i \in bodies
    /\ task[i].phase = "done" => CheckedIssuers(i)

\* A running main thread will await every active publication; the pool has room
\* for one more when an issuer is looked at.
FlightInv ==
  /\ mainThread.pc \in Running => \A i \in Issuers : Active(i) => i \in InFlight
  /\ mainThread.pc \in Closing => pending = <<>>
  /\ mainThread.pc \in {"idle", "done"} => \A i \in Issuers : ~Active(i)
  /\ mainThread.pc \in {"loop", "mark"} => Len(pending) < PoolSize

\* The issuers that the main thread has gone past, and those of a stage passed.
ProgressInv ==
  /\ mainThread.pc \in {"loop", "finish"} =>
       \A i \in Issuers : i < mainThread.index => CheckedIssuers(i) \/ i \in InFlight
  /\ mainThread.pc \in {"wait", "mark"} =>
       /\ mainThread.index \in Issuers
       /\ \A i \in Issuers : i <= mainThread.index => CheckedIssuers(i) \/ i \in InFlight
  /\ mainThread.pc = "finish" /\ ~mainThread.reason => mainThread.index > Last
  /\ mainThread.pc \in Closing /\ ~mainThread.reason => \A i \in Issuers : CheckedIssuers(i)
  /\ mainThread.pc \in Running => \A n \in mainThread.stages : \A i \in 1..n : CheckedIssuers(i)

\* What is in the cloud while a catalog is published, and the finality of those
\* published before: their records are classified.
PublishInv ==
  /\ mainThread.pc \in Running \ {"publish", "receipt"} => mainThread.part = 0
  /\ mainThread.pc \in {"publish", "receipt"} => \A i \in Issuers : CheckedIssuers(i) => check[i].known
  /\ mainThread.pc = "publish" => \A k \in 1..mainThread.part : <<check, Parts[k]>> \in catalogs
  /\ mainThread.pc = "receipt" => check \in roots
  /\ \A r \in roots : \A i \in Issuers : r[i].status # "NONE" => r[i].known /\ check[i] = r[i]

Inv ==
  /\ PipelineTypeOK /\ PoolInv /\ FlightInv /\ ProgressInv /\ PublishInv
  /\ BodyBeforeCheckpoint /\ StageIsTrue /\ RootIsServable /\ ReceiptIsHonest

-----------------------------------------------------------------------------
(* The queue of publications *)

LEMMA AppendElements ==
  ASSUME NEW S, NEW s \in Seq(S), NEW e \in S
  PROVE  /\ Append(s, e) \in Seq(S) /\ Len(Append(s, e)) = Len(s) + 1
         /\ Elements(Append(s, e)) = Elements(s) \cup {e}
<1>1. /\ Append(s, e) \in Seq(S) /\ Len(Append(s, e)) = Len(s) + 1
      /\ \A k \in 1..Len(s) : Append(s, e)[k] = s[k]
      /\ Append(s, e)[Len(s) + 1] = e
  OBVIOUS
<1>2. Len(s) \in Nat
  OBVIOUS
<1>3. 1..(Len(s) + 1) = (1..Len(s)) \cup {Len(s) + 1}
  BY <1>2
<1> QED  BY <1>1, <1>3 DEF Elements

LEMMA TailElements ==
  ASSUME NEW S, NEW s \in Seq(S), s # <<>>
  PROVE  /\ Tail(s) \in Seq(S) /\ Len(Tail(s)) = Len(s) - 1 /\ Head(s) \in S
         /\ Elements(s) = {Head(s)} \cup Elements(Tail(s))
<1>1. /\ Tail(s) \in Seq(S) /\ Len(Tail(s)) = Len(s) - 1 /\ Head(s) = s[1]
      /\ \A k \in 1..(Len(s) - 1) : Tail(s)[k] = s[k + 1]
  OBVIOUS
<1>2. Len(s) \in Nat /\ Len(s) > 0
  OBVIOUS
<1>3. Head(s) \in S
  BY <1>1, <1>2
<1>4. Elements(s) \subseteq {Head(s)} \cup Elements(Tail(s))
  <2> SUFFICES ASSUME NEW k \in 1..Len(s), k # 1
               PROVE  s[k] \in Elements(Tail(s))
    BY <1>1 DEF Elements
  <2>1. k - 1 \in 1..(Len(s) - 1) /\ (k - 1) + 1 = k
    BY <1>2
  <2> QED  BY <1>1, <2>1 DEF Elements
<1>5. {Head(s)} \cup Elements(Tail(s)) \subseteq Elements(s)
  <2>1. 1 \in 1..Len(s) /\ \A k \in 1..(Len(s) - 1) : k + 1 \in 1..Len(s)
    BY <1>2
  <2> QED  BY <1>1, <2>1 DEF Elements
<1> QED  BY <1>1, <1>3, <1>4, <1>5

LEMMA EmptyElements == Elements(<<>>) = {}
BY DEF Elements

\* The two ways to await the oldest publication.
LEMMA AwaitCases ==
  ASSUME PipelineTypeOK, PoolInv, NEW then, Await(then)
  PROVE  /\ pending' \in Seq(Issuers) /\ Len(pending') = Len(pending) - 1
         /\ \A i \in InFlight : i = Head(pending) \/ i \in InFlight'
         /\ Head(pending) \in Issuers /\ ~Active(Head(pending))
         /\ \/ MainGoes("raised")
            \/ MainGoes(then) /\ CheckedIssuers(Head(pending))
<1>1. pending \in Seq(Issuers) /\ pending # <<>> /\ pending' = Tail(pending)
  BY DEF PipelineTypeOK, Await
<1>2. /\ pending' \in Seq(Issuers) /\ Len(pending') = Len(pending) - 1
      /\ Head(pending) \in Issuers
      /\ InFlight = {Head(pending)} \cup InFlight'
  BY <1>1, TailElements DEF InFlight
<1>3. CASE task[Head(pending)].phase = "done"
  <2>1. CheckedIssuers(Head(pending)) /\ ~Active(Head(pending))
    BY <1>2, <1>3 DEF PoolInv, Active
  <2>2. MainGoes(then)
    BY <1>3 DEF Await
  <2> QED  BY <1>2, <2>1, <2>2
<1>4. CASE task[Head(pending)].phase = "failed"
  <2>1. ~Active(Head(pending))
    BY <1>4 DEF Active
  <2>2. MainGoes("raised")
    BY <1>4 DEF Await
  <2> QED  BY <1>2, <2>1, <2>2
<1> QED  BY <1>3, <1>4 DEF Await

-----------------------------------------------------------------------------
(* The shape of the state *)

LEMMA GoType ==
  ASSUME mainThread \in MainState, NEW pc \in Counter, MainGoes(pc)
  PROVE  mainThread' \in MainState
BY DEF MainGoes, MainState

\* Awaiting keeps the shape of the state.
LEMMA AwaitType ==
  ASSUME PipelineTypeOK, PoolInv, NEW then \in Counter, Await(then)
  PROVE  PipelineTypeOK'
<1>1. pending' \in Seq(Issuers) /\ Len(pending') <= PoolSize
  <2>1. /\ pending' \in Seq(Issuers) /\ Len(pending') = Len(pending) - 1
        /\ pending \in Seq(Issuers) /\ Len(pending) <= PoolSize /\ PoolSize \in Nat
    BY AwaitCases, PipelineAssumption DEF PipelineTypeOK
  <2> QED  BY <2>1
<1>2. mainThread' \in MainState
  <2>1. "raised" \in Counter /\ mainThread \in MainState
    BY DEF Counter, PipelineTypeOK
  <2> QED  BY <2>1, AwaitCases, GoType
<1>3. UNCHANGED <<disk, cloud, task>>
  BY DEF Await
<1> QED  BY <1>1, <1>2, <1>3 DEF PipelineTypeOK, disk, cloud

LEMMA TypeStep ==
  ASSUME PipelineTypeOK, PoolInv, FlightInv, ProgressInv, [PipelineNext]_pipelineVars
  PROVE  PipelineTypeOK'
<1> USE PipelineAssumption
<1>0. /\ {"idle", "loop", "wait", "mark", "finish", "classify", "publish", "receipt",
          "done", "raised"} \subseteq Counter
      /\ mainThread \in MainState
  BY DEF Counter, PipelineTypeOK
<1>1. CASE StartPipeline
  <2>1. mainThread' \in MainState
    <3>1. 1 \in 1..(Last + 1) /\ 0 \in 0..Spend /\ 0 \in 0..Len(Parts)
      BY DEF Parts
    <3>2. mainThread.runs + 1 \in 0..MaxRuns
      BY <1>0, <1>1 DEF StartPipeline, MainState
    <3>3. {n \in ExpansionStages : receipts[n] = "PASS"} \in SUBSET ExpansionStages
      OBVIOUS
    <3> QED  BY <1>0, <1>1, <3>1, <3>2, <3>3 DEF StartPipeline, MainState
  <2>2. pending' \in Seq(Issuers) /\ Len(pending') <= PoolSize
    BY <1>1 DEF StartPipeline
  <2>3. task' \in [Issuers -> TaskState]
    BY <1>1 DEF StartPipeline, NoTask, NoRecord, TaskState, Record
  <2> QED  BY <1>1, <2>1, <2>2, <2>3 DEF StartPipeline, PipelineTypeOK, disk, cloud
<1>2. CASE Skip
  <2>1. mainThread' \in MainState
    <3>1. mainThread.index + 1 \in 1..(Last + 1)
      BY <1>0, <1>2 DEF Skip, MainState
    <3>2. mainThread.reserved + Body(check[mainThread.index]) > Spend
          \/ mainThread.reserved + Body(check[mainThread.index]) \in 0..Spend
      BY <1>0 DEF MainState, Body
    <3> QED  BY <1>0, <1>2, <3>1, <3>2 DEF Skip, MainState
  <2> QED  BY <1>2, <2>1 DEF Skip, PipelineTypeOK, disk, cloud
<1>3. CASE Exhaust
  <2>1. mainThread' \in MainState
    BY <1>0, <1>3 DEF Exhaust, MainState
  <2> QED  BY <1>3, <2>1 DEF Exhaust, PipelineTypeOK, disk, cloud
<1>4. CASE Fault
  <2>1. mainThread' \in MainState
    BY <1>0, <1>4, GoType DEF Fault
  <2> QED  BY <1>4, <2>1 DEF Fault, PipelineTypeOK, disk, cloud
<1>5. CASE Submit
  <2>1. PICK record \in Outcome(mainThread.index) :
          mainThread.reserved + Body(record) <= Spend /\ HandOver(record)
    BY <1>5 DEF Submit
  <2>2. mainThread.index \in Issuers
    BY <1>0, <1>5 DEF Submit, MainState, Issuers
  <2>3. record \in Record
    BY <2>1 DEF Outcome, Record
  <2>4. mainThread' \in MainState
    <3>1. mainThread.reserved + Body(record) \in 0..Spend
      BY <1>0, <2>1 DEF MainState, Body
    <3> QED  BY <1>0, <2>1, <3>1 DEF HandOver, MainState
  <2>5. pending' \in Seq(Issuers) /\ Len(pending') = Len(pending) + 1
    BY <2>1, <2>2, AppendElements DEF HandOver, PipelineTypeOK
  <2>6. Len(pending') <= PoolSize
    <3>1. Len(pending) < PoolSize /\ Len(pending) \in Nat
      BY <1>5 DEF Submit, At, FlightInv, PipelineTypeOK
    <3> QED  BY <2>5, <3>1
  <2>7. task' \in [Issuers -> TaskState]
    <3>1. \A x \in {"pin", "save"} : [record |-> record, phase |-> x] \in TaskState
      BY <2>3 DEF TaskState
    <3> QED  BY <2>1, <2>2, <3>1 DEF HandOver, PipelineTypeOK
  <2>8. UNCHANGED <<disk, cloud>>
    BY <2>1 DEF HandOver
  <2> QED  BY <2>4, <2>5, <2>6, <2>7, <2>8 DEF PipelineTypeOK, disk, cloud
<1>6. CASE Throttle
  <2>1. CASE Await("mark")
    BY <1>0, <2>1, AwaitType
  <2>2. CASE MainGoes("mark") /\ UNCHANGED <<disk, cloud, pending, task>>
    <3>1. mainThread' \in MainState
      BY <1>0, <2>2, GoType
    <3> QED  BY <2>2, <3>1 DEF PipelineTypeOK, disk, cloud
  <2> QED  BY <1>6, <2>1, <2>2 DEF Throttle
<1>7. CASE Mark
  <2>0. mainThread.index + 1 \in 1..(Last + 1)
    <3>1. mainThread.index \in Issuers
      BY <1>7 DEF Mark, At, ProgressInv
    <3> QED  BY <3>1 DEF Issuers
  <2>1. CASE Await("mark")
    BY <1>0, <2>1, AwaitType
  <2>2. CASE /\ mainThread' = [mainThread EXCEPT !.pc = "loop", !.index = @ + 1]
             /\ UNCHANGED <<disk, cloud, pending, task>>
    <3>1. mainThread' \in MainState
      BY <1>0, <2>0, <2>2 DEF MainState
    <3> QED  BY <2>2, <3>1 DEF PipelineTypeOK, disk, cloud
  <2>3. CASE /\ mainThread.index \in ExpansionStages
             /\ receipts' = [receipts EXCEPT ![mainThread.index] = "PASS"]
             /\ mainThread' = [mainThread EXCEPT !.pc = "loop", !.index = @ + 1,
                                     !.stages = @ \cup {mainThread.index}]
             /\ UNCHANGED <<check, publication, cloud, pending, task>>
    <3>1. mainThread' \in MainState
      <4>1. mainThread.stages \cup {mainThread.index} \in SUBSET ExpansionStages
        BY <1>0, <2>3 DEF MainState
      <4> QED  BY <1>0, <2>0, <2>3, <4>1 DEF MainState
    <3>2. receipts' \in [ExpansionStages -> {"NONE", "PASS", "TORN"}]
      BY <2>3 DEF PipelineTypeOK
    <3> QED  BY <2>3, <3>1, <3>2 DEF PipelineTypeOK, cloud
  <2> QED  BY <1>7, <2>1, <2>2, <2>3 DEF Mark
<1>8. CASE Finish
  <2>1. CASE Await("finish")
    BY <1>0, <2>1, AwaitType
  <2>2. CASE (MainGoes("finish") \/ MainGoes("classify")) /\ UNCHANGED <<disk, cloud, pending, task>>
    <3>1. mainThread' \in MainState
      BY <1>0, <2>2, GoType
    <3> QED  BY <2>2, <3>1 DEF PipelineTypeOK, disk, cloud
  <2> QED  BY <1>8, <2>1, <2>2 DEF Finish
<1>9. CASE ClassifyCheckpoints
  <2>1. mainThread' \in MainState
    <3>1. mainThread' = mainThread \/ MainGoes("raised") \/ MainGoes("publish")
      BY <1>9 DEF ClassifyCheckpoints
    <3> QED  BY <1>0, <3>1, GoType
  <2>2. check' \in Records
    <3>1. CASE check' = check
      BY <3>1 DEF PipelineTypeOK
    <3>2. CASE \E i \in Unclassified : check' = [check EXCEPT ![i].known = TRUE]
      <4>1. PICK i \in Issuers : check' = [check EXCEPT ![i].known = TRUE]
        BY <3>2 DEF Unclassified
      <4>2. check[i] \in Record
        BY DEF PipelineTypeOK, Records
      <4>3. [check[i] EXCEPT !.known = TRUE] \in Record
        BY <4>2 DEF Record
      <4> QED  BY <4>1, <4>3 DEF PipelineTypeOK, Records
    <3> QED  BY <1>9, <3>1, <3>2 DEF ClassifyCheckpoints
  <2>3. UNCHANGED <<receipts, publication, cloud, pending, task>>
    BY <1>9 DEF ClassifyCheckpoints
  <2> QED  BY <2>1, <2>2, <2>3 DEF PipelineTypeOK, cloud
<1>10. CASE PublishPart
  <2>1. mainThread' \in MainState
    <3>1. CASE mainThread' = [mainThread EXCEPT !.part = @ + 1]
      <4>1. mainThread.part + 1 \in 0..Len(Parts)
        BY <1>0, <1>10 DEF PublishPart, MainState, Parts
      <4> QED  BY <1>0, <3>1, <4>1 DEF MainState
    <3>2. CASE MainGoes("raised")
      BY <1>0, <3>2, GoType
    <3> QED  BY <1>10, <3>1, <3>2 DEF PublishPart
  <2>2. catalogs' \subseteq Records \X {"catalog", "directory", "screen"}
    <3>1. Parts[mainThread.part + 1] \in {"catalog", "directory", "screen"}
      <4>1. mainThread.part + 1 \in 1..3
        BY <1>0, <1>10 DEF PublishPart, MainState, Parts
      <4> QED  BY <4>1 DEF Parts
    <3> QED  BY <1>10, <3>1 DEF PublishPart, PipelineTypeOK
  <2> QED  BY <1>10, <2>1, <2>2 DEF PublishPart, PipelineTypeOK, disk
<1>11. CASE PublishRoot
  <2>1. mainThread' \in MainState
    BY <1>0, <1>11, GoType DEF PublishRoot
  <2>2. roots' \subseteq Records
    BY <1>11 DEF PublishRoot, PipelineTypeOK
  <2> QED  BY <1>11, <2>1, <2>2 DEF PublishRoot, PipelineTypeOK, disk
<1>12. CASE WriteReceipt
  <2>1. mainThread' \in MainState
    BY <1>0, <1>12, GoType DEF WriteReceipt
  <2>2. publication' \in [records : Records, stages : SUBSET ExpansionStages, reason : BOOLEAN]
    BY <1>0, <1>12 DEF WriteReceipt, PipelineTypeOK, MainState
  <2> QED  BY <1>12, <2>1, <2>2 DEF WriteReceipt, PipelineTypeOK, cloud
<1>13. ASSUME NEW i \in Issuers, Pin(i)  PROVE PipelineTypeOK'
  <2>1. i \in Usable
    BY <1>13 DEF Pin, PoolInv
  <2>2. bodies' \subseteq Usable
    BY <1>13, <2>1 DEF Pin, PipelineTypeOK
  <2>3. task' \in [Issuers -> TaskState]
    BY <1>13 DEF Pin, PipelineTypeOK, TaskState
  <2> QED  BY <1>13, <2>2, <2>3 DEF Pin, PipelineTypeOK, disk
<1>14. ASSUME NEW i \in Issuers, Save(i)  PROVE PipelineTypeOK'
  <2>1. check' \in Records
    BY <1>14 DEF Save, PipelineTypeOK, TaskState, Records
  <2>2. task' \in [Issuers -> TaskState]
    <3>1. \A x \in {"done", "failed"} : [task[i] EXCEPT !.phase = x] \in TaskState
      BY DEF PipelineTypeOK, TaskState
    <3>2. \E x \in {"done", "failed"} : task' = [task EXCEPT ![i].phase = x]
      BY <1>14 DEF Save
    <3> QED  BY <3>1, <3>2 DEF PipelineTypeOK
  <2> QED  BY <1>14, <2>1, <2>2 DEF Save, PipelineTypeOK, cloud
<1>15. CASE KillPipeline
  <2>1. mainThread' \in MainState
    BY <1>0, <1>15, GoType DEF KillPipeline
  <2>2. pending' \in Seq(Issuers) /\ Len(pending') <= PoolSize
    BY <1>15 DEF KillPipeline
  <2>3. task' \in [Issuers -> TaskState]
    BY <1>15 DEF KillPipeline, NoTask, NoRecord, TaskState, Record
  <2>4. receipts' \in [ExpansionStages -> {"NONE", "PASS", "TORN"}]
    BY <1>15 DEF KillPipeline, PipelineTypeOK
  <2> QED  BY <1>15, <2>1, <2>2, <2>3, <2>4 DEF KillPipeline, PipelineTypeOK, cloud
<1>16. CASE UNCHANGED pipelineVars
  BY <1>16 DEF pipelineVars, disk, cloud, PipelineTypeOK
<1> QED
  BY <1>1, <1>2, <1>3, <1>4, <1>5, <1>6, <1>7, <1>8, <1>9, <1>10, <1>11, <1>12, <1>13, <1>14,
     <1>15, <1>16 DEF PipelineNext, Main, Pool

-----------------------------------------------------------------------------
(* What a step keeps *)

\* The steps that leave checkpoints, tasks and bodies alone.
LEMMA MainFrame ==
  ASSUME \/ Skip \/ Exhaust \/ Fault \/ Throttle \/ Mark \/ Finish
         \/ PublishPart \/ PublishRoot \/ WriteReceipt \/ UNCHANGED pipelineVars
  PROVE  UNCHANGED <<check, task, bodies>>
BY DEF Skip, Exhaust, Fault, Throttle, Mark, Finish, Await, PublishPart, PublishRoot,
       WriteReceipt, pipelineVars, disk, cloud

\* Nothing leaves the cloud, and a checkpoint keeps its status; once it is
\* classified it is final.
LEMMA Kept ==
  ASSUME PipelineTypeOK, PoolInv, [PipelineNext]_pipelineVars
  PROVE  /\ bodies \subseteq bodies' /\ catalogs \subseteq catalogs' /\ roots \subseteq roots'
         /\ \A i \in Issuers : CheckedIssuers(i) =>
              /\ check'[i].status = check[i].status
              /\ check[i].known => check'[i] = check[i]
<1>1. bodies \subseteq bodies' /\ catalogs \subseteq catalogs' /\ roots \subseteq roots'
  <2>1. CASE \E i \in Issuers : Pool(i)
    BY <2>1 DEF Pool, Pin, Save, cloud
  <2>2. CASE Submit
    BY <2>2 DEF Submit, HandOver, cloud
  <2>3. CASE Throttle \/ Mark \/ Finish
    BY <2>3 DEF Throttle, Mark, Finish, Await, cloud
  <2>4. CASE StartPipeline \/ Skip \/ Exhaust \/ Fault \/ ClassifyCheckpoints \/ WriteReceipt \/ KillPipeline
    BY <2>4 DEF StartPipeline, Skip, Exhaust, Fault, ClassifyCheckpoints, WriteReceipt, KillPipeline, cloud
  <2>5. CASE PublishPart \/ PublishRoot
    BY <2>5 DEF PublishPart, PublishRoot
  <2>6. CASE UNCHANGED pipelineVars
    BY <2>6 DEF pipelineVars, cloud
  <2> QED  BY <2>1, <2>2, <2>3, <2>4, <2>5, <2>6 DEF PipelineNext, Main
<1>2. ASSUME NEW i \in Issuers, CheckedIssuers(i)
      PROVE  check'[i].status = check[i].status /\ (check[i].known => check'[i] = check[i])
  <2>0. check[i] \in Record /\ DOMAIN check = Issuers
    BY DEF PipelineTypeOK, Records
  <2>1. CASE check' = check
    BY <2>1
  <2>2. ASSUME NEW j \in Issuers, Save(j)
        PROVE  check'[i] = check[i]
    <3>1. j # i
      BY <1>2, <2>2 DEF Save, PoolInv, Active
    <3> QED  BY <2>2, <3>1, <2>0 DEF Save
  <2>3. CASE ClassifyCheckpoints
    <3>1. CASE check' = check
      BY <3>1
    <3>2. CASE \E j \in Unclassified : check' = [check EXCEPT ![j].known = TRUE]
      <4>1. PICK j \in Unclassified : check' = [check EXCEPT ![j].known = TRUE]
        BY <3>2
      <4>2. CASE i = j
        <5>1. ~check[i].known /\ check'[i] = [check[i] EXCEPT !.known = TRUE]
          BY <2>0, <4>1, <4>2 DEF Unclassified
        <5> QED  BY <2>0, <5>1 DEF Record
      <4>3. CASE i # j
        BY <2>0, <4>1, <4>3
      <4> QED  BY <4>2, <4>3
    <3> QED  BY <2>3, <3>1, <3>2 DEF ClassifyCheckpoints
  <2>4. CASE StartPipeline \/ Submit \/ KillPipeline \/ (\E j \in Issuers : Pin(j))
    <3>1. check' = check
      BY <2>4 DEF StartPipeline, Submit, HandOver, KillPipeline, Pin, disk
    <3> QED  BY <3>1
  <2> QED  BY <2>1, <2>2, <2>3, <2>4, MainFrame DEF PipelineNext, Main, Pool
<1> QED  BY <1>1, <1>2

-----------------------------------------------------------------------------
(* The pool *)

LEMMA PoolStep ==
  ASSUME PipelineTypeOK, PoolInv, FlightInv, [PipelineNext]_pipelineVars
  PROVE  PoolInv'
<1> USE PipelineAssumption
<1>1. CASE UNCHANGED <<check, task, bodies>>
  BY <1>1 DEF PoolInv, Active, CheckedIssuers
<1>2. CASE StartPipeline \/ KillPipeline
  <2>1. task' = [i \in Issuers |-> NoTask] /\ UNCHANGED <<check, bodies>>
    BY <1>2 DEF StartPipeline, KillPipeline, disk, cloud
  <2>2. \A i \in Issuers : task'[i].phase = "none" /\ task'[i].record.status = "NONE"
    BY <2>1 DEF NoTask, NoRecord
  <2> QED  BY <2>1, <2>2 DEF PoolInv, Active
<1>3. CASE Submit
  <2>1. PICK record \in Outcome(mainThread.index) : HandOver(record)
    BY <1>3 DEF Submit
  <2>2. mainThread.index \in Issuers /\ ~CheckedIssuers(mainThread.index)
    BY <1>3 DEF Submit, PipelineTypeOK, MainState, Issuers
  <2>3. /\ record.status # "NONE"
        /\ record.status = "USABLE" => mainThread.index \in Usable
    BY <2>1 DEF Outcome
  <2>4. /\ task'[mainThread.index].record = record
        /\ task'[mainThread.index].phase = IF record.status = "USABLE" THEN "pin" ELSE "save"
        /\ \A i \in Issuers : i # mainThread.index => task'[i] = task[i]
    BY <2>1, <2>2 DEF HandOver, PipelineTypeOK
  <2>5. UNCHANGED <<check, bodies>>
    BY <2>1 DEF HandOver, disk, cloud
  <2> SUFFICES ASSUME NEW i \in Issuers
               PROVE  /\ Active(i)' => ~CheckedIssuers(i)' /\ task'[i].record.status # "NONE"
                      /\ task'[i].record.status = "USABLE" => i \in Usable
                      /\ task'[i].phase = "pin" => task'[i].record.status = "USABLE"
                      /\ task'[i].phase = "save" /\ task'[i].record.status = "USABLE" => i \in bodies'
                      /\ task'[i].phase = "done" => CheckedIssuers(i)'
    BY DEF PoolInv
  <2>6. CASE i = mainThread.index
    BY <2>2, <2>3, <2>4, <2>5, <2>6 DEF Active, CheckedIssuers
  <2>7. CASE i # mainThread.index
    BY <2>4, <2>5, <2>7 DEF PoolInv, Active, CheckedIssuers
  <2> QED  BY <2>6, <2>7
<1>4. CASE ClassifyCheckpoints
  <2>1. UNCHANGED <<task, bodies>>
    BY <1>4 DEF ClassifyCheckpoints, cloud
  <2>2. \A i \in Issuers : check'[i].status = check[i].status
    <3>1. CASE check' = check
      BY <3>1
    <3>2. CASE \E j \in Issuers : check' = [check EXCEPT ![j].known = TRUE]
      BY <3>2 DEF PipelineTypeOK, Records, Record
    <3> QED  BY <1>4, <3>1, <3>2 DEF ClassifyCheckpoints, Unclassified
  <2> QED  BY <2>1, <2>2 DEF PoolInv, Active, CheckedIssuers
<1>5. ASSUME NEW j \in Issuers, Pin(j)  PROVE PoolInv'
  <2>1. check' = check /\ bodies \subseteq bodies'
    BY <1>5 DEF Pin, disk
  <2>2. /\ task[j].phase = "pin" /\ task'[j].record = task[j].record
        /\ \/ task'[j].phase = "save" /\ j \in bodies'
           \/ task'[j].phase = "failed"
        /\ \A i \in Issuers : i # j => task'[i] = task[i]
    BY <1>5 DEF Pin, PipelineTypeOK, TaskState
  <2> QED  BY <2>1, <2>2 DEF PoolInv, Active, CheckedIssuers
<1>6. ASSUME NEW j \in Issuers, Save(j)  PROVE PoolInv'
  <2>1. bodies' = bodies
    BY <1>6 DEF Save, cloud
  <2>2. /\ task[j].phase = "save" /\ task'[j].record = task[j].record
        /\ \A i \in Issuers : i # j => task'[i] = task[i] /\ check'[i] = check[i]
    BY <1>6 DEF Save, PipelineTypeOK, TaskState, Records
  <2>3. \/ task'[j].phase = "done" /\ check'[j] = task[j].record
        \/ task'[j].phase = "failed"
    BY <1>6 DEF Save, PipelineTypeOK, TaskState, Records
  <2>4. task[j].record.status # "NONE" /\ (task[j].record.status = "USABLE" => j \in Usable)
    BY <2>2 DEF PoolInv, Active
  <2> QED  BY <2>1, <2>2, <2>3, <2>4 DEF PoolInv, Active, CheckedIssuers
<1> QED  BY <1>1, <1>2, <1>3, <1>4, <1>5, <1>6, MainFrame DEF PipelineNext, Main, Pool

LEMMA FlightStep ==
  ASSUME PipelineTypeOK, PoolInv, FlightInv, [PipelineNext]_pipelineVars
  PROVE  FlightInv'
<1> USE PipelineAssumption
<1>0. mainThread \in MainState /\ pending \in Seq(Issuers) /\ Len(pending) \in Nat
  BY DEF PipelineTypeOK
<1>1. CASE StartPipeline \/ KillPipeline
  <2>1. /\ task' = [i \in Issuers |-> NoTask] /\ pending' = <<>>
        /\ mainThread'.pc \in {"loop", "raised", "idle"}
    BY <1>0, <1>1 DEF StartPipeline, KillPipeline, MainGoes, MainState
  <2>2. \A i \in Issuers : ~Active(i)'
    BY <2>1 DEF NoTask, Active
  <2>3. Len(pending') < PoolSize
    BY <2>1
  <2> QED  BY <2>1, <2>2, <2>3 DEF FlightInv, Closing
<1>2. CASE Skip \/ Exhaust \/ Fault
  <2>1. UNCHANGED <<task, pending>> /\ mainThread.pc = "loop" /\ mainThread'.pc \in {"loop", "finish", "raised"}
    BY <1>0, <1>2 DEF Skip, Exhaust, Fault, MainGoes, At, MainState
  <2> QED  BY <2>1 DEF FlightInv, Active, InFlight, Running, Closing
<1>3. CASE Submit
  <2>1. PICK record \in Outcome(mainThread.index) : HandOver(record)
    BY <1>3 DEF Submit
  <2>2. mainThread.index \in Issuers /\ mainThread.pc = "loop"
    BY <1>3 DEF Submit, PipelineTypeOK, MainState, Issuers, At
  <2>3. mainThread'.pc = "wait"
    BY <1>0, <2>1 DEF HandOver, MainState
  <2>4. InFlight' = InFlight \cup {mainThread.index}
    BY <1>0, <2>1, <2>2, AppendElements DEF HandOver, InFlight
  <2>5. \A i \in Issuers : Active(i)' => i = mainThread.index \/ Active(i)
    BY <2>1, <2>2 DEF HandOver, PipelineTypeOK, Active
  <2> QED  BY <2>2, <2>3, <2>4, <2>5 DEF FlightInv, Running, Closing
<1>4. ASSUME NEW then \in {"mark", "finish"}, Await(then), mainThread.pc \in {"wait", "mark", "finish"}
      PROVE  FlightInv'
  <2>1. mainThread'.pc \in {"raised", then}
    BY <1>0, <1>4, AwaitCases DEF MainGoes, MainState
  <2>2. \A i \in Issuers : Active(i)' => i \in InFlight'
    <3>1. \A i \in Issuers : Active(i)' => Active(i) /\ i \in InFlight
      BY <1>4 DEF Await, Active, FlightInv, Running
    <3> QED  BY <1>4, <3>1, AwaitCases
  <2>3. Len(pending') < PoolSize
    <3>1. Len(pending') = Len(pending) - 1 /\ Len(pending) <= PoolSize
      BY <1>4, AwaitCases DEF PipelineTypeOK
    <3> QED  BY <1>0, <3>1
  <2> QED  BY <2>1, <2>2, <2>3 DEF FlightInv, Closing
<1>5. CASE Throttle
  <2>1. CASE Await("mark")
    BY <1>4, <1>5, <2>1 DEF Throttle, At
  <2>2. CASE Len(pending) < PoolSize /\ MainGoes("mark") /\ UNCHANGED <<pending, task>>
    <3>1. mainThread.pc = "wait" /\ mainThread'.pc = "mark"
      BY <1>0, <1>5, <2>2 DEF Throttle, At, MainGoes, MainState
    <3> QED  BY <2>2, <3>1 DEF FlightInv, Active, InFlight, Running, Closing
  <2> QED  BY <1>5, <2>1, <2>2 DEF Throttle
<1>6. CASE Mark
  <2>1. CASE Await("mark")
    BY <1>4, <1>6, <2>1 DEF Mark, At
  <2>2. CASE mainThread'.pc = "loop" /\ UNCHANGED <<pending, task>>
    <3>1. mainThread.pc = "mark"
      BY <1>6 DEF Mark, At
    <3> QED  BY <2>2, <3>1 DEF FlightInv, Active, InFlight, Running, Closing
  <2> QED  BY <1>0, <1>6, <2>1, <2>2 DEF Mark, MainState
<1>7. CASE Finish
  <2>1. CASE At("finish") /\ Await("finish")
    BY <1>4, <2>1 DEF At
  <2>2. CASE At("loop") /\ MainGoes("finish") /\ UNCHANGED <<pending, task>>
    <3>1. mainThread.pc = "loop" /\ mainThread'.pc = "finish"
      BY <1>0, <2>2 DEF At, MainGoes, MainState
    <3> QED  BY <2>2, <3>1 DEF FlightInv, Active, InFlight, Running, Closing
  <2>3. CASE At("finish") /\ pending = <<>> /\ MainGoes("classify") /\ UNCHANGED <<pending, task>>
    <3>1. mainThread.pc = "finish" /\ mainThread'.pc = "classify"
      BY <1>0, <2>3 DEF At, MainGoes, MainState
    <3> QED  BY <2>3, <3>1 DEF FlightInv, Active, InFlight, Running, Closing
  <2> QED  BY <1>7, <2>1, <2>2, <2>3 DEF Finish
<1>8. CASE ClassifyCheckpoints \/ PublishPart \/ PublishRoot
  <2>1. /\ mainThread.pc \in {"classify", "publish"} /\ UNCHANGED <<task, pending>>
        /\ mainThread'.pc \in Closing \cup {"raised"}
    <3>1. CASE ClassifyCheckpoints
      BY <1>0, <3>1 DEF ClassifyCheckpoints, MainGoes, At, MainState, Closing
    <3>2. CASE PublishPart
      BY <1>0, <3>2 DEF PublishPart, MainGoes, At, MainState, Closing
    <3>3. CASE PublishRoot
      BY <1>0, <3>3 DEF PublishRoot, MainGoes, At, MainState, Closing
    <3> QED  BY <1>8, <3>1, <3>2, <3>3
  <2> QED  BY <2>1 DEF FlightInv, Active, InFlight, Running, Closing
<1>9. CASE WriteReceipt
  <2>1. mainThread.pc = "receipt" /\ mainThread'.pc = "done" /\ UNCHANGED <<task, pending>>
    BY <1>0, <1>9 DEF WriteReceipt, MainGoes, At, MainState
  <2>2. \A i \in Issuers : ~Active(i)
    BY <2>1, EmptyElements DEF FlightInv, InFlight, Running, Closing
  <2> QED  BY <2>1, <2>2 DEF FlightInv, Active, Running, Closing
<1>10. ASSUME NEW j \in Issuers, Pool(j)  PROVE FlightInv'
  <2>1. UNCHANGED <<mainThread, pending>>
    BY <1>10 DEF Pool, Pin, Save
  <2>2. \A i \in Issuers : Active(i)' => Active(i)
    <3>1. \A i \in Issuers : i # j => task'[i] = task[i]
      BY <1>10 DEF Pool, Pin, Save, PipelineTypeOK
    <3>2. Active(j)
      BY <1>10 DEF Pool, Pin, Save, Active
    <3> QED  BY <3>1, <3>2 DEF Active
  <2> QED  BY <2>1, <2>2 DEF FlightInv, InFlight
<1>11. CASE UNCHANGED pipelineVars
  BY <1>11 DEF pipelineVars, FlightInv, Active, InFlight
<1> QED
  BY <1>1, <1>2, <1>3, <1>5, <1>6, <1>7, <1>8, <1>9, <1>10, <1>11 DEF PipelineNext, Main

-----------------------------------------------------------------------------
(* What the main thread has gone past *)

\* Every issuer the main thread has gone past stays covered when it awaits.
LEMMA AwaitCovers ==
  ASSUME PipelineTypeOK, PoolInv, NEW then, Await(then)
  PROVE  /\ \A i \in Issuers : CheckedIssuers(i) \/ i \in InFlight => CheckedIssuers(i)' \/ i \in InFlight'
                                 \/ MainGoes("raised")
         /\ UNCHANGED check
<1>1. UNCHANGED check
  BY DEF Await, disk
<1>2. \A i \in Issuers : CheckedIssuers(i)' <=> CheckedIssuers(i)
  BY <1>1 DEF CheckedIssuers
<1> QED  BY <1>1, <1>2, AwaitCases

LEMMA ProgressStep ==
  ASSUME PipelineTypeOK, PoolInv, FlightInv, ProgressInv, StageIsTrue, [PipelineNext]_pipelineVars
  PROVE  ProgressInv'
<1> USE PipelineAssumption
<1>0. mainThread \in MainState
  BY DEF PipelineTypeOK
<1>1. CASE StartPipeline
  <2>1. \/ mainThread'.pc = "raised"
        \/ /\ mainThread'.pc = "loop" /\ mainThread'.index = 1
           /\ mainThread'.stages = {n \in ExpansionStages : receipts[n] = "PASS"}
    BY <1>1 DEF StartPipeline
  <2>2. check' = check
    BY <1>1 DEF StartPipeline, disk
  <2>3. \A i \in Issuers : ~(i < 1)
    BY DEF Issuers
  <2> QED  BY <2>1, <2>2, <2>3 DEF ProgressInv, StageIsTrue, Running, Closing, CheckedIssuers
<1>2. CASE Skip
  <2>1. /\ mainThread.pc = "loop" /\ mainThread.index \in Issuers /\ CheckedIssuers(mainThread.index)
        /\ UNCHANGED <<check, pending>>
        /\ mainThread'.stages = mainThread.stages
    BY <1>0, <1>2 DEF Skip, At, MainState, Issuers, disk
  <2>2. mainThread'.pc = "raised" \/ (mainThread'.pc = "loop" /\ mainThread'.index = mainThread.index + 1)
    BY <1>0, <1>2, <2>1 DEF Skip, MainState
  <2>3. \A i \in Issuers : i < mainThread.index + 1 => i < mainThread.index \/ i = mainThread.index
    BY <2>1 DEF Issuers
  <2> QED  BY <2>1, <2>2, <2>3 DEF ProgressInv, Running, Closing, CheckedIssuers, InFlight
<1>3. CASE Exhaust \/ Fault
  <2>1. /\ mainThread.pc = "loop" /\ UNCHANGED <<check, pending>>
        /\ mainThread'.stages = mainThread.stages /\ mainThread'.index = mainThread.index
        /\ mainThread'.pc = "raised" \/ (mainThread'.pc = "finish" /\ mainThread'.reason)
    BY <1>0, <1>3 DEF Exhaust, Fault, MainGoes, At, MainState, disk
  <2> QED  BY <2>1 DEF ProgressInv, Running, Closing, CheckedIssuers, InFlight
<1>4. CASE Submit
  <2>1. PICK record \in Outcome(mainThread.index) : HandOver(record)
    BY <1>4 DEF Submit
  <2>2. mainThread.index \in Issuers /\ mainThread.pc = "loop"
    BY <1>4 DEF Submit, PipelineTypeOK, MainState, Issuers, At
  <2>3. /\ mainThread'.pc = "wait" /\ mainThread'.index = mainThread.index /\ mainThread'.stages = mainThread.stages
        /\ UNCHANGED check
    BY <1>0, <2>1 DEF HandOver, MainState, disk
  <2>4. InFlight' = InFlight \cup {mainThread.index}
    BY <2>1, <2>2, AppendElements DEF HandOver, InFlight, PipelineTypeOK
  <2>5. \A i \in Issuers : i <= mainThread.index => i < mainThread.index \/ i = mainThread.index
    BY <2>2 DEF Issuers
  <2> QED  BY <2>2, <2>3, <2>4, <2>5 DEF ProgressInv, Running, Closing, CheckedIssuers
<1>5. CASE Throttle
  <2>1. mainThread.pc = "wait"
    BY <1>5 DEF Throttle, At
  <2>2. CASE Await("mark")
    <3>1. \/ mainThread'.pc = "raised"
          \/ mainThread'.pc = "mark" /\ ~MainGoes("raised")
      BY <1>0, <2>1, <2>2, AwaitCases DEF MainGoes, MainState
    <3>2. mainThread'.index = mainThread.index /\ mainThread'.stages = mainThread.stages
      BY <1>0, <2>2 DEF Await, MainGoes, MainState
    <3> QED  BY <2>1, <2>2, <3>1, <3>2, AwaitCovers DEF ProgressInv, Running, Closing, CheckedIssuers
  <2>3. CASE MainGoes("mark") /\ UNCHANGED <<disk, pending>>
    <3>1. /\ mainThread'.pc = "mark" /\ mainThread'.index = mainThread.index /\ mainThread'.stages = mainThread.stages
          /\ UNCHANGED <<check, pending>>
      BY <1>0, <2>3 DEF MainGoes, MainState, disk
    <3> QED  BY <2>1, <3>1 DEF ProgressInv, Running, Closing, CheckedIssuers, InFlight
  <2> QED  BY <1>5, <2>2, <2>3 DEF Throttle
<1>6. CASE Mark
  <2>1. mainThread.pc = "mark" /\ mainThread.index \in Issuers
    BY <1>6 DEF Mark, At, ProgressInv
  <2>0. \A i \in Issuers : i < mainThread.index + 1 => i <= mainThread.index
    BY <2>1 DEF Issuers
  <2>2. CASE Await("mark")
    <3>1. \/ mainThread'.pc = "raised"
          \/ mainThread'.pc = "mark" /\ ~MainGoes("raised")
      BY <1>0, <2>1, <2>2, AwaitCases DEF MainGoes, MainState
    <3>2. mainThread'.index = mainThread.index /\ mainThread'.stages = mainThread.stages
      BY <1>0, <2>2 DEF Await, MainGoes, MainState
    <3> QED  BY <2>1, <2>2, <3>1, <3>2, AwaitCovers DEF ProgressInv, Running, Closing, CheckedIssuers
  <2>3. CASE /\ mainThread' = [mainThread EXCEPT !.pc = "loop", !.index = @ + 1]
             /\ UNCHANGED <<disk, pending>>
    <3>1. /\ mainThread'.pc = "loop" /\ mainThread'.index = mainThread.index + 1 /\ mainThread'.stages = mainThread.stages
          /\ UNCHANGED <<check, pending>>
      BY <1>0, <2>3 DEF MainState, disk
    <3> QED  BY <2>0, <2>1, <3>1 DEF ProgressInv, Running, Closing, CheckedIssuers, InFlight
  <2>4. CASE /\ pending = <<>>
             /\ mainThread' = [mainThread EXCEPT !.pc = "loop", !.index = @ + 1,
                                     !.stages = @ \cup {mainThread.index}]
             /\ UNCHANGED <<check, pending>>
    <3>1. /\ mainThread'.pc = "loop" /\ mainThread'.index = mainThread.index + 1
          /\ mainThread'.stages = mainThread.stages \cup {mainThread.index}
      BY <1>0, <2>4 DEF MainState
    <3>2. InFlight = {} /\ InFlight' = {}
      BY <2>4, EmptyElements DEF InFlight
    <3>3. \A i \in Issuers : i <= mainThread.index => CheckedIssuers(i)
      BY <2>1, <3>2 DEF ProgressInv
    <3>4. \A i \in 1..mainThread.index : i \in Issuers /\ i <= mainThread.index
      BY <2>1 DEF Issuers
    <3> QED  BY <2>0, <2>1, <2>4, <3>1, <3>3, <3>4 DEF ProgressInv, Running, Closing, CheckedIssuers
  <2> QED  BY <1>6, <2>2, <2>3, <2>4 DEF Mark
<1>7. CASE Finish
  <2>1. CASE At("finish") /\ Await("finish")
    <3>1. \/ mainThread'.pc = "raised"
          \/ mainThread'.pc = "finish" /\ ~MainGoes("raised")
      BY <1>0, <2>1, AwaitCases DEF At, MainGoes, MainState
    <3>2. /\ mainThread.pc = "finish" /\ mainThread'.index = mainThread.index /\ mainThread'.stages = mainThread.stages
          /\ mainThread'.reason = mainThread.reason
      BY <1>0, <2>1 DEF At, Await, MainGoes, MainState
    <3> QED  BY <2>1, <3>1, <3>2, AwaitCovers DEF ProgressInv, Running, Closing, CheckedIssuers
  <2>2. CASE At("loop") /\ mainThread.index > Last /\ MainGoes("finish") /\ UNCHANGED <<disk, pending>>
    <3>1. /\ mainThread.pc = "loop" /\ mainThread'.pc = "finish" /\ mainThread'.index = mainThread.index
          /\ mainThread'.stages = mainThread.stages /\ UNCHANGED <<check, pending>>
      BY <1>0, <2>2 DEF At, MainGoes, MainState, disk
    <3> QED  BY <2>2, <3>1 DEF ProgressInv, Running, Closing, CheckedIssuers, InFlight
  <2>3. CASE At("finish") /\ pending = <<>> /\ MainGoes("classify") /\ UNCHANGED <<disk, pending>>
    <3>1. /\ mainThread.pc = "finish" /\ mainThread'.pc = "classify" /\ mainThread'.reason = mainThread.reason
          /\ mainThread'.stages = mainThread.stages /\ UNCHANGED check
      BY <1>0, <2>3 DEF At, MainGoes, MainState, disk
    <3>2. ~mainThread.reason => \A i \in Issuers : i < mainThread.index
      BY <1>0, <3>1 DEF ProgressInv, Issuers, MainState
    <3>3. ~mainThread.reason => \A i \in Issuers : CheckedIssuers(i)
      BY <2>3, <3>1, <3>2, EmptyElements DEF ProgressInv, InFlight
    <3> QED  BY <3>1, <3>3 DEF ProgressInv, Running, Closing, CheckedIssuers
  <2> QED  BY <1>7, <2>1, <2>2, <2>3 DEF Finish
<1>8. CASE ClassifyCheckpoints \/ PublishPart \/ PublishRoot
  <2>1. /\ mainThread.pc \in Closing /\ mainThread'.pc \in Closing \cup {"raised"}
        /\ mainThread'.reason = mainThread.reason /\ mainThread'.stages = mainThread.stages
    <3>1. CASE ClassifyCheckpoints
      BY <1>0, <3>1 DEF ClassifyCheckpoints, MainGoes, At, MainState, Closing
    <3>2. CASE PublishPart
      BY <1>0, <3>2 DEF PublishPart, MainGoes, At, MainState, Closing
    <3>3. CASE PublishRoot
      BY <1>0, <3>3 DEF PublishRoot, MainGoes, At, MainState, Closing
    <3> QED  BY <1>8, <3>1, <3>2, <3>3
  <2>2. \A i \in Issuers : CheckedIssuers(i) => CheckedIssuers(i)'
    BY Kept DEF CheckedIssuers
  <2>3. \A n \in mainThread.stages : \A i \in 1..n : i \in Issuers
    BY <1>0 DEF MainState, Issuers
  <2> QED  BY <2>1, <2>2, <2>3 DEF ProgressInv, Running, Closing
<1>9. CASE WriteReceipt
  <2>1. mainThread'.pc = "done"
    BY <1>0, <1>9 DEF WriteReceipt, MainGoes, MainState
  <2> QED  BY <2>1 DEF ProgressInv, Running, Closing
<1>10. ASSUME NEW j \in Issuers, Pool(j)  PROVE ProgressInv'
  <2>1. UNCHANGED <<mainThread, pending>>
    BY <1>10 DEF Pool, Pin, Save
  <2>2. \A i \in Issuers : CheckedIssuers(i) => CheckedIssuers(i)'
    BY <1>10, Kept DEF CheckedIssuers, PipelineNext
  <2>3. \A n \in mainThread.stages : \A i \in 1..n : i \in Issuers
    BY <1>0 DEF MainState, Issuers
  <2> QED  BY <2>1, <2>2, <2>3 DEF ProgressInv, InFlight
<1>11. CASE KillPipeline
  <2>1. mainThread'.pc = "idle"
    BY <1>0, <1>11 DEF KillPipeline, MainGoes, MainState
  <2> QED  BY <2>1 DEF ProgressInv, Running, Closing
<1>12. CASE UNCHANGED pipelineVars
  BY <1>12 DEF pipelineVars, disk, ProgressInv, CheckedIssuers, InFlight
<1> QED
  BY <1>1, <1>2, <1>3, <1>4, <1>5, <1>6, <1>7, <1>8, <1>9, <1>10, <1>11, <1>12 DEF PipelineNext, Main

-----------------------------------------------------------------------------
(* Publication *)

\* While a catalog is published nothing changes the checkpoints.
LEMMA ClosingIsQuiet ==
  ASSUME FlightInv, mainThread.pc \in Closing
  PROVE  \A i \in Issuers : ~Active(i)
BY EmptyElements DEF FlightInv, InFlight, Running, Closing

\* A new root is the catalog of the checkpoints, which are classified.
LEMMA RootChange ==
  ASSUME [PipelineNext]_pipelineVars
  PROVE  \/ roots' = roots
         \/ PublishRoot /\ roots' = roots \cup {check} /\ UNCHANGED <<check, catalogs, bodies>>
<1>1. CASE PublishRoot
  BY <1>1 DEF PublishRoot, disk
<1>2. CASE Submit \/ StartPipeline \/ Skip \/ Exhaust \/ Fault
  BY <1>2 DEF Submit, HandOver, StartPipeline, Skip, Exhaust, Fault, cloud
<1>3. CASE Throttle \/ Mark \/ Finish
  BY <1>3 DEF Throttle, Mark, Finish, Await, cloud
<1>4. CASE ClassifyCheckpoints \/ PublishPart \/ WriteReceipt \/ KillPipeline
  BY <1>4 DEF ClassifyCheckpoints, PublishPart, WriteReceipt, KillPipeline, cloud
<1>5. CASE (\E i \in Issuers : Pool(i)) \/ UNCHANGED pipelineVars
  BY <1>5 DEF Pool, Pin, Save, pipelineVars, cloud
<1> QED  BY <1>1, <1>2, <1>3, <1>4, <1>5 DEF PipelineNext, Main

LEMMA PublishStep ==
  ASSUME PipelineTypeOK, PoolInv, FlightInv, PublishInv, [PipelineNext]_pipelineVars
  PROVE  PublishInv'
<1>0. mainThread \in MainState
  BY DEF PipelineTypeOK
<1>a. \A r \in roots' : \A i \in Issuers :
        r[i].status # "NONE" => r[i].known /\ check'[i] = r[i]
  <2>1. CASE roots' = roots
    <3>1. \A r \in roots : \A i \in Issuers :
            r[i].status # "NONE" => r[i].known /\ check[i] = r[i] /\ CheckedIssuers(i)
      BY DEF PublishInv, CheckedIssuers
    <3> QED  BY <2>1, <3>1, Kept
  <2>2. CASE PublishRoot /\ roots' = roots \cup {check} /\ UNCHANGED check
    <3>1. mainThread.pc = "publish"
      BY <2>2 DEF PublishRoot, At
    <3> QED  BY <2>2, <3>1 DEF PublishInv, CheckedIssuers
  <2> QED  BY <2>1, <2>2, RootChange
<1>1. CASE StartPipeline
  <2>1. mainThread'.pc \in {"raised", "loop"} /\ mainThread'.part = 0
    BY <1>1 DEF StartPipeline
  <2> QED  BY <1>a, <2>1 DEF PublishInv, Running
<1>2. CASE Skip \/ Exhaust \/ Fault \/ Submit
  <2>1. /\ mainThread.pc = "loop" /\ mainThread'.pc \in {"loop", "finish", "raised", "wait"}
        /\ mainThread'.part = mainThread.part
    <3>1. CASE Skip
      BY <1>0, <3>1 DEF Skip, At, MainState
    <3>2. CASE Exhaust \/ Fault
      BY <1>0, <3>2 DEF Exhaust, Fault, At, MainGoes, MainState
    <3>3. CASE Submit
      BY <1>0, <3>3 DEF Submit, HandOver, At, MainState
    <3> QED  BY <1>2, <3>1, <3>2, <3>3
  <2> QED  BY <1>a, <2>1 DEF PublishInv, Running
<1>3. CASE Throttle \/ Mark \/ Finish
  <2>1. /\ mainThread.pc \in {"loop", "wait", "mark", "finish"}
        /\ mainThread'.pc \in {"loop", "mark", "finish", "classify", "raised"}
        /\ mainThread'.part = mainThread.part
    <3>1. CASE Throttle
      BY <1>0, <3>1 DEF Throttle, Await, At, MainGoes, MainState
    <3>2. CASE Mark
      BY <1>0, <3>2 DEF Mark, Await, At, MainGoes, MainState
    <3>3. CASE Finish
      BY <1>0, <3>3 DEF Finish, Await, At, MainGoes, MainState
    <3> QED  BY <1>3, <3>1, <3>2, <3>3
  <2> QED  BY <1>a, <2>1 DEF PublishInv, Running
<1>4. CASE ClassifyCheckpoints
  <2>1. /\ mainThread.pc = "classify" /\ mainThread.part = 0 /\ mainThread'.part = mainThread.part
        /\ mainThread'.pc \in {"classify", "raised", "publish"}
    BY <1>0, <1>4 DEF ClassifyCheckpoints, At, MainGoes, MainState, PublishInv, Running
  <2>2. CASE mainThread'.pc # "publish"
    BY <1>a, <2>1, <2>2 DEF PublishInv, Running
  <2>3. CASE mainThread'.pc = "publish"
    <3>1. Unclassified = {} /\ check' = check
      BY <1>0, <1>4, <2>1, <2>3 DEF ClassifyCheckpoints, MainGoes, MainState
    <3>2. \A i \in Issuers : CheckedIssuers(i) => check[i].known
      BY <3>1 DEF Unclassified
    <3>3. 1..mainThread'.part = {}
      BY <2>1
    <3> QED  BY <1>a, <2>1, <2>3, <3>1, <3>2, <3>3 DEF PublishInv, Running, CheckedIssuers
  <2> QED  BY <2>2, <2>3
<1>5. CASE PublishPart
  <2>1. /\ mainThread.pc = "publish" /\ check' = check
        /\ \/ mainThread'.pc = "raised"
           \/ /\ mainThread'.pc = "publish" /\ mainThread'.part = mainThread.part + 1
              /\ catalogs' = catalogs \cup {<<check, Parts[mainThread.part + 1]>>}
    BY <1>0, <1>5 DEF PublishPart, At, MainGoes, MainState, disk
  <2>2. \A k \in 1..(mainThread.part + 1) : k \in 1..mainThread.part \/ k = mainThread.part + 1
    BY <1>0 DEF MainState
  <2> QED  BY <1>a, <2>1, <2>2 DEF PublishInv, Running, CheckedIssuers
<1>6. CASE PublishRoot
  <2>1. /\ mainThread.pc = "publish" /\ check' = check
        /\ \/ mainThread'.pc = "raised"
           \/ mainThread'.pc = "receipt" /\ roots' = roots \cup {check}
    BY <1>0, <1>6 DEF PublishRoot, At, MainGoes, MainState, disk
  <2> QED  BY <1>a, <2>1 DEF PublishInv, Running, CheckedIssuers
<1>7. CASE WriteReceipt \/ KillPipeline
  <2>1. mainThread'.pc \in {"done", "idle"}
    BY <1>0, <1>7 DEF WriteReceipt, KillPipeline, MainGoes, MainState
  <2> QED  BY <1>a, <2>1 DEF PublishInv, Running
<1>8. ASSUME NEW j \in Issuers, Pool(j)  PROVE PublishInv'
  <2>1. UNCHANGED <<mainThread, catalogs, roots>> /\ Active(j)
    BY <1>8 DEF Pool, Pin, Save, Active, cloud
  <2>2. mainThread.pc \notin {"publish", "receipt"}
    BY <2>1, ClosingIsQuiet DEF Closing
  <2> QED  BY <1>a, <2>1, <2>2 DEF PublishInv
<1>9. CASE UNCHANGED pipelineVars
  BY <1>9 DEF pipelineVars, disk, cloud, PublishInv, CheckedIssuers
<1> QED
  BY <1>1, <1>2, <1>3, <1>4, <1>5, <1>6, <1>7, <1>8, <1>9 DEF PipelineNext, Main

-----------------------------------------------------------------------------
(* The properties *)

LEMMA BodyStep ==
  ASSUME PipelineTypeOK, PoolInv, BodyBeforeCheckpoint, [PipelineNext]_pipelineVars
  PROVE  BodyBeforeCheckpoint'
<1> SUFFICES ASSUME NEW i \in Issuers, check'[i].status = "USABLE"
             PROVE  i \in bodies'
  BY DEF BodyBeforeCheckpoint
<1>1. CASE check[i].status = "USABLE"
  BY <1>1, Kept DEF BodyBeforeCheckpoint
<1>2. CASE check[i].status # "USABLE"
  <2>1. ~CheckedIssuers(i)
    BY <1>2, Kept DEF CheckedIssuers
  <2>2. Save(i)
    <3>1. CASE check' = check
      BY <1>2, <3>1
    <3>2. ASSUME NEW j \in Issuers, Save(j)  PROVE Save(i)
      <4>1. j # i => check'[i] = check[i]
        BY <3>2 DEF Save, PipelineTypeOK, Records
      <4> QED  BY <1>2, <3>2, <4>1
    <3>3. ASSUME NEW j \in Issuers, check' = [check EXCEPT ![j].known = TRUE]  PROVE Save(i)
      <4>1. check'[i].status = check[i].status
        BY <3>3 DEF PipelineTypeOK, Records, Record
      <4> QED  BY <1>2, <4>1
    <3>4. CASE ClassifyCheckpoints
      BY <3>1, <3>3, <3>4 DEF ClassifyCheckpoints, Unclassified
    <3>5. CASE StartPipeline \/ Submit \/ KillPipeline \/ (\E j \in Issuers : Pin(j))
      <4>1. check' = check
        BY <3>5 DEF StartPipeline, Submit, HandOver, KillPipeline, Pin, disk
      <4> QED  BY <3>1, <4>1
    <3> QED  BY <3>1, <3>2, <3>4, <3>5, MainFrame DEF PipelineNext, Main, Pool
  <2>3. task[i].phase = "save" /\ task[i].record.status = "USABLE" /\ bodies' = bodies
    BY <1>2, <2>2 DEF Save, PipelineTypeOK, Records, cloud
  <2> QED  BY <2>3 DEF PoolInv
<1> QED  BY <1>1, <1>2

LEMMA StageStep ==
  ASSUME PipelineTypeOK, PoolInv, ProgressInv, StageIsTrue, [PipelineNext]_pipelineVars
  PROVE  StageIsTrue'
<1> USE PipelineAssumption
<1>0. \A n \in ExpansionStages : \A i \in 1..n : i \in Issuers
  BY DEF Issuers
<1>1. \A i \in Issuers : CheckedIssuers(i) => CheckedIssuers(i)'
  BY Kept DEF CheckedIssuers
<1>2. CASE \A n \in ExpansionStages : receipts'[n] = "PASS" => receipts[n] = "PASS"
  BY <1>0, <1>1, <1>2 DEF StageIsTrue
<1>3. CASE /\ At("mark") /\ mainThread.index \in ExpansionStages /\ pending = <<>>
           /\ receipts' = [receipts EXCEPT ![mainThread.index] = "PASS"]
  <2>1. InFlight = {}
    BY <1>3, EmptyElements DEF InFlight
  <2>2. \A i \in Issuers : i <= mainThread.index => CheckedIssuers(i)
    BY <1>3, <2>1 DEF At, ProgressInv
  <2>3. \A i \in 1..mainThread.index : CheckedIssuers(i)
    <3>1. \A i \in 1..mainThread.index : i \in Issuers /\ i <= mainThread.index
      <4>1. mainThread.index \in Issuers
        BY <1>3
      <4>2. mainThread.index \in 1..Last /\ Last \in Nat
        BY <4>1 DEF Issuers
      <4> QED  BY <4>2 DEF Issuers
    <3> QED  BY <2>2, <3>1
  <2>4. \A n \in ExpansionStages : receipts'[n] = "PASS" => receipts[n] = "PASS" \/ n = mainThread.index
    BY <1>3 DEF PipelineTypeOK
  <2> QED  BY <1>0, <1>1, <2>3, <2>4 DEF StageIsTrue
<1>4. CASE KillPipeline
  <2>1. receipts' = receipts \/ \E m \in ExpansionStages : receipts' = [receipts EXCEPT ![m] = "TORN"]
    BY <1>4 DEF KillPipeline
  <2>2. \A n \in ExpansionStages : receipts'[n] = "PASS" => receipts[n] = "PASS"
    BY <2>1 DEF PipelineTypeOK
  <2> QED  BY <1>2, <2>2
<1>5. CASE receipts' = receipts
  BY <1>2, <1>5
<1>6. CASE Mark
  BY <1>3, <1>5, <1>6 DEF Mark, Await, disk
<1>7. CASE StartPipeline \/ Skip \/ Exhaust \/ Fault \/ Submit \/ Throttle \/ Finish
  BY <1>5, <1>7 DEF StartPipeline, Skip, Exhaust, Fault, Submit, HandOver, Throttle, Finish, Await, disk
<1>8. CASE ClassifyCheckpoints \/ PublishPart \/ PublishRoot \/ WriteReceipt
  BY <1>5, <1>8 DEF ClassifyCheckpoints, PublishPart, PublishRoot, WriteReceipt, disk
<1>9. CASE (\E j \in Issuers : Pool(j)) \/ UNCHANGED pipelineVars
  BY <1>5, <1>9 DEF Pool, Pin, Save, pipelineVars, disk
<1> QED  BY <1>4, <1>6, <1>7, <1>8, <1>9 DEF PipelineNext, Main

LEMMA RootStep ==
  ASSUME PipelineTypeOK, PoolInv, PublishInv, BodyBeforeCheckpoint, RootIsServable, [PipelineNext]_pipelineVars
  PROVE  RootIsServable'
<1>1. CASE roots' = roots
  BY <1>1, Kept DEF RootIsServable
<1>2. CASE PublishRoot /\ roots' = roots \cup {check} /\ UNCHANGED <<check, catalogs, bodies>>
  <2>1. mainThread.pc = "publish" /\ mainThread.part = Len(Parts)
    BY <1>2 DEF PublishRoot, At
  <2>2. \A k \in 1..Len(Parts) : <<check, Parts[k]>> \in catalogs
    BY <2>1 DEF PublishInv
  <2> QED  BY <1>2, <2>2 DEF RootIsServable, BodyBeforeCheckpoint
<1> QED  BY <1>1, <1>2, RootChange

LEMMA ReceiptStep ==
  ASSUME PipelineTypeOK, PoolInv, ProgressInv, PublishInv, ReceiptIsHonest, [PipelineNext]_pipelineVars
  PROVE  ReceiptIsHonest'
<1>1. CASE publication' = publication
  BY <1>1, Kept DEF ReceiptIsHonest
<1>2. CASE WriteReceipt
  <2>1. /\ mainThread.pc = "receipt" /\ roots' = roots
        /\ publication' = [records |-> check, stages |-> mainThread.stages, reason |-> mainThread.reason]
    BY <1>2 DEF WriteReceipt, At, cloud
  <2>2. check \in roots
    BY <2>1 DEF PublishInv
  <2>3. /\ \A n \in mainThread.stages : \A i \in 1..n : check[i].status # "NONE"
        /\ ~mainThread.reason => \A i \in Issuers : check[i].status # "NONE"
    BY <2>1 DEF ProgressInv, Running, Closing, CheckedIssuers
  <2> QED  BY <2>1, <2>2, <2>3 DEF ReceiptIsHonest
<1>3. CASE StartPipeline \/ Skip \/ Exhaust \/ Fault \/ Submit \/ Throttle \/ Mark \/ Finish
  BY <1>1, <1>3 DEF StartPipeline, Skip, Exhaust, Fault, Submit, HandOver, Throttle, Mark, Finish,
                    Await, disk
<1>4. CASE ClassifyCheckpoints \/ PublishPart \/ PublishRoot \/ KillPipeline
  BY <1>1, <1>4 DEF ClassifyCheckpoints, PublishPart, PublishRoot, KillPipeline, disk
<1>5. CASE (\E j \in Issuers : Pool(j)) \/ UNCHANGED pipelineVars
  BY <1>1, <1>5 DEF Pool, Pin, Save, pipelineVars, disk
<1> QED  BY <1>2, <1>3, <1>4, <1>5 DEF PipelineNext, Main

LEMMA InitInv == PipelineInit => Inv
<1> USE PipelineAssumption
<1> SUFFICES ASSUME PipelineInit  PROVE Inv
  OBVIOUS
<1>1. /\ NoRecord \in Record /\ NoTask \in TaskState
  BY DEF NoRecord, Record, NoTask, TaskState
<1>2. mainThread \in MainState
  <2>1. 1 \in 1..(Last + 1) /\ 0 \in 0..Spend /\ 0 \in 0..Len(Parts) /\ 0 \in 0..MaxRuns
    BY DEF Parts
  <2> QED  BY <2>1 DEF PipelineInit, MainState, Counter
<1>3. check \in Records /\ task \in [Issuers -> TaskState]
  BY <1>1 DEF PipelineInit, Records
<1>4. publication \in [records : Records, stages : SUBSET ExpansionStages, reason : BOOLEAN]
  BY <1>1 DEF PipelineInit, Nothing, Records
<1>5. PipelineTypeOK
  BY <1>2, <1>3, <1>4 DEF PipelineInit, PipelineTypeOK
<1>6. \A i \in Issuers : ~Active(i) /\ task[i].phase = "none" /\ task[i].record.status = "NONE"
                        /\ check[i].status = "NONE"
  BY DEF PipelineInit, NoTask, NoRecord, Active
<1>7. PoolInv
  BY <1>6 DEF PoolInv
<1>8. FlightInv /\ ProgressInv /\ PublishInv
  BY <1>6 DEF PipelineInit, FlightInv, ProgressInv, PublishInv, Running, Closing
<1>9. BodyBeforeCheckpoint /\ StageIsTrue /\ RootIsServable /\ ReceiptIsHonest
  BY <1>6 DEF PipelineInit, BodyBeforeCheckpoint, StageIsTrue, RootIsServable, ReceiptIsHonest
<1> QED  BY <1>5, <1>7, <1>8, <1>9 DEF Inv

LEMMA NextInv == Inv /\ [PipelineNext]_pipelineVars => Inv'
<1> SUFFICES ASSUME Inv, [PipelineNext]_pipelineVars  PROVE Inv'
  OBVIOUS
<1>1. /\ PipelineTypeOK /\ PoolInv /\ FlightInv /\ ProgressInv /\ PublishInv
      /\ BodyBeforeCheckpoint /\ StageIsTrue /\ RootIsServable /\ ReceiptIsHonest
  BY DEF Inv
<1>2. PipelineTypeOK' /\ PoolInv' /\ FlightInv'
  BY <1>1, TypeStep, PoolStep, FlightStep
<1>3. ProgressInv' /\ PublishInv'
  BY <1>1, ProgressStep, PublishStep
<1>4. BodyBeforeCheckpoint' /\ StageIsTrue' /\ RootIsServable' /\ ReceiptIsHonest'
  BY <1>1, BodyStep, StageStep, RootStep, ReceiptStep
<1> QED  BY <1>2, <1>3, <1>4 DEF Inv

\* Every state reachable by any number of runs, kills and failures satisfies
\* the inductive invariant.
THEOREM Invariance == PipelineSpec => []Inv
BY InitInv, NextInv, PTL DEF PipelineSpec

\* A run stays within its budget and its pool (lines 42 to 61 and 386 to 393).
THEOREM TypeCorrect == PipelineSpec => []PipelineTypeOK
<1>1. Inv => PipelineTypeOK
  BY DEF Inv
<1> QED  BY <1>1, Invariance, PTL

\* An issuer is checkpointed as usable only when its body is in the cloud
\* (finish, lines 299 to 306).
THEOREM BodiesComeFirst == PipelineSpec => []BodyBeforeCheckpoint
<1>1. Inv => BodyBeforeCheckpoint
  BY DEF Inv
<1> QED  BY <1>1, Invariance, PTL

\* A stage that has passed covers every issuer up to it (lines 405 to 415).
THEOREM StagesAreTrue == PipelineSpec => []StageIsTrue
<1>1. Inv => StageIsTrue
  BY DEF Inv
<1> QED  BY <1>1, Invariance, PTL

\* A manifest in the cloud refers to objects that are there (publish_catalog).
THEOREM RootsAreServable == PipelineSpec => []RootIsServable
<1>1. Inv => RootIsServable
  BY DEF Inv
<1> QED  BY <1>1, Invariance, PTL

\* A published catalog is never contradicted by a later run (lines 318 to 324
\* and 423 to 441).
THEOREM PublicationsAreFinal == PipelineSpec => []PublishedIsFinal
<1>1. Inv => PublishedIsFinal
  BY DEF Inv, PublishInv, PublishedIsFinal
<1> QED  BY <1>1, Invariance, PTL

\* publication.json tells what was published (lines 610 to 644).
THEOREM ReceiptsAreHonest == PipelineSpec => []ReceiptIsHonest
<1>1. Inv => ReceiptIsHonest
  BY DEF Inv
<1> QED  BY <1>1, Invariance, PTL
=============================================================================
