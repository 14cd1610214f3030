---------------------------- MODULE Worker_proofs -----------------------------
(*****************************************************************************)
(*  The thin Worker, proved for every set of jobs, companies, releases and   *)
(*  credentials, every number of deliveries, isolates and resolutions, any   *)
(*  time to live and any bound on the waits: what a delivered job leaves     *)
(*  behind, and how stale a cached pointer can be.                           *)
(*****************************************************************************)
EXTENDS SecJobs, CurrentPointer, TLAPS

-----------------------------------------------------------------------------
(* Durable jobs. *)

\* An idle consumer, and a consumer at work, are told apart by pc.
RunType == [pc : ConsumerSteps \cup {"handle", "ack"}, job : Jobs, cik : Ciks,
            release : Releases, credential : Credentials,
            what : Outcomes \cup {"computed", "query", None}, failing : BOOLEAN]

\* The types that all the steps of one invocation preserve.
LEMMA BusyRun ==
  ASSUME TypeOK, run.pc # "idle"
  PROVE  /\ run \in RunType
         /\ Slot \in Slots
         /\ CacheKey \in CacheKeys
         /\ Task \in Tasks
BY DEF Task, TypeOK, Idle, RunType, Slot, Slots, CacheKey, CacheKeys, Tasks

\* A message waits only while the platform may still deliver it.
WaitingIsAllowed ==
  \A t \in Tasks : message[t].state = "ready" => message[t].attempts < MaxDeliveries

TypeInv == TypeOK /\ WaitingIsAllowed

LEMMA EnqueueType ==
  ASSUME TypeInv, NEW j \in Jobs, Enqueue(j)
  PROVE  /\ message' \in [Tasks -> [state : {"none", "ready", "running", "acked", "dropped"},
                                    attempts : Attempts]]
         /\ WaitingIsAllowed'
BY SecJobsAssumption DEF Enqueue, TypeInv, WaitingIsAllowed, TypeOK, Attempts

LEMMA RedeliverType ==
  ASSUME TypeInv, run.pc # "idle", Redeliver
  PROVE  /\ message' \in [Tasks -> [state : {"none", "ready", "running", "acked", "dropped"},
                                    attempts : Attempts]]
         /\ WaitingIsAllowed'
<1>1. Task \in Tasks
  BY BusyRun DEF TypeInv
<1>2. message[Task].attempts \in Attempts
  BY <1>1 DEF TypeInv, TypeOK
<1>3. \E x \in {"ready", "dropped"} :
        /\ message' = [message EXCEPT ![Task].state = x]
        /\ x = "ready" => message[Task].attempts < MaxDeliveries
  BY <1>1 DEF Redeliver, TypeInv, TypeOK
<1>4. QED
  BY <1>1, <1>2, <1>3 DEF TypeInv, TypeOK, WaitingIsAllowed

LEMMA LeaveLateType ==
  ASSUME TypeOK, run.pc # "idle", LeaveLate
  PROVE  late' \subseteq Writes
BY BusyRun DEF LeaveLate, TypeOK, Writes

LEMMA CreatePartType ==
  ASSUME TypeOK, NEW t \in Slots, NEW o \in Outcomes, CreatePart(t, o)
  PROVE  part' \in [Slots -> Outcomes \cup {None}]
BY DEF CreatePart, TypeOK

LEMMA BusyRunType ==
  ASSUME run' \in RunType \/ run' = Idle
  PROVE  \/ run' = Idle
         \/ run' \in [pc : ConsumerSteps \cup {"handle", "ack"}, job : Jobs, cik : Ciks,
                      release : Releases, credential : Credentials,
                      what : Outcomes \cup {"computed", "query", None}, failing : BOOLEAN]
BY DEF RunType

\* One step of the consumer's invocation keeps the type of run.
LEMMA ConsumeType ==
  ASSUME TypeInv, Consume
  PROVE  TypeInv'
<1> USE DEF TypeInv
<1>1. run.pc # "idle"
  BY DEF Consume, ReadRoot, ReadRequest, ReadExisting, ReadCompany, ReadSource,
         ReadHistory, Put, Readback, Step
<1>2. run \in RunType
  BY <1>1, BusyRun
<1>3. run' \in RunType
  <2> USE <1>2 DEF RunType, Step, Raise, Persist, ConsumerSteps
  <2>1. CASE ReadRoot
    <3>1. \/ run' = [run EXCEPT !.pc = "request"]
          \/ run' = [run EXCEPT !.pc = "handle", !.what = "SOURCE_CONTEXT"]
      BY <2>1 DEF ReadRoot
    <3>2. QED
      BY <3>1 DEF Outcomes, Reasons, Permanent
  <2>7. CASE ReadRequest
    <3>1. \/ run' = [run EXCEPT !.pc = "existing"]
          \/ run' = [run EXCEPT !.pc = "handle", !.what = "JOB_CONTEXT"]
      BY <2>7 DEF ReadRequest
    <3>2. QED
      BY <3>1 DEF Outcomes, Reasons, Permanent
  <2>2. CASE ReadExisting \/ ReadCompany
    BY <2>2 DEF ReadExisting, ReadCompany
  <2>3. CASE ReadSource \/ ReadHistory
    BY <2>3 DEF ReadSource, ReadHistory, Outcomes
  <2>4. CASE Put
    BY <2>4 DEF Put
  <2>5. CASE Readback
    BY <2>5 DEF Readback, Outcomes, Reasons, Permanent
  <2>6. QED
    BY <2>1, <2>2, <2>3, <2>4, <2>5, <2>7 DEF Consume
<1>4. part' \in [Slots -> Outcomes \cup {None}]
  <2>1. CASE Put
    BY <2>1, <1>1, BusyRun, CreatePartType DEF Put, TypeOK
  <2>2. CASE ~Put
    BY <2>2 DEF Consume, ReadRoot, ReadRequest, ReadExisting, ReadCompany, ReadSource,
       ReadHistory, Readback, TypeOK, store
  <2>3. QED
    BY <2>1, <2>2
<1>5. computed' \subseteq CacheKeys /\ queries' \subseteq CacheKeys
  BY <1>1, BusyRun DEF Consume, ReadRoot, ReadRequest, ReadExisting, ReadCompany,
     ReadSource, ReadHistory, Put, Readback, TypeOK, store
<1>6. UNCHANGED <<worker, job, requests, message, late, poll, answer>>
  BY DEF Consume, ReadRoot, ReadRequest, ReadExisting, ReadCompany, ReadSource,
     ReadHistory, Put, Readback, store
<1>7. QED
  BY <1>3, <1>4, <1>5, <1>6 DEF TypeOK, WaitingIsAllowed, RunType

LEMMA TypeStep == TypeInv /\ [Next]_vars => TypeInv'
<1> SUFFICES ASSUME TypeInv, [Next]_vars
             PROVE  TypeInv'
  OBVIOUS
<1> USE DEF TypeInv
<1>1. ASSUME NEW r \in Releases, NEW s \in Credentials, Deploy(r, s)
      PROVE  TypeInv'
  BY <1>1, SecJobsAssumption DEF Deploy, TypeOK, WaitingIsAllowed, store
<1>2. ASSUME NEW j \in Jobs, Submission(j)
      PROVE  TypeInv'
  <2>1. CASE \E C \in SUBSET Ciks : SubmitCheck(j, C)
    BY <2>1 DEF SubmitCheck, TypeOK, WaitingIsAllowed, store, CallerPhases
  <2>2. CASE SubmitRecord(j)
    BY <2>2 DEF SubmitRecord, TypeOK, WaitingIsAllowed, CallerPhases
  <2>3. CASE SubmitSend(j)
    <3>1. Enqueue(j)
      BY <2>3 DEF SubmitSend
    <3>2. job' \in [Jobs -> [phase : CallerPhases, release : Releases,
                            credential : Credentials, ciks : SUBSET Ciks]]
      BY <2>3 DEF SubmitSend, TypeOK, CallerPhases
    <3>3. QED
      BY <2>3, <3>1, <3>2, EnqueueType DEF SubmitSend, TypeOK, store
  <2>4. CASE SubmitFail(j)
    <3>1. requests' \subseteq Jobs
      BY <2>4 DEF SubmitFail, TypeOK
    <3>2. /\ message' \in [Tasks -> [state : {"none", "ready", "running", "acked", "dropped"},
                                    attempts : Attempts]]
          /\ WaitingIsAllowed'
      <4>1. CASE Enqueue(j)
        BY <4>1, EnqueueType
      <4>2. CASE UNCHANGED message
        BY <4>2 DEF TypeOK, WaitingIsAllowed
      <4>3. QED
        BY <2>4, <4>1, <4>2 DEF SubmitFail
    <3>3. job' \in [Jobs -> [phase : CallerPhases, release : Releases,
                            credential : Credentials, ciks : SUBSET Ciks]]
      BY <2>4 DEF SubmitFail, TypeOK, CallerPhases
    <3>4. UNCHANGED <<worker, part, computed, queries, run, late, poll, answer>>
      BY <2>4 DEF SubmitFail
    <3>5. QED
      BY <3>1, <3>2, <3>3, <3>4 DEF TypeOK
  <2>5. QED
    BY <1>2, <2>1, <2>2, <2>3, <2>4 DEF Submission
<1>3. ASSUME NEW j \in Jobs, NEW c \in Ciks, Deliver(j, c)
      PROVE  TypeInv'
  <2> DEFINE t == <<j, c>>
  <2>1. t \in Tasks /\ message[t].state = "ready" /\ message[t].attempts \in Attempts
    BY <1>3 DEF Deliver, TypeOK, Tasks
  <2>5. message[t].attempts + 1 \in Attempts
    BY <2>1, SecJobsAssumption DEF Attempts, WaitingIsAllowed
  <2>2. run' \in RunType
    BY <1>3 DEF Deliver, TypeOK, Idle, ConsumerSteps, RunType
  <2>3. /\ message' \in [Tasks -> [state : {"none", "ready", "running", "acked", "dropped"},
                                   attempts : Attempts]]
        /\ WaitingIsAllowed'
    BY <1>3, <2>1, <2>5 DEF Deliver, TypeOK, WaitingIsAllowed
  <2>4. QED
    BY <1>3, <2>2, <2>3 DEF Deliver, TypeOK, store, RunType
<1>4. ASSUME QueueBatch
      PROVE  TypeInv'
  <2>1. CASE HandleFinal
    <3>1. run' \in RunType
      BY <2>1, BusyRun DEF HandleFinal, RunType, ConsumerSteps
    <3>2. QED
      BY <2>1, <3>1 DEF HandleFinal, TypeOK, WaitingIsAllowed, store, RunType
  <2>2. CASE HandleRetry \/ Escape
    BY <2>2, RedeliverType DEF HandleRetry, Escape, TypeOK, store
  <2>3. CASE Ack
    <3>1. Task \in Tasks
      BY <2>3, BusyRun DEF Ack
    <3>2. QED
      BY <2>3, <3>1 DEF Ack, TypeOK, WaitingIsAllowed, store
  <2>4. QED
    BY <1>4, <2>1, <2>2, <2>3, ConsumeType DEF QueueBatch
<1>5. ASSUME Faults
      PROVE  TypeInv'
  <2>1. ASSUME NEW reason \in {"TIMEOUT", "TRANSIENT", "PERMANENT"}, Fails(reason)
        PROVE  TypeInv'
    <3>1. run.pc # "idle"
      BY <2>1 DEF Fails, ConsumerSteps
    <3>2. run' \in RunType
      BY <2>1, <3>1, BusyRun
      DEF Fails, Raise, RunType, Outcomes, Reasons, Permanent, Transient
    <3>3. QED
      BY <2>1, <3>1, <3>2, LeaveLateType
      DEF Fails, TypeOK, WaitingIsAllowed, store, RunType
  <2>2. CASE Abandon
    BY <2>2, RedeliverType, LeaveLateType DEF Abandon, TypeOK, store
  <2>3. ASSUME NEW w \in late, Land(w)
        PROVE  TypeInv'
    BY <2>3, CreatePartType DEF Land, TypeOK, WaitingIsAllowed, Writes
  <2>4. QED
    BY <1>5, <2>1, <2>2, <2>3 DEF Faults
<1>6. ASSUME Requests
      PROVE  TypeInv'
  <2>1. ASSUME NEW c \in Ciks, ServeHistory(c)
        PROVE  TypeInv'
    BY <2>1 DEF ServeHistory, TypeOK, WaitingIsAllowed, CacheKeys
  <2>2. ASSUME NEW j \in Jobs, PollStart(j)
        PROVE  TypeInv'
    BY <2>2 DEF PollStart, NoPoll, TypeOK, WaitingIsAllowed, store
  <2>3. ASSUME NEW c \in Ciks, PollRead(c)
        PROVE  TypeInv'
    BY <2>3 DEF PollRead, TypeOK, WaitingIsAllowed, store
  <2>4. CASE PollReply
    BY <2>4 DEF PollReply, NoPoll, TypeOK, WaitingIsAllowed, store
  <2>5. QED
    BY <1>6, <2>1, <2>2, <2>3, <2>4 DEF Requests
<1>7. CASE UNCHANGED vars
  BY <1>7 DEF vars, store, TypeOK, WaitingIsAllowed
<1>8. QED
  BY <1>1, <1>2, <1>3, <1>4, <1>5, <1>6, <1>7 DEF Next

LEMMA TypeInit == Init => TypeInv
BY SecJobsAssumption
DEF Init, TypeInv, TypeOK, WaitingIsAllowed, Slots, Tasks, CacheKeys, Idle, NoPoll,
    None, CallerPhases, Attempts, Writes

\* Every variable keeps its type in every reachable state; in particular a
\* message is never delivered more often than the queue binding allows.
THEOREM TypeCorrect == Spec => []TypeOK
<1>1. TypeInv => TypeOK
  BY DEF TypeInv
<1>2. QED
  BY <1>1, TypeInit, TypeStep, PTL DEF Spec

-----------------------------------------------------------------------------
(* What every step leaves standing: the submission of a job, the objects   *)
(* that were created, and the outcomes.                                    *)

\* A step gives at most one undecided task an outcome: the consumer's put, or a
\* put that an abandoned call left behind.
LEMMA PartStep ==
  ASSUME TypeInv, [Next]_vars, NEW t \in Slots, part'[t] # part[t]
  PROVE  /\ part[t] = None
         /\ \/ /\ run.pc = "put" /\ run.what \in Outcomes
               /\ t = Slot /\ part'[t] = run.what
            \/ \E w \in late : t = w.slot /\ part'[t] = w.outcome
<1> USE DEF TypeInv
<1>1. ASSUME NEW u \in Slots, NEW o \in Outcomes, CreatePart(u, o)
      PROVE  part[t] = None /\ t = u /\ part'[t] = o
  BY <1>1 DEF CreatePart, TypeOK
<1>2. CASE Put
  <2>1. run.what \in Outcomes /\ CreatePart(Slot, run.what) /\ run.pc = "put"
    BY <1>2 DEF Put, Step
  <2>2. Slot \in Slots
    BY <2>1, BusyRun
  <2>3. QED
    BY <2>1, <2>2, <1>1
<1>3. CASE \E w \in late : Land(w)
  <2>1. PICK w \in late : CreatePart(w.slot, w.outcome)
    BY <1>3 DEF Land
  <2>2. w.slot \in Slots /\ w.outcome \in Outcomes
    BY DEF TypeOK, Writes
  <2>3. QED
    BY <2>1, <2>2, <1>1
<1>4. CASE ~Put /\ ~\E w \in late : Land(w)
  <2>1. part' = part
    BY <1>4 DEF Next, Deploy, Submission, SubmitCheck, SubmitRecord, SubmitSend, SubmitFail,
       Deliver, QueueBatch, Consume, ReadRoot, ReadRequest, ReadExisting, ReadCompany,
       ReadSource, ReadHistory, Readback, HandleFinal, HandleRetry, Ack, Escape, Faults,
       Fails, Abandon, Requests, ServeHistory, PollStart, PollRead, PollReply, store, vars
  <2>2. QED
    BY <2>1
<1>5. QED
  BY <1>2, <1>3, <1>4

\* The outcome of a task is written once (the step form of OutcomesFinal).
THEOREM OutcomesAreFinal == Spec => OutcomesFinal
<1>1. TypeInv /\ [Next]_vars =>
        [\A t \in Slots : part[t] # None => part'[t] = part[t]]_vars
  BY PartStep
<1>2. QED
  BY <1>1, TypeInit, TypeStep, PTL DEF Spec, OutcomesFinal

\* A new late write is the put that the consumer was making.
LEMMA LateStep ==
  ASSUME TypeInv, [Next]_vars, NEW w \in late', w \notin late
  PROVE  /\ run.pc = "put" /\ run.what \in Outcomes
         /\ w = [slot |-> Slot, outcome |-> run.what]
<1>1. CASE LeaveLate
  BY <1>1 DEF LeaveLate
<1>2. CASE ~LeaveLate
  BY <1>2 DEF Next, Deploy, Submission, SubmitCheck, SubmitRecord, SubmitSend, SubmitFail,
     Deliver, QueueBatch, Consume, ReadRoot, ReadRequest, ReadExisting, ReadCompany,
     ReadSource, ReadHistory, Put, Readback, HandleFinal, HandleRetry, Ack, Escape, Faults,
     Fails, Abandon, Land, Requests, ServeHistory, PollStart, PollRead, PollReply, store, vars
<1>3. QED
  BY <1>1, <1>2

\* Objects are only ever created.
LEMMA StoreGrows ==
  ASSUME [Next]_vars
  PROVE  requests \subseteq requests' /\ computed \subseteq computed' /\ queries \subseteq queries'
BY DEF Next, Deploy, Submission, SubmitCheck, SubmitRecord, SubmitSend, SubmitFail,
   Deliver, QueueBatch, Consume, ReadRoot, ReadRequest, ReadExisting, ReadCompany,
   ReadSource, ReadHistory, Put, Readback, HandleFinal, HandleRetry, Ack, Escape, Faults,
   Fails, Abandon, Land, Requests, ServeHistory, PollStart, PollRead, PollReply, store, vars

\* A submission is never changed once it was made, only its phase moves on.
LEMMA JobStep ==
  ASSUME TypeInv, [Next]_vars, NEW j \in Jobs, job[j].phase # "new"
  PROVE  /\ job'[j].phase # "new"
         /\ job'[j].release = job[j].release
         /\ job'[j].credential = job[j].credential
         /\ job'[j].ciks = job[j].ciks
         /\ job[j].phase \in {"accepted", "error"} => job'[j] = job[j]
<1> USE DEF TypeInv, TypeOK
<1>1. ASSUME NEW i \in Jobs, Submission(i)
      PROVE  /\ job'[j].phase # "new"
             /\ job'[j].release = job[j].release
             /\ job'[j].credential = job[j].credential
             /\ job'[j].ciks = job[j].ciks
             /\ job[j].phase \in {"accepted", "error"} => job'[j] = job[j]
  <2>1. CASE \E C \in SUBSET Ciks : SubmitCheck(i, C)
    BY <2>1 DEF SubmitCheck
  <2>2. CASE SubmitRecord(i)
    BY <2>2 DEF SubmitRecord
  <2>3. CASE SubmitSend(i)
    BY <2>3 DEF SubmitSend
  <2>4. CASE SubmitFail(i)
    BY <2>4 DEF SubmitFail
  <2>5. QED
    BY <1>1, <2>1, <2>2, <2>3, <2>4 DEF Submission
<1>2. CASE ~\E i \in Jobs : Submission(i)
  <2>1. job' = job
    BY <1>2 DEF Next, Deploy, Deliver, QueueBatch, Consume, ReadRoot, ReadRequest,
       ReadExisting, ReadCompany, ReadSource, ReadHistory, Put, Readback, HandleFinal,
       HandleRetry, Ack, Escape, Faults, Fails, Abandon, Land, Requests, ServeHistory,
       PollStart, PollRead, PollReply, store, vars
  <2>2. QED
    BY <2>1
<1>3. QED
  BY <1>1, <1>2

-----------------------------------------------------------------------------
(* The inductive invariant.  An outcome that is stored, on its way or      *)
(* about to be stored is justified by objects that are never removed.      *)

\* The objects that make outcome o of task t a true statement.
Justified(t, o) ==
  LET j == t[2]  key == <<t[1], job[j].release, t[3]>> IN
  /\ job[j].phase # "new"
  /\ o = "COMPLETE" => key \in queries /\ Available(key[1], key[2], key[3])
  /\ o = "QUARANTINED" => t[3] \in Unsupported
  /\ o = "JOB_CONTEXT" => t[1] # job[j].credential

\* A message exists only after the record of its job.
SubmissionInv ==
  /\ \A j \in Jobs : job[j].phase = "send" => j \in requests
  /\ \A t \in Tasks : message[t].state # "none" =>
       /\ job[t[1]].phase \in {"accepted", "error"}
       /\ t[1] \in requests
       /\ t[2] \in job[t[1]].ciks

\* What the consumer has established when it reaches each step.
Established ==
  /\ message[Task].state # "none"
  /\ run.pc \in {"request", "existing", "company", "source", "history"} =>
       run.release = job[run.job].release
  /\ run.pc = "history" => Available(run.credential, run.release, run.cik)
  /\ run.pc = "handle" => run.what \in Reasons
  /\ run.pc \in {"handle", "put", "readback"} =>
       \/ run.what \in Outcomes /\ Justified(Slot, run.what)
       \/ /\ run.what \in {"computed", "query"}
          /\ run.release = job[run.job].release
          /\ run.what = "computed" => run.cik \notin Unsupported
          /\ run.what = "query" => Available(run.credential, run.release, run.cik)
          /\ run.pc = "readback" /\ run.what = "computed" => CacheKey \in computed
          /\ run.pc = "readback" /\ run.what = "query" => CacheKey \in queries
  /\ run.pc = "ack" => part[Slot] # None

RunInv == run.pc # "idle" => Established

OutcomeInv ==
  /\ \A t \in Slots : part[t] # None => Justified(t, part[t])
  /\ \A w \in late : Justified(w.slot, w.outcome)
  /\ \A key \in computed : key[3] \notin Unsupported

IInv == TypeInv /\ SubmissionInv /\ RunInv /\ OutcomeInv /\ AckedIsDecided

LEMMA InitIInv == Init => IInv
<1> SUFFICES ASSUME Init PROVE IInv
  OBVIOUS
<1>1. TypeInv
  BY TypeInit
<1>2. SubmissionInv /\ AckedIsDecided
  BY DEF Init, SubmissionInv, AckedIsDecided, Tasks
<1>3. RunInv
  BY DEF Init, RunInv, Idle
<1>4. OutcomeInv
  BY DEF Init, OutcomeInv
<1>5. QED
  BY <1>1, <1>2, <1>3, <1>4 DEF IInv

\* A justification holds for ever.
LEMMA JustifiedStable ==
  ASSUME TypeInv, [Next]_vars, NEW t \in Slots, NEW o, Justified(t, o)
  PROVE  Justified(t, o)'
<1>1. t[2] \in Jobs /\ job[t[2]].phase # "new"
  BY DEF Slots, Justified
<1>2. /\ job'[t[2]].phase # "new"
      /\ job'[t[2]].release = job[t[2]].release
      /\ job'[t[2]].credential = job[t[2]].credential
  BY <1>1, JobStep
<1>3. queries \subseteq queries' /\ computed \subseteq computed'
  BY StoreGrows
<1>4. QED
  BY <1>2, <1>3 DEF Justified, Available

\* A message appears only when sendBatch is called, and is never forgotten.
LEMMA MessageStep ==
  ASSUME TypeInv, RunInv, [Next]_vars, NEW t \in Tasks
  PROVE  /\ message[t].state = "none" /\ message'[t].state # "none" =>
              /\ job[t[1]].phase = "send"
              /\ job'[t[1]].phase \in {"accepted", "error"}
              /\ t[2] \in job[t[1]].ciks
         /\ message[t].state # "none" => message'[t].state # "none"
         /\ message'[t].state = "acked" /\ message[t].state # "acked" =>
              /\ run.pc = "ack" /\ t = Task
<1> USE DEF TypeInv
<1>1. ASSUME NEW j \in Jobs, Submission(j)
      PROVE  /\ message[t].state = "none" /\ message'[t].state # "none" =>
                   /\ job[t[1]].phase = "send"
                   /\ job'[t[1]].phase \in {"accepted", "error"}
                   /\ t[2] \in job[t[1]].ciks
             /\ message[t].state # "none" => message'[t].state # "none"
             /\ message'[t].state = "acked" => message[t].state = "acked"
  <2>1. CASE message' = message
    BY <2>1
  <2>2. CASE /\ job[j].phase = "send" /\ Enqueue(j)
             /\ \E x \in {"accepted", "error"} : job' = [job EXCEPT ![j].phase = x]
    BY <2>2 DEF Enqueue, TypeOK
  <2>3. QED
    BY <1>1, <2>1, <2>2 DEF Submission, SubmitCheck, SubmitRecord, SubmitSend, SubmitFail
<1>2. ASSUME NEW j \in Jobs, NEW c \in Ciks, Deliver(j, c)
      PROVE  /\ message[t].state # "none" <=> message'[t].state # "none"
             /\ message'[t].state = "acked" => message[t].state = "acked"
  BY <1>2 DEF Deliver, TypeOK
<1>3. ASSUME run.pc # "idle", Redeliver
      PROVE  /\ message[t].state # "none" <=> message'[t].state # "none"
             /\ message'[t].state = "acked" => message[t].state = "acked"
  BY <1>3, BusyRun DEF Redeliver, TypeOK, RunInv, Established
<1>4. CASE Ack
  <2>1. Task \in Tasks /\ run.pc = "ack" /\ message[Task].state # "none"
    BY <1>4, BusyRun DEF Ack, RunInv, Established
  <2>2. QED
    BY <1>4, <2>1 DEF Ack, TypeOK
<1>5. CASE HandleRetry \/ Escape \/ Abandon
  BY <1>3, <1>5 DEF HandleRetry, Escape, Abandon
<1>6. CASE message' = message
  BY <1>6
<1>7. QED
  BY <1>1, <1>2, <1>4, <1>5, <1>6
  DEF Next, Deploy, QueueBatch, Consume, ReadRoot, ReadRequest,
      ReadExisting, ReadCompany, ReadSource, ReadHistory, Put, Readback, HandleFinal,
      Faults, Fails, Land, Requests, ServeHistory, PollStart, PollRead, PollReply, vars

\* submit persists the record before it sends a message.
LEMMA SubmissionStep == IInv /\ [Next]_vars => SubmissionInv'
<1> SUFFICES ASSUME IInv, [Next]_vars
             PROVE  SubmissionInv'
  OBVIOUS
<1> USE DEF IInv
<1>1. ASSUME NEW j \in Jobs, job'[j].phase = "send"
      PROVE  j \in requests'
  <2>1. CASE job[j].phase = "send"
    BY <2>1, StoreGrows DEF SubmissionInv
  <2>2. CASE job[j].phase # "send"
    <3>1. PICK i \in Jobs : Submission(i)
      BY <1>1, <2>2 DEF Next, Deploy, Deliver, QueueBatch, Consume, ReadRoot, ReadRequest,
         ReadExisting, ReadCompany, ReadSource, ReadHistory, Put, Readback, HandleFinal,
         HandleRetry, Ack, Escape, Faults, Fails, Abandon, Land, Requests, ServeHistory,
         PollStart, PollRead, PollReply, store, vars
    <3>2. SubmitRecord(j)
      BY <1>1, <2>2, <3>1 DEF Submission, SubmitCheck, SubmitRecord, SubmitSend, SubmitFail,
         TypeInv, TypeOK
    <3>3. QED
      BY <3>2 DEF SubmitRecord
  <2>3. QED
    BY <2>1, <2>2
<1>2. ASSUME NEW t \in Tasks, message'[t].state # "none"
      PROVE  /\ job'[t[1]].phase \in {"accepted", "error"}
             /\ t[1] \in requests'
             /\ t[2] \in job'[t[1]].ciks
  <2>1. t[1] \in Jobs
    BY DEF Tasks
  <2>2. CASE message[t].state # "none"
    BY <2>1, <2>2, JobStep, StoreGrows DEF SubmissionInv
  <2>3. CASE message[t].state = "none"
    <3>1. /\ job[t[1]].phase = "send"
          /\ job'[t[1]].phase \in {"accepted", "error"}
          /\ t[2] \in job[t[1]].ciks
      BY <1>2, <2>3, MessageStep
    <3>2. QED
      BY <2>1, <3>1, JobStep, StoreGrows DEF SubmissionInv
  <2>4. QED
    BY <2>2, <2>3
<1>3. QED
  BY <1>1, <1>2 DEF SubmissionInv

\* The facts about the current task that every step leaves standing.
LEMMA TaskFacts ==
  ASSUME IInv, [Next]_vars, run.pc # "idle"
  PROVE  /\ run \in RunType
         /\ Task \in Tasks /\ Slot \in Slots /\ CacheKey \in CacheKeys
         /\ Established
         /\ job[run.job].phase \in {"accepted", "error"}
         /\ job' [run.job] = job[run.job]
         /\ message'[Task].state # "none"
         /\ part[Slot] # None => part'[Slot] # None
<1> USE DEF IInv
<1>1. Task \in Tasks /\ Slot \in Slots /\ CacheKey \in CacheKeys /\ run \in RunType
  BY BusyRun DEF TypeInv
<1>2. Established
  BY DEF RunInv
<1>3. job[run.job].phase \in {"accepted", "error"}
  BY <1>1, <1>2 DEF SubmissionInv, Established, Task
<1>4. job' [run.job] = job[run.job]
  BY <1>1, <1>3, JobStep DEF RunType
<1>5. message'[Task].state # "none"
  BY <1>1, <1>2, MessageStep DEF Established
<1>6. part[Slot] # None => part'[Slot] # None
  BY <1>1, PartStep
<1>7. QED
  BY <1>1, <1>2, <1>3, <1>4, <1>5, <1>6

\* A record lookup that is refused after the release was checked means that the
\* message is handled under another credential than the submission.
LEMMA MissingRecord ==
  ASSUME IInv, ReadRequest, run' = [run EXCEPT !.pc = "handle", !.what = "JOB_CONTEXT"]
  PROVE  run.credential # job[run.job].credential
<1>1. Task \in Tasks /\ run.pc = "request"
  BY BusyRun DEF ReadRequest, IInv, TypeInv
<1>2. Established
  BY <1>1 DEF IInv, RunInv
<1>3. run.job \in requests /\ run.cik \in job[run.job].ciks /\ run.release = job[run.job].release
  BY <1>1, <1>2 DEF IInv, SubmissionInv, Established, Task
<1>4. ~Recorded(run.job, run.release, run.credential)
  <2>1. run \in RunType
    BY <1>1, BusyRun DEF IInv, TypeInv
  <2>2. run' # [run EXCEPT !.pc = "existing"]
    BY <2>1 DEF RunType
  <2>3. QED
    BY <1>1, <1>3, <2>2 DEF ReadRequest, Step
<1>5. QED
  BY <1>3, <1>4 DEF Recorded

\* The consumer reaches each step with what the step needs.
LEMMA RunStep == IInv /\ [Next]_vars => RunInv'
<1> SUFFICES ASSUME IInv, [Next]_vars, run'.pc # "idle"
             PROVE  Established'
  BY DEF RunInv
<1>1. CASE run' = run
  <2>1. run.pc # "idle"
    BY <1>1
  <2>2. Slot' = Slot /\ Task' = Task /\ CacheKey' = CacheKey
    BY <1>1 DEF Slot, Task, CacheKey
  <2>3. \A o : Justified(Slot, o) => Justified(Slot, o)'
    BY <2>1, <2>2, TaskFacts, JustifiedStable DEF IInv
  <2>4. QED
    BY <1>1, <2>1, <2>2, <2>3, TaskFacts, StoreGrows DEF Established, Available
<1>2. ASSUME NEW j \in Jobs, NEW c \in Ciks, Deliver(j, c)
      PROVE  Established'
  <2>1. <<j, c>> \in Tasks /\ message'[<<j, c>>].state = "running"
    BY <1>2 DEF Deliver, Tasks, IInv, TypeInv, TypeOK
  <2>2. run'.pc = "root" /\ Task' = <<j, c>>
    BY <1>2 DEF Deliver, Idle, Task
  <2>3. QED
    BY <2>1, <2>2 DEF Established
<1>3. ASSUME run.pc # "idle", run'.job = run.job, run'.cik = run.cik,
             run'.release = run.release, run'.credential = run.credential
      PROVE  /\ Slot' = Slot /\ Task' = Task /\ CacheKey' = CacheKey
             /\ \A o : Justified(Slot, o) => Justified(Slot, o)'
             /\ message'[Task'].state # "none"
             /\ job'[run'.job].release = job[run.job].release
  <2>1. Slot' = Slot /\ Task' = Task /\ CacheKey' = CacheKey
    BY <1>3 DEF Slot, Task, CacheKey
  <2>2. \A o : Justified(Slot, o) => Justified(Slot, o)'
    BY <1>3, <2>1, TaskFacts, JustifiedStable DEF IInv
  <2>3. QED
    BY <1>3, <2>1, <2>2, TaskFacts
<1>4. CASE ReadRoot
  <2>1. run.pc # "idle" /\ run \in RunType /\ job[run.job].phase # "new"
    BY <1>4, BusyRun, TaskFacts DEF ReadRoot, IInv, TypeInv
  <2>2. CASE run.release = job[run.job].release /\ run' = [run EXCEPT !.pc = "request"]
    BY <2>1, <2>2, <1>3 DEF RunType, Established
  <2>3. CASE run' = [run EXCEPT !.pc = "handle", !.what = "SOURCE_CONTEXT"]
    <3>1. Justified(Slot, "SOURCE_CONTEXT")
      BY <2>1 DEF Justified, Slot
    <3>2. QED
      BY <2>1, <2>3, <3>1, <1>3
      DEF RunType, Established, Outcomes, Reasons, Permanent
  <2>4. QED
    BY <1>4, <2>2, <2>3 DEF ReadRoot, Step, Raise
<1>5. CASE ReadRequest
  <2>1. /\ run.pc = "request" /\ run \in RunType /\ job[run.job].phase # "new"
        /\ run.release = job[run.job].release
    BY <1>5, BusyRun, TaskFacts DEF ReadRequest, IInv, TypeInv, Established
  <2>2. CASE run' = [run EXCEPT !.pc = "existing"]
    BY <2>1, <2>2, <1>3 DEF RunType, Established
  <2>3. CASE run' = [run EXCEPT !.pc = "handle", !.what = "JOB_CONTEXT"]
    <3>1. Justified(Slot, "JOB_CONTEXT")
      BY <1>5, <2>1, <2>3, MissingRecord DEF Justified, Slot
    <3>2. QED
      BY <2>1, <2>3, <3>1, <1>3
      DEF RunType, Established, Outcomes, Reasons, Permanent
  <2>4. QED
    BY <1>5, <2>2, <2>3 DEF ReadRequest, Step, Raise
<1>6. CASE ReadExisting \/ ReadCompany
  <2>1. /\ run.pc \in {"existing", "company"} /\ run \in RunType
        /\ run.release = job[run.job].release
    BY <1>6, BusyRun, TaskFacts DEF ReadExisting, ReadCompany, Step, IInv, TypeInv, Established
  <2>2. \/ run' = [run EXCEPT !.pc = "company"]
        \/ run' = [run EXCEPT !.pc = "source"]
        \/ run' = [run EXCEPT !.pc = "ack"] /\ part[Slot] # None
        \/ /\ run' = [run EXCEPT !.pc = "history"]
           /\ Available(run.credential, run.release, run.cik)
    BY <1>6 DEF ReadExisting, ReadCompany, Step
  <2>3. QED
    BY <2>1, <2>2, <1>3, TaskFacts, StoreGrows DEF RunType, Established, Available
<1>7. CASE ReadSource \/ ReadHistory
  <2>1. /\ run.pc \in {"source", "history"} /\ run \in RunType
        /\ run.release = job[run.job].release /\ job[run.job].phase # "new"
        /\ run.pc = "history" => Available(run.credential, run.release, run.cik)
    BY <1>7, BusyRun, TaskFacts DEF ReadSource, ReadHistory, IInv, TypeInv, Established
  <2>2. \/ /\ run' = [run EXCEPT !.pc = "put", !.what = "QUARANTINED"]
           /\ run.cik \in Unsupported
        \/ /\ run' = [run EXCEPT !.pc = "put", !.what = "computed"]
           /\ run.cik \notin Unsupported
        \/ /\ run' = [run EXCEPT !.pc = "put", !.what = "COMPLETE"]
           /\ CacheKey \in queries /\ run.pc = "history"
        \/ run' = [run EXCEPT !.pc = "put", !.what = "query"] /\ run.pc = "history"
    BY <1>7 DEF ReadSource, ReadHistory, Persist
  <2>3. CASE run'.what \in {"QUARANTINED", "COMPLETE"}
    <3>1. Justified(Slot, run'.what)
      BY <2>1, <2>2, <2>3 DEF Justified, Slot, CacheKey, RunType
    <3>2. QED
      BY <2>1, <2>2, <2>3, <3>1, <1>3 DEF RunType, Established, Outcomes
  <2>4. CASE run'.what \in {"computed", "query"}
    BY <2>1, <2>2, <2>4, <1>3, StoreGrows DEF RunType, Established, Available
  <2>5. QED
    BY <2>1, <2>2, <2>3, <2>4 DEF RunType
<1>8. CASE Put
  <2>1. run.pc = "put" /\ run \in RunType /\ run' = [run EXCEPT !.pc = "readback"]
    BY <1>8, BusyRun DEF Put, Step, IInv, TypeInv
  <2>2. Established
    BY <2>1, TaskFacts
  <2>3. CASE run.what \in Outcomes /\ Justified(Slot, run.what)
    BY <2>1, <2>3, <1>3 DEF RunType, Established, Outcomes, Reasons, Permanent, Transient
  <2>4. CASE run.what \in {"computed", "query"}
    <3>1. /\ run.what = "computed" => CacheKey \in computed'
          /\ run.what = "query" => CacheKey \in queries'
      BY <1>8, <2>4 DEF Put, Outcomes, Reasons, Permanent, Transient
    <3>2. QED
      BY <2>1, <2>2, <2>4, <3>1, <1>3, StoreGrows
      DEF RunType, Established, Available, Outcomes, Reasons, Permanent, Transient
  <2>5. QED
    BY <2>1, <2>2, <2>3, <2>4 DEF Established
<1>9. CASE Readback
  <2>1. /\ run.pc = "readback" /\ run \in RunType /\ job[run.job].phase # "new"
        /\ Established
    BY <1>9, BusyRun, TaskFacts DEF Readback, IInv, TypeInv
  <2>2. CASE run.what = "computed" /\ run' = [run EXCEPT !.pc = "history"]
    <3>1. run.release = job[run.job].release /\ CacheKey \in computed
      BY <2>1, <2>2 DEF Established, Outcomes, Reasons, Permanent, Transient
    <3>2. QED
      BY <2>1, <2>2, <3>1, <1>3, StoreGrows DEF RunType, Established, Available, CacheKey
  <2>3. CASE run.what = "query" /\ run' = [run EXCEPT !.pc = "put", !.what = "COMPLETE"]
    <3>1. /\ run.release = job[run.job].release /\ CacheKey \in queries
          /\ Available(run.credential, run.release, run.cik)
      BY <2>1, <2>3 DEF Established, Outcomes, Reasons, Permanent, Transient
    <3>2. Justified(Slot, "COMPLETE")
      BY <2>1, <3>1 DEF Justified, Slot, CacheKey
    <3>3. QED
      BY <2>1, <2>3, <3>2, <1>3 DEF RunType, Established, Outcomes
  <2>4. CASE run.what = part[Slot] /\ run' = [run EXCEPT !.pc = "ack"]
    <3>1. run.what # None
      BY <2>1 DEF Established, Outcomes, Reasons, Permanent, Transient, None
    <3>2. QED
      BY <2>1, <2>4, <3>1, <1>3, TaskFacts DEF RunType, Established
  <2>5. CASE run' = [run EXCEPT !.pc = "handle", !.what = "CONFLICT"]
    <3>1. Justified(Slot, "CONFLICT")
      BY <2>1 DEF Justified, Slot
    <3>2. QED
      BY <2>1, <2>5, <3>1, <1>3 DEF RunType, Established, Outcomes, Reasons, Permanent
  <2>6. QED
    BY <1>9, <2>2, <2>3, <2>4, <2>5 DEF Readback, Step, Raise, Persist
<1>10. CASE HandleFinal
  <2>1. /\ run.pc = "handle" /\ run \in RunType /\ Established
        /\ run' = [run EXCEPT !.pc = "put", !.failing = TRUE]
    BY <1>10, BusyRun, TaskFacts DEF HandleFinal, IInv, TypeInv
  <2>2. run.what \in Outcomes /\ Justified(Slot, run.what)
    BY <2>1 DEF Established, Outcomes, Reasons, Permanent, Transient
  <2>3. QED
    BY <2>1, <2>2, <1>3 DEF RunType, Established, Outcomes, Reasons, Permanent, Transient
<1>11. ASSUME NEW reason \in {"TIMEOUT", "TRANSIENT", "PERMANENT"}, Fails(reason)
       PROVE  Established'
  <2>1. /\ run.pc # "idle" /\ run \in RunType /\ job[run.job].phase # "new"
        /\ run' = [run EXCEPT !.pc = "handle", !.what = reason]
    BY <1>11, BusyRun, TaskFacts DEF Fails, Raise, ConsumerSteps, IInv, TypeInv
  <2>2. Justified(Slot, reason)
    BY <2>1 DEF Justified, Slot
  <2>3. QED
    BY <2>1, <2>2, <1>3 DEF RunType, Established, Outcomes, Reasons, Permanent, Transient
<1>12. run' # Idle
  BY DEF Idle
<1>13. QED
  BY <1>1, <1>2, <1>4, <1>5, <1>6, <1>7, <1>8, <1>9, <1>10, <1>11, <1>12
  DEF Next, Deploy, Submission, SubmitCheck, SubmitRecord, SubmitSend, SubmitFail,
      QueueBatch, Consume, HandleRetry, Ack, Escape, Faults, Abandon, Land, Requests,
      ServeHistory, PollStart, PollRead, PollReply, vars

\* Stored and late outcomes are justified, and computed data is supported.
LEMMA OutcomeStep == IInv /\ [Next]_vars => OutcomeInv'
<1> SUFFICES ASSUME IInv, [Next]_vars
             PROVE  OutcomeInv'
  OBVIOUS
<1>1. ASSUME run.pc = "put", run.what \in Outcomes
      PROVE  Slot \in Slots /\ Justified(Slot, run.what)
  BY <1>1, TaskFacts DEF Established, Outcomes, Reasons, Permanent, Transient
<1>2. ASSUME NEW t \in Slots, NEW o, Justified(t, o)
      PROVE  Justified(t, o)'
  BY <1>2, JustifiedStable DEF IInv
<1>3. ASSUME NEW t \in Slots, part'[t] # None
      PROVE  Justified(t, part[t])'
  <2>1. CASE part'[t] = part[t]
    BY <1>2, <1>3, <2>1 DEF IInv, OutcomeInv, Justified
  <2>2. CASE part'[t] # part[t]
    <3>1. PICK o : part'[t] = o /\ Justified(t, o)
      BY <1>1, <2>2, PartStep DEF IInv, OutcomeInv
    <3>2. Justified(t, o)'
      BY <1>2, <3>1
    <3>3. QED
      BY <3>1, <3>2 DEF Justified
  <2>3. QED
    BY <2>1, <2>2
<1>4. ASSUME NEW w \in late'
      PROVE  Justified(w.slot, w.outcome)'
  <2>1. w.slot \in Slots /\ Justified(w.slot, w.outcome)
    BY <1>1, LateStep DEF IInv, OutcomeInv, TypeInv, TypeOK, Writes
  <2>2. QED
    BY <1>2, <2>1
<1>5. ASSUME NEW key \in computed'
      PROVE  key[3] \notin Unsupported
  <2>1. CASE key \in computed
    BY <2>1 DEF IInv, OutcomeInv
  <2>2. CASE key \notin computed
    <3>1. Put /\ run.pc = "put" /\ run.what = "computed" /\ key = CacheKey
      BY <1>5, <2>2 DEF Next, Deploy, Submission, SubmitCheck, SubmitRecord, SubmitSend,
         SubmitFail, Deliver, QueueBatch, Consume, ReadRoot, ReadRequest, ReadExisting,
         ReadCompany, ReadSource, ReadHistory, Put, Readback, HandleFinal, HandleRetry, Ack,
         Escape, Faults, Fails, Abandon, Land, Requests, ServeHistory, PollStart, PollRead,
         PollReply, store, vars, Step
    <3>2. QED
      BY <3>1, TaskFacts DEF Established, CacheKey, Outcomes, Reasons, Permanent, Transient
  <2>3. QED
    BY <2>1, <2>2
<1>6. QED
  BY <1>3, <1>4, <1>5 DEF OutcomeInv

\* A message is acknowledged only after the outcome of its task was read back.
LEMMA AckStep == IInv /\ [Next]_vars => AckedIsDecided'
<1> SUFFICES ASSUME IInv, [Next]_vars, NEW j \in Jobs, NEW c \in Ciks,
                    message'[<<j, c>>].state = "acked"
             PROVE  \E s \in Credentials : part'[<<s, j, c>>] # None
  BY DEF AckedIsDecided
<1>1. <<j, c>> \in Tasks
  BY DEF Tasks
<1>2. CASE message[<<j, c>>].state = "acked"
  <2>1. PICK s \in Credentials : part[<<s, j, c>>] # None
    BY <1>2 DEF IInv, AckedIsDecided
  <2>2. part'[<<s, j, c>>] # None
    BY <2>1, PartStep DEF IInv, Slots
  <2>3. QED
    BY <2>2
<1>3. CASE message[<<j, c>>].state # "acked"
  <2>1. run.pc = "ack" /\ <<j, c>> = Task
    BY <1>1, <1>3, MessageStep DEF IInv
  <2>2. part'[Slot] # None /\ run.credential \in Credentials /\ Slot = <<run.credential, j, c>>
    BY <2>1, TaskFacts DEF Established, Slot, Task, RunType
  <2>3. QED
    BY <2>2
<1>4. QED
  BY <1>2, <1>3

LEMMA Inductive == IInv /\ [Next]_vars => IInv'
BY TypeStep, SubmissionStep, RunStep, OutcomeStep, AckStep DEF IInv

THEOREM Invariance == Spec => []IInv
BY InitIInv, Inductive, PTL DEF Spec

\* Three create-only writes, any of them cut off: a task recorded COMPLETE can
\* still be read, whatever the number of jobs, companies, retries and rotations.
THEOREM CompleteTasksAreReadable == Spec => []CompleteIsReadable
<1>1. IInv => CompleteIsReadable
  BY DEF IInv, OutcomeInv, Justified, CompleteIsReadable, None
<1>2. QED
  BY <1>1, Invariance, PTL

\* The outcome of a task agrees with the archive member of its company.
THEOREM OutcomesFollowSources == Spec => []OutcomeFollowsSource
<1>1. ASSUME IInv, NEW t \in Slots
      PROVE  /\ part[t] = "COMPLETE" => t[3] \notin Unsupported
             /\ part[t] = "QUARANTINED" =>
                  /\ t[3] \in Unsupported
                  /\ \A r \in Releases : <<t[1], r, t[3]>> \notin computed
  <2>1. part[t] = "COMPLETE" => Available(t[1], job[t[2]].release, t[3])
    BY <1>1 DEF IInv, OutcomeInv, Justified, None
  <2>2. ASSUME NEW r, Available(t[1], r, t[3])
        PROVE  t[3] \notin Unsupported
    <3>1. CASE <<t[1], r, t[3]>> \in computed
      BY <1>1, <3>1 DEF IInv, OutcomeInv
    <3>2. CASE t[3] \in Materialized
      BY <3>2, SecJobsAssumption
    <3>3. QED
      BY <2>2, <3>1, <3>2 DEF Available
  <2>3. part[t] = "QUARANTINED" => t[3] \in Unsupported
    BY <1>1 DEF IInv, OutcomeInv, Justified, None
  <2>4. QED
    BY <2>1, <2>2, <2>3 DEF Available
<1>2. IInv => OutcomeFollowsSource
  BY <1>1 DEF OutcomeFollowsSource
<1>3. QED
  BY <1>2, Invariance, PTL

\* No message is acknowledged before its task is decided.
THEOREM AcksFollowOutcomes == Spec => []AckedIsDecided
<1>1. IInv => AckedIsDecided
  BY DEF IInv
<1>2. QED
  BY <1>1, Invariance, PTL

\* Without a rotation of the credential no message misses the record of its job.
THEOREM RecordsPrecedeMessages == Spec => []RecordPrecedesMessage
<1>1. IInv => RecordPrecedesMessage
  BY DEF IInv, OutcomeInv, Justified, RecordPrecedesMessage, None
<1>2. QED
  BY <1>1, Invariance, PTL

-----------------------------------------------------------------------------
(* The service implements TaskBoard.                                       *)

Asked == [j \in Jobs |->
  IF job[j].phase = "new" THEN [credential |-> "none", ciks |-> {}]
  ELSE [credential |-> job[j].credential, ciks |-> job[j].ciks]]

Found(j, C) == {part[<<job[j].credential, j, c>>] : c \in C}

\* The answer that is true of job j once it is finished.
Truth(j) == IF Found(j, job[j].ciks) \subseteq {"COMPLETE"}
            THEN "COMPLETE" ELSE "COMPLETE_WITH_FAILURES"

\* A poll that saw no undecided task has seen decided outcomes, which are final.
PollInv ==
  poll.job # None =>
    /\ job[poll.job].phase # "new"
    /\ poll.todo \subseteq job[poll.job].ciks
    /\ ~poll.queued =>
         LET seen == Found(poll.job, job[poll.job].ciks \ poll.todo) IN
         /\ None \notin seen
         /\ poll.failed <=> ~(seen \subseteq {"COMPLETE"})
    /\ answer[poll.job] \in Finished => ~poll.queued

AnswerInv ==
  \A j \in Jobs :
    /\ job[j].phase # "new" => job[j].ciks # {}
    /\ answer[j] \in Finished =>
         /\ job[j].phase # "new"
         /\ None \notin Found(j, job[j].ciks)
         /\ answer[j] = Truth(j)

BoardInv ==
  /\ TypeInv /\ PollInv /\ AnswerInv
  /\ \A j \in requests : job[j].phase # "new"

LEMMA BoardInvInit == Init => BoardInv
<1> SUFFICES ASSUME Init PROVE BoardInv
  OBVIOUS
<1>1. PollInv
  BY DEF Init, PollInv, NoPoll
<1>2. AnswerInv
  BY DEF Init, AnswerInv, Finished
<1>3. QED
  BY <1>1, <1>2, TypeInit DEF BoardInv, Init

\* Decided outcomes found once are found again.
LEMMA FoundStable ==
  ASSUME TypeInv, [Next]_vars, NEW j \in Jobs, job[j].phase # "new",
         NEW C \in SUBSET Ciks, None \notin Found(j, C)
  PROVE  /\ Found(j, C)' = Found(j, C)
         /\ job'[j].ciks = job[j].ciks
         /\ job'[j].phase # "new"
<1>1. /\ job'[j].credential = job[j].credential /\ job'[j].ciks = job[j].ciks
      /\ job'[j].phase # "new" /\ job[j].credential \in Credentials
  BY JobStep DEF TypeInv, TypeOK
<1>2. \A c \in C : part'[<<job[j].credential, j, c>>] = part[<<job[j].credential, j, c>>]
  <2>1. TAKE c \in C
  <2>2. <<job[j].credential, j, c>> \in Slots
    BY <1>1 DEF Slots
  <2>3. part[<<job[j].credential, j, c>>] # None
    BY DEF Found
  <2>4. QED
    BY <2>2, <2>3, PartStep
<1>3. QED
  BY <1>1, <1>2 DEF Found

\* The reply of a finished poll is the truth, and agrees with an earlier one.
LEMMA ReplyIsTruth ==
  ASSUME BoardInv, PollReply
  PROVE  LET j == poll.job IN
         /\ j \in Jobs /\ job[j].phase # "new" /\ job[j].ciks # {}
         /\ answer'[j] = "QUEUED" => answer[j] \notin Finished
         /\ answer'[j] # "QUEUED" =>
              None \notin Found(j, job[j].ciks) /\ answer'[j] = Truth(j)
         /\ answer[j] \in Finished => answer'[j] = answer[j]
         /\ answer' = [answer EXCEPT ![j] = answer'[j]]
         /\ answer'[j] \in {"QUEUED"} \cup Finished
<1> DEFINE j == poll.job
<1>1. j \in Jobs /\ job[j].phase # "new" /\ job[j].ciks # {} /\ job[j].ciks \subseteq Ciks
  BY DEF PollReply, BoardInv, PollInv, AnswerInv, TypeInv, TypeOK
<1>2. job[j].ciks \ poll.todo = job[j].ciks
  BY DEF PollReply
<1>3. answer'[j] = IF poll.queued THEN "QUEUED"
                   ELSE IF poll.failed THEN "COMPLETE_WITH_FAILURES" ELSE "COMPLETE"
  BY <1>1 DEF PollReply, BoardInv, TypeInv, TypeOK
<1>4. ~poll.queued => /\ None \notin Found(j, job[j].ciks)
                      /\ poll.failed <=> ~(Found(j, job[j].ciks) \subseteq {"COMPLETE"})
  BY <1>1, <1>2 DEF PollReply, BoardInv, PollInv
<1>5. answer[j] \in Finished => ~poll.queued /\ answer[j] = Truth(j)
  BY <1>1 DEF PollReply, BoardInv, PollInv, AnswerInv
<1>6. answer'[j] # "QUEUED" => answer'[j] = Truth(j)
  BY <1>3, <1>4 DEF Truth
<1>7. answer' = [answer EXCEPT ![j] = answer'[j]]
  BY <1>1, <1>3 DEF PollReply
<1>8. QED
  BY <1>1, <1>3, <1>4, <1>5, <1>6, <1>7 DEF Finished

LEMMA BoardInvStep == BoardInv /\ [Next]_vars => BoardInv'
<1> SUFFICES ASSUME BoardInv, [Next]_vars
             PROVE  PollInv' /\ AnswerInv' /\ \A j \in requests' : job'[j].phase # "new"
  BY TypeStep DEF BoardInv
<1> USE DEF BoardInv
\* The facts of a job with a final answer.
<1>1. ASSUME NEW j \in Jobs, job[j].phase # "new", job[j].ciks # {}, None \notin Found(j, job[j].ciks)
      PROVE  /\ job'[j].phase # "new" /\ job'[j].ciks = job[j].ciks
             /\ Found(j, job[j].ciks)' = Found(j, job[j].ciks)
             /\ Truth(j)' = Truth(j)
  <2>1. job[j].ciks \in SUBSET Ciks
    BY DEF TypeInv, TypeOK
  <2>2. DEFINE C == job[j].ciks
  <2>3. job'[j].phase # "new" /\ job'[j].ciks = job[j].ciks
    BY <1>1, JobStep
  <2>4. \A D \in SUBSET Ciks : D = job[j].ciks => Found(j, D)' = Found(j, D)
    BY <1>1, FoundStable
  <2>5. Found(j, job[j].ciks)' = Found(j, job[j].ciks)
    BY <2>1, <2>3, <2>4 DEF Found
  <2>6. QED
    BY <2>3, <2>5 DEF Truth
<1>2. AnswerInv'
  <2>1. ASSUME NEW j \in Jobs, job'[j].phase # "new"
        PROVE  job'[j].ciks # {}
    <3>1. CASE job[j].phase # "new"
      BY <3>1, JobStep DEF AnswerInv
    <3>2. CASE job[j].phase = "new"
      <4>1. PICK C \in SUBSET Ciks : SubmitCheck(j, C)
        BY <2>1, <3>2 DEF Next, Deploy, Submission, SubmitCheck, SubmitRecord, SubmitSend,
           SubmitFail, Deliver, QueueBatch, Consume, ReadRoot, ReadRequest, ReadExisting,
           ReadCompany, ReadSource, ReadHistory, Put, Readback, HandleFinal, HandleRetry, Ack,
           Escape, Faults, Fails, Abandon, Land, Requests, ServeHistory, PollStart, PollRead,
           PollReply, store, vars, TypeInv, TypeOK
      <4>2. QED
        BY <4>1 DEF SubmitCheck, TypeInv, TypeOK
    <3>3. QED
      BY <3>1, <3>2
  <2>2. ASSUME NEW j \in Jobs, answer'[j] \in Finished
        PROVE  /\ job'[j].phase # "new"
               /\ None \notin Found(j, job[j].ciks)'
               /\ answer'[j] = Truth(j)'
    <3>1. CASE answer'[j] = answer[j]
      BY <1>1, <2>2, <3>1 DEF AnswerInv
    <3>2. CASE answer'[j] # answer[j]
      <4>1. PollReply
        BY <3>2 DEF Next, Deploy, Submission, SubmitCheck, SubmitRecord, SubmitSend,
           SubmitFail, Deliver, QueueBatch, Consume, ReadRoot, ReadRequest, ReadExisting,
           ReadCompany, ReadSource, ReadHistory, Put, Readback, HandleFinal, HandleRetry, Ack,
           Escape, Faults, Fails, Abandon, Land, Requests, ServeHistory, PollStart, PollRead,
           vars
      <4>2. j = poll.job
        BY <3>2, <4>1 DEF PollReply, TypeInv, TypeOK
      <4>3. QED
        BY <1>1, <2>2, <4>1, <4>2, ReplyIsTruth DEF Finished
    <3>3. QED
      BY <3>1, <3>2
  <2>3. QED
    BY <2>1, <2>2 DEF AnswerInv
<1>3. PollInv'
  <2>1. ASSUME NEW j \in Jobs, PollStart(j)
        PROVE  PollInv'
    <3>1. /\ job[j].phase # "new" /\ job[j].ciks \ job[j].ciks = {}
          /\ poll' = [job |-> j, todo |-> job[j].ciks, queued |-> FALSE, failed |-> FALSE]
          /\ job' = job
      BY <2>1 DEF PollStart, Recorded, NoPoll
    <3>2. Found(j, {})' = {}
      BY DEF Found
    <3>3. QED
      BY <3>1, <3>2 DEF PollInv
  <2>2. ASSUME NEW c \in Ciks, PollRead(c)
        PROVE  PollInv'
    <3> DEFINE j == poll.job
               o == part[<<job[j].credential, j, c>>]
               seen == Found(j, job[j].ciks \ poll.todo)
    <3>1. /\ j # None /\ c \in poll.todo /\ part' = part /\ job' = job /\ answer' = answer
          /\ poll'.job = j /\ poll'.todo = poll.todo \ {c}
          /\ poll'.queued <=> poll.queued \/ o = None
          /\ poll'.failed <=> poll.failed \/ o \notin {None, "COMPLETE"}
      <4>1. /\ c \in poll.todo /\ part' = part /\ job' = job /\ answer' = answer
            /\ poll' = [poll EXCEPT !.todo = @ \ {c}, !.queued = @ \/ o = None,
                                   !.failed = @ \/ o \notin {None, "COMPLETE"}]
        BY <2>2 DEF PollRead, store
      <4>2. poll \in [job : Jobs \cup {None}, todo : SUBSET Ciks,
                     queued : BOOLEAN, failed : BOOLEAN]
        BY DEF TypeInv, TypeOK
      <4>3. /\ poll'.job = j /\ poll'.todo = poll.todo \ {c}
            /\ poll'.queued = (poll.queued \/ o = None)
            /\ poll'.failed = (poll.failed \/ o \notin {None, "COMPLETE"})
        BY <4>1, <4>2
      <4>4. j # None
        BY <2>2 DEF PollRead
      <4>5. QED
        BY <4>1, <4>3, <4>4, Zenon
    <3>2. /\ job[j].phase # "new" /\ poll.todo \subseteq job[j].ciks
          /\ answer[j] \in Finished => ~poll.queued
      BY <3>1 DEF PollInv
    <3>3. Found(j, job[j].ciks \ (poll.todo \ {c})) = seen \cup {o}
      BY <3>1, <3>2 DEF Found
    <3>4. ~poll.queued => None \notin seen /\ (poll.failed <=> ~(seen \subseteq {"COMPLETE"}))
      BY <3>1 DEF PollInv
    <3>5. ~poll'.queued =>
            /\ None \notin seen \cup {o}
            /\ poll'.failed <=> ~(seen \cup {o} \subseteq {"COMPLETE"})
      BY <3>1, <3>4
    <3>6. answer[j] \in Finished => o # None
      <4>1. j \in Jobs
        BY <3>1 DEF TypeInv, TypeOK
      <4>2. QED
        BY <4>1, <3>1, <3>2 DEF AnswerInv, Found
    <3>7. Found(poll.job, job[poll.job].ciks \ poll.todo)' = seen \cup {o}
      BY <3>1, <3>3 DEF Found
    <3>8. QED
      BY <3>1, <3>2, <3>5, <3>6, <3>7 DEF PollInv
  <2>3. CASE PollReply
    BY <2>3 DEF PollReply, NoPoll, PollInv
  <2>4. CASE poll' = poll /\ poll.job # None /\ ~PollReply
    <3> DEFINE j == poll.job
               C == job[j].ciks \ poll.todo
    <3>1. /\ j \in Jobs /\ job[j].phase # "new" /\ poll.todo \subseteq job[j].ciks
          /\ C \in SUBSET Ciks
      BY <2>4 DEF PollInv, TypeInv, TypeOK
    <3>2. job'[j].phase # "new" /\ job'[j].ciks = job[j].ciks
      BY <3>1, JobStep
    <3>3. answer' = answer
      BY <2>4 DEF Next, Deploy, Submission, SubmitCheck, SubmitRecord, SubmitSend,
         SubmitFail, Deliver, QueueBatch, Consume, ReadRoot, ReadRequest, ReadExisting,
         ReadCompany, ReadSource, ReadHistory, Put, Readback, HandleFinal, HandleRetry, Ack,
         Escape, Faults, Fails, Abandon, Land, Requests, ServeHistory, PollStart, PollRead, vars
    <3>4. ~poll.queued =>
            /\ None \notin Found(j, C)
            /\ poll.failed <=> ~(Found(j, C) \subseteq {"COMPLETE"})
      BY <2>4 DEF PollInv
    <3>5. \A D \in SUBSET Ciks, i \in Jobs :
            i = j /\ None \notin Found(i, D) => Found(i, D)' = Found(i, D)
      BY <3>1, FoundStable
    <3>6. None \notin Found(j, C) => Found(j, C)' = Found(j, C)
      <4>1. PICK i \in Jobs, D \in SUBSET Ciks : i = j /\ D = C
        BY <3>1
      <4>2. None \notin Found(i, D) => Found(i, D)' = Found(i, D)
        BY <3>5, <4>1
      <4>3. j' = i /\ C' = D
        BY <2>4, <3>2, <4>1
      <4>4. Found(j, C)' = Found(i, D)'
        BY <4>3 DEF Found
      <4>5. QED
        BY <4>1, <4>2, <4>4
    <3>7. QED
      BY <2>4, <3>1, <3>2, <3>3, <3>4, <3>6 DEF PollInv
  <2>6. CASE poll' = poll /\ poll.job = None
    BY <2>6 DEF PollInv
  <2>5. QED
    BY <2>1, <2>2, <2>3, <2>4, <2>6
    DEF Next, Deploy, Submission, SubmitCheck, SubmitRecord, SubmitSend, SubmitFail,
        Deliver, QueueBatch, Consume, ReadRoot, ReadRequest, ReadExisting, ReadCompany,
        ReadSource, ReadHistory, Put, Readback, HandleFinal, HandleRetry, Ack, Escape, Faults,
        Fails, Abandon, Land, Requests, ServeHistory, vars
<1>4. ASSUME NEW j \in requests'
      PROVE  job'[j].phase # "new"
  <2>1. CASE j \in requests
    BY <2>1, JobStep DEF TypeInv, TypeOK
  <2>2. CASE j \notin requests
    <3>1. PICK i \in Jobs : SubmitRecord(i) \/ SubmitFail(i)
      BY <1>4, <2>2 DEF Next, Deploy, Submission, SubmitCheck, SubmitSend, Deliver,
         QueueBatch, Consume, ReadRoot, ReadRequest, ReadExisting, ReadCompany, ReadSource,
         ReadHistory, Put, Readback, HandleFinal, HandleRetry, Ack, Escape, Faults, Fails,
         Abandon, Land, Requests, ServeHistory, PollStart, PollRead, PollReply, store, vars
    <3>2. i = j /\ job[i].phase # "new"
      BY <1>4, <2>2, <3>1 DEF SubmitRecord, SubmitFail
    <3>3. QED
      BY <3>2, JobStep
  <2>3. QED
    BY <2>1, <2>2
<1>5. QED
  BY <1>2, <1>3, <1>4

LEMMA BoardInvariance == Spec => []BoardInv
BY BoardInvInit, BoardInvStep, PTL DEF Spec

\* The status API never takes a final answer back (the step form of AnswersFinal).
THEOREM AnswersAreFinal == Spec => AnswersFinal
<1>1. ASSUME BoardInv, [Next]_vars, NEW j \in Jobs, answer[j] \in Finished
      PROVE  answer'[j] = answer[j]
  <2>1. CASE PollReply
    <3>1. CASE j = poll.job
      BY <1>1, <2>1, <3>1, ReplyIsTruth
    <3>2. CASE j # poll.job
      BY <1>1, <2>1, <3>2 DEF PollReply, BoardInv, TypeInv, TypeOK
    <3>3. QED
      BY <3>1, <3>2
  <2>2. CASE ~PollReply
    <3>1. answer' = answer
      BY <1>1, <2>2 DEF Next, Deploy, Submission, SubmitCheck, SubmitRecord, SubmitSend,
         SubmitFail, Deliver, QueueBatch, Consume, ReadRoot, ReadRequest, ReadExisting,
         ReadCompany, ReadSource, ReadHistory, Put, Readback, HandleFinal, HandleRetry, Ack,
         Escape, Faults, Fails, Abandon, Land, Requests, ServeHistory, PollStart, PollRead, vars
    <3>2. QED
      BY <3>1
  <2>3. QED
    BY <2>1, <2>2
<1>2. BoardInv /\ [Next]_vars =>
        [\A j \in Jobs : answer[j] \in Finished => answer'[j] = answer[j]]_vars
  BY <1>1
<1>3. QED
  BY <1>2, BoardInvariance, PTL DEF Spec, AnswersFinal

\* The durable job service implements TaskBoard.
THEOREM ServiceKeepsTheBoard == Spec => KeepsTheBoard
<1> DEFINE asked == [j \in Jobs |->
      IF job[j].phase = "new" THEN [credential |-> "none", ciks |-> {}]
      ELSE [credential |-> job[j].credential, ciks |-> job[j].ciks]]
<1>1. Init => Board!BoardInit
  BY DEF Init, Board!BoardInit, Board!NotAsked, Slots, None
<1>2. ASSUME BoardInv, [Next]_vars
      PROVE  [Board!BoardNext]_(Board!boardVars)
  <2> USE <1>2 DEF BoardInv
  <2>1. ASSUME NEW j \in Jobs, NEW C \in SUBSET Ciks, SubmitCheck(j, C)
        PROVE  Board!BoardNext
    <3>1. /\ job[j].phase = "new" /\ C # {} /\ worker.credential \in Credentials
          /\ job' = [job EXCEPT ![j] = [phase |-> "record", release |-> worker.release,
                                        credential |-> worker.credential, ciks |-> C]]
          /\ UNCHANGED <<part, answer>>
      BY <2>1 DEF SubmitCheck, TypeInv, TypeOK, store
    <3>2. asked' = [asked EXCEPT ![j] = [credential |-> worker.credential, ciks |-> C]]
      BY <3>1 DEF TypeInv, TypeOK
    <3>3. Board!Ask(j, worker.credential, C)
      BY <3>1, <3>2 DEF Board!Ask, Board!NotAsked
    <3>4. QED
      BY <3>1, <3>3 DEF Board!BoardNext
  <2>2. CASE PollReply
    <3> DEFINE j == poll.job
    <3>1. /\ j \in Jobs /\ job[j].phase # "new" /\ job[j].ciks # {}
          /\ answer'[j] = "QUEUED" => answer[j] \notin Finished
          /\ answer'[j] # "QUEUED" =>
               None \notin Found(j, job[j].ciks) /\ answer'[j] = Truth(j)
          /\ answer' = [answer EXCEPT ![j] = answer'[j]]
      BY <2>2, ReplyIsTruth
    <3>2. asked[j] = [credential |-> job[j].credential, ciks |-> job[j].ciks]
      BY <3>1
    <3>3. asked[j] # Board!NotAsked
      BY <3>1, <3>2 DEF Board!NotAsked
    <3>4. answer'[j] # "QUEUED" => answer'[j] = Board!Verdict(j)
      <4>1. {part[<<asked[j].credential, j, c>>] : c \in asked[j].ciks} = Found(j, job[j].ciks)
        <5>1. /\ asked[j].credential = job[j].credential
              /\ asked[j].ciks = job[j].ciks
          <6> HIDE DEF asked, j
          <6>1. QED
            BY <3>2
        <5>2. QED
          BY <5>1 DEF Found
      <4>2. QED
        BY <3>1, <4>1 DEF Board!Verdict, Truth
    <3>5. answer'[j] = "QUEUED" => answer[j] \in {"NONE", "QUEUED"}
      BY <3>1 DEF Finished, TypeInv, TypeOK
    <3>6. job' = job /\ part' = part
      BY <2>2 DEF PollReply, store
    <3>7. Board!Tell(j)
      BY <3>1, <3>3, <3>4, <3>5, <3>6 DEF Board!Tell
    <3>8. QED
      BY <3>1, <3>7 DEF Board!BoardNext
  <2>3. CASE \E j \in Jobs : SubmitRecord(j) \/ SubmitSend(j) \/ SubmitFail(j)
    <3>1. PICK j \in Jobs, x \in {"send", "accepted", "error"} :
            /\ job[j].phase \in {"record", "send"}
            /\ job' = [job EXCEPT ![j].phase = x]
            /\ part' = part /\ answer' = answer
      BY <2>3 DEF SubmitRecord, SubmitSend, SubmitFail, store
    <3>2. \A i \in Jobs : /\ job'[i].phase = "new" <=> job[i].phase = "new"
                          /\ job'[i].credential = job[i].credential
                          /\ job'[i].ciks = job[i].ciks
      BY <3>1 DEF TypeInv, TypeOK
    <3>3. asked' = asked
      BY <3>2
    <3>4. QED
      BY <3>1, <3>3 DEF Board!boardVars
  <2>4. CASE Put \/ \E w \in late : Land(w)
    <3>1. job' = job /\ answer' = answer
      BY <2>4 DEF Put, Land
    <3>2. CASE part' = part
      BY <3>1, <3>2 DEF Board!boardVars
    <3>3. ASSUME NEW t \in Slots, NEW o \in Outcomes, CreatePart(t, o), part' # part
          PROVE  Board!BoardNext
      <4>1. part[t] = None /\ part' = [part EXCEPT ![t] = o]
        BY <3>3 DEF CreatePart
      <4>2. Board!Decide(t, o)
        BY <3>1, <4>1 DEF Board!Decide
      <4>3. QED
        BY <4>2 DEF Board!BoardNext, Slots
    <3>4. CASE Put /\ part' # part
      <4>1. run.what \in Outcomes /\ CreatePart(Slot, run.what) /\ Slot \in Slots
        BY <3>4, BusyRun DEF Put, Step, TypeInv
      <4>2. QED
        BY <3>3, <3>4, <4>1
    <3>5. CASE (\E w \in late : Land(w)) /\ part' # part
      <4>1. PICK w \in late : CreatePart(w.slot, w.outcome)
        BY <3>5 DEF Land
      <4>2. w.slot \in Slots /\ w.outcome \in Outcomes
        BY DEF TypeInv, TypeOK, Writes
      <4>3. QED
        BY <3>3, <3>5, <4>1, <4>2
    <3>6. QED
      BY <2>4, <3>2, <3>4, <3>5
  <2>5. CASE UNCHANGED <<part, job, answer>>
    BY <2>5 DEF Board!boardVars
  <2>6. QED
    BY <2>1, <2>2, <2>3, <2>4, <2>5
    DEF Next, Deploy, Submission, Deliver, QueueBatch, Consume, ReadRoot, ReadRequest,
        ReadExisting, ReadCompany, ReadSource, ReadHistory, Readback, HandleFinal,
        HandleRetry, Ack, Escape, Faults, Fails, Abandon, Requests, ServeHistory,
        PollStart, PollRead, store, vars
<1>3. QED
  BY <1>1, <1>2, BoardInvariance, PTL DEF Spec, Board!BoardSpec, KeepsTheBoard

-----------------------------------------------------------------------------
(* The pointer.  StalenessBounded speaks of what a resolution is about to answer.  What makes it
   inductive is how far the stamp of every copy of a pointer lies behind the moment the copy was
   last CURRENT: one wait for a copy that comes from the object (a refresh, a write to the edge, the
   edge), two for one that an isolate took over from the edge. *)

-----------------------------------------------------------------------------
(* The invariant.  Behind(at, v, d): v was CURRENT at most d before at.    *)
Behind(at, v, d) == at - lastCurrent[v] <= d

StoreInv ==
  /\ lastCurrent[currentId] = now
  /\ \A i \in Isolates : entry[i].held => Behind(entry[i].at, entry[i].release, 2 * Latency)
  /\ edge.held => edge.at <= now /\ Behind(edge.at, edge.release, Latency)

ResInv(r) ==
  LET x == res[r] IN
  /\ x.began <= now /\ x.since <= now
  /\ x.pc = "text" => /\ x.began <= x.since /\ x.age <= x.since
                      /\ Behind(x.since - x.age, x.release, Latency)
  /\ x.pc \in {"resumed", "resumed_owner"} => Behind(now, x.release, Latency)
  /\ x.pc = "put" => x.began <= x.since /\ Behind(x.since, x.release, Latency)
  /\ x.pc = "own" =>
       /\ flight[Isolate(r)].state # "none"
       /\ flight[Isolate(r)].state = "read" =>
            lastCurrent[flight[Isolate(r)].release] >= x.since

FlightInv ==
  \A i \in Isolates : flight[i].state # "none" =>
    \E r \in Resolvers : Isolate(r) = i /\ res[r].pc = "own"

Inv == /\ PointerTypeOK
       /\ StoreInv
       /\ \A r \in Resolvers : ResInv(r)
       /\ FlightInv
       /\ SingleFlight

Pcs == {"idle", "follow", "own", "resumed", "resumed_owner"} \cup Waiting
ResType == [pc : Pcs, release : ReleaseIds, began : 0..MaxTime, since : 0..MaxTime,
            age : 0..(TTL - 1)]
FlightType == [state : {"none", "out", "read"}, release : ReleaseIds]

\* The conjuncts of TypeOK, by name.
Timely(r) == res[r].pc \in Waiting \cup {"own"} => now - res[r].since <= Latency

LEMMA TypeParts ==
  PointerTypeOK <=> /\ now \in 0..MaxTime /\ currentId \in ReleaseIds
             /\ lastCurrent \in [ReleaseIds -> 0..now]
             /\ entry \in [Isolates -> EntryType] /\ edge \in EntryType
             /\ flight \in [Isolates -> FlightType]
             /\ res \in [Resolvers -> ResType]
             /\ \A r \in Resolvers : Timely(r)
  BY DEF PointerTypeOK, FlightType, ResType, Pcs, Timely

LEMMA Homes == ASSUME NEW r \in Resolvers PROVE Isolate(r) \in Isolates
  BY DEF Resolvers, Isolate

LEMMA IdleType == ASSUME NEW v \in ReleaseIds PROVE IdleResolution(v) \in ResType
  BY PointerAssumption DEF IdleResolution, ResType, Pcs

\* A step that leaves the pointer, the time, the entries and the flights alone
\* has to account only for the resolution it moves.
LEMMA MoveStep ==
  ASSUME Inv, NEW r \in Resolvers, NEW y \in ResType,
         res' = [res EXCEPT ![r] = y], UNCHANGED <<world, entry, flight, edge>>,
         res[r].pc # "own", y.pc # "own", y.began <= now, y.since <= now,
         y.pc \in Waiting => now - y.since <= Latency,
         y.pc = "text" => /\ y.began <= y.since /\ y.age <= y.since
                          /\ Behind(y.since - y.age, y.release, Latency),
         y.pc \notin {"resumed", "resumed_owner", "put"}
  PROVE  Inv'
<1>1. \A q \in Resolvers : res'[q] = IF q = r THEN y ELSE res[q]
  BY TypeParts DEF Inv
<1>2. PointerTypeOK'
  <2>1. res' \in [Resolvers -> ResType]
    BY TypeParts DEF Inv
  <2>2. \A q \in Resolvers : Timely(q)'
    BY <1>1, TypeParts DEF Inv, Timely, world
  <2> QED
    BY <2>1, <2>2, TypeParts DEF Inv, world, PointerTypeOK, FlightType, ResType, Pcs, Timely
<1>3. StoreInv'
  BY DEF Inv, StoreInv, Behind, world
<1>4. \A q \in Resolvers : ResInv(q)'
  BY <1>1 DEF Inv, ResInv, Behind, world
<1>5. FlightInv'
  BY <1>1 DEF Inv, FlightInv
<1>6. SingleFlight'
  BY <1>1 DEF Inv, SingleFlight
<1> QED
  BY <1>2, <1>3, <1>4, <1>5, <1>6 DEF Inv

\* Facts about the record of one resolution.
LEMMA Record ==
  ASSUME Inv, NEW r \in Resolvers
  PROVE  /\ res[r] \in ResType /\ ResInv(r) /\ Timely(r)
         /\ res[r].release \in ReleaseIds /\ Isolate(r) \in Isolates
         /\ now \in Nat /\ now \in 0..MaxTime /\ Latency \in Nat /\ TTL \in Nat
         /\ res[r].began \in Nat /\ res[r].since \in Nat /\ res[r].age \in Nat
         /\ entry[Isolate(r)] \in EntryType /\ flight[Isolate(r)] \in FlightType
         /\ \A v \in ReleaseIds : lastCurrent[v] \in Nat /\ lastCurrent[v] <= now
<1>1. res[r] \in ResType /\ ResInv(r) /\ Timely(r) /\ Isolate(r) \in Isolates
  BY TypeParts, Homes DEF Inv
<1>2. now \in Nat /\ now \in 0..MaxTime /\ Latency \in Nat /\ TTL \in Nat
  BY TypeParts, PointerAssumption DEF Inv
<1>3. entry[Isolate(r)] \in EntryType /\ flight[Isolate(r)] \in FlightType
  BY <1>1, TypeParts DEF Inv
<1>4. \A v \in ReleaseIds : lastCurrent[v] \in Nat /\ lastCurrent[v] <= now
  BY <1>2, TypeParts DEF Inv
<1> QED
  BY <1>1, <1>2, <1>3, <1>4 DEF ResType

LEMMA IdleStep ==
  ASSUME Inv, NEW r \in Resolvers, NEW v, IdleResolution(v) \in ResType,
         res' = [res EXCEPT ![r] = IdleResolution(v)], UNCHANGED <<world, entry, flight, edge>>,
         res[r].pc # "own"
  PROVE  Inv'
<1> DEFINE y == IdleResolution(v)
<1>1. y \in ResType /\ y.pc = "idle" /\ y.began = 0 /\ y.since = 0
  BY DEF IdleResolution
<1>2. res' = [res EXCEPT ![r] = y]
  OBVIOUS
<1> HIDE DEF y
<1>3. y.began <= now /\ y.since <= now /\ y.pc \notin Waiting
  BY <1>1, Record DEF Waiting
<1> QED
  BY <1>1, <1>2, <1>3, MoveStep

LEMMA MoveSteps ==
  ASSUME Inv, NEW r \in Resolvers, Hit(r) \/ Expired(r) \/ EdgeHit(r) \/ Followed(r)
  PROVE  Inv'
<1> USE Record
<1>1. CASE Hit(r)
  <2>1. entry[Isolate(r)].release \in ReleaseIds
    BY DEF EntryType
  <2>2. IdleResolution(entry[Isolate(r)].release) \in ResType
    BY <2>1, IdleType
  <2>3. res' = [res EXCEPT ![r] = IdleResolution(entry[Isolate(r)].release)] /\ res[r].pc # "own"
        /\ UNCHANGED <<world, entry, flight, edge>>
    BY <1>1 DEF Hit, Return
  <2> QED
    BY <2>2, <2>3, IdleStep
<1>2. CASE Expired(r)
  <2> DEFINE y == [res[r] EXCEPT !.pc = "match", !.began = now, !.since = now]
  <2>1. y \in ResType /\ y.pc = "match" /\ y.began = now /\ y.since = now
    BY DEF ResType, Pcs, Waiting
  <2> HIDE DEF y
  <2>2. res' = [res EXCEPT ![r] = y] /\ res[r].pc # "own"
    BY <1>2 DEF Expired, y
  <2>3. UNCHANGED <<world, entry, flight, edge>>
    BY <1>2 DEF Expired
  <2>4. y.began <= now /\ y.since <= now /\ now - y.since <= Latency
    BY <2>1
  <2> QED
    BY <2>1, <2>2, <2>3, <2>4, MoveStep
<1>3. CASE EdgeHit(r)
  <2> DEFINE y == [res[r] EXCEPT !.pc = "text", !.since = now,
                     !.release = edge.release, !.age = now - edge.at]
  <2>1. /\ edge.held /\ edge.at <= now /\ edge.at \in Nat /\ now - edge.at < TTL
        /\ edge.release \in ReleaseIds /\ Behind(edge.at, edge.release, Latency)
    BY <1>3, TypeParts DEF EdgeHit, Fresh, Inv, StoreInv, EntryType, Times
  <2>2. now - edge.at \in 0..(TTL - 1) /\ now - (now - edge.at) = edge.at
        /\ now - edge.at <= now
    BY <2>1
  <2>3. /\ y \in ResType /\ y.pc = "text" /\ y.began = res[r].began /\ y.since = now
        /\ y.release = edge.release /\ y.age = now - edge.at
    BY <2>1, <2>2 DEF ResType, Pcs, Waiting
  <2> HIDE DEF y
  <2>4. res' = [res EXCEPT ![r] = y] /\ res[r].pc # "own"
    BY <1>3 DEF EdgeHit, y
  <2>5. UNCHANGED <<world, entry, flight, edge>>
    BY <1>3 DEF EdgeHit
  <2>6. res[r].began <= now
    BY DEF ResInv
  <2>7. Behind(y.since - y.age, y.release, Latency)
    BY <2>1, <2>2, <2>3
  <2>8. y.began <= now /\ y.since <= now /\ now - y.since <= Latency /\ y.age <= y.since
    BY <2>2, <2>3, <2>6
  <2> QED
    BY <2>3, <2>4, <2>5, <2>7, <2>8, MoveStep
<1>4. CASE Followed(r)
  <2>1. IdleResolution(res[r].release) \in ResType
    BY IdleType
  <2>2. res' = [res EXCEPT ![r] = IdleResolution(res[r].release)] /\ res[r].pc # "own"
        /\ UNCHANGED <<world, entry, flight, edge>>
    BY <1>4 DEF Followed, Return
  <2> QED
    BY <2>1, <2>2, IdleStep
<1> QED
  BY <1>1, <1>2, <1>3, <1>4

LEMMA RefreshStep ==
  ASSUME Inv, NEW r \in Resolvers, Refresh(r)
  PROVE  Inv'
<1> USE Record
<1> DEFINE i == Isolate(r)
<1>1. CASE flight[i].state # "none"
  <2> DEFINE y == [res[r] EXCEPT !.pc = "follow"]
  <2>1. y \in ResType /\ y.pc = "follow" /\ y.began = res[r].began /\ y.since = res[r].since
    BY DEF ResType, Pcs, Waiting
  <2> HIDE DEF y
  <2>2. res' = [res EXCEPT ![r] = y] /\ res[r].pc # "own" /\ UNCHANGED <<world, entry, flight, edge>>
    BY <1>1 DEF Refresh, y
  <2>3. res[r].began <= now /\ res[r].since <= now
    BY DEF ResInv
  <2> QED
    BY <2>1, <2>2, <2>3, MoveStep DEF Waiting
<1>2. CASE flight[i].state = "none"
  <2> DEFINE y == [res[r] EXCEPT !.pc = "own", !.since = now]
  <2>1. y \in ResType /\ y.pc = "own" /\ y.began = res[r].began /\ y.since = now
    BY DEF ResType, Pcs, Waiting
  <2> HIDE DEF y
  <2>2. /\ res' = [res EXCEPT ![r] = y]
        /\ flight' = [flight EXCEPT ![i].state = "out"] /\ UNCHANGED <<world, entry, edge>>
    BY <1>2 DEF Refresh, y
  <2>3. \A q \in Resolvers : res'[q] = IF q = r THEN y ELSE res[q]
    BY <2>2, TypeParts DEF Inv
  <2>4. /\ flight' \in [Isolates -> FlightType] /\ flight'[i].state = "out"
        /\ \A j \in Isolates : j # i => flight'[j] = flight[j]
    BY <2>2, TypeParts DEF Inv, FlightType
  <2>5. \A q \in Resolvers : Isolate(q) = i => res[q].pc # "own"
    BY <1>2, Record DEF ResInv
  <2>6. PointerTypeOK'
    <3>1. res' \in [Resolvers -> ResType]
      BY <2>1, <2>2, TypeParts DEF Inv
    <3>2. \A q \in Resolvers : Timely(q)'
      BY <2>1, <2>2, <2>3, TypeParts DEF Inv, Timely, world
    <3> QED
      BY <2>2, <2>4, <3>1, <3>2, TypeParts DEF Inv, world, PointerTypeOK, FlightType, ResType, Pcs, Timely
  <2>7. StoreInv'
    BY <2>2 DEF Inv, StoreInv, Behind, world
  <2>8. ASSUME NEW q \in Resolvers PROVE ResInv(q)'
    <3>1. CASE q = r
      BY <2>1, <2>2, <2>3, <2>4, <3>1 DEF ResInv, world
    <3>2. CASE q # r
      <4>1. res'[q] = res[q] /\ Isolate(q) \in Isolates /\ ResInv(q)
        BY <2>3, <3>2, Record
      <4>2. res[q].pc = "own" => flight'[Isolate(q)] = flight[Isolate(q)]
        BY <2>4, <2>5, <4>1
      <4> QED
        BY <2>2, <4>1, <4>2 DEF ResInv, Behind, world
    <3> QED
      BY <3>1, <3>2
  <2>9. FlightInv'
    <3> SUFFICES ASSUME NEW j \in Isolates, flight'[j].state # "none"
                 PROVE  \E q \in Resolvers : Isolate(q) = j /\ res'[q].pc = "own"
      BY DEF FlightInv
    <3>1. CASE j = i
      BY <2>1, <2>3, <3>1
    <3>2. CASE j # i
      <4>1. PICK q \in Resolvers : Isolate(q) = j /\ res[q].pc = "own"
        BY <2>4, <3>2 DEF Inv, FlightInv
      <4>2. res'[q] = res[q]
        BY <2>3, <3>2, <4>1
      <4> QED
        BY <4>1, <4>2
    <3> QED
      BY <3>1, <3>2
  <2>10. SingleFlight'
    BY <2>3, <2>5 DEF Inv, SingleFlight
  <2> QED
    BY <2>6, <2>7, <2>8, <2>9, <2>10 DEF Inv
<1> QED
  BY <1>1, <1>2

\* A resolution that leaves the time, the flights and the pointer alone, and
\* writes a sound copy of a pointer: to its isolate, or to the edge.
LEMMA StoreStep ==
  ASSUME Inv, NEW r \in Resolvers, NEW y \in ResType,
         res' = [res EXCEPT ![r] = y], UNCHANGED <<world, flight>>,
         res[r].pc # "own", y.pc \in {"idle", "put"}, y.began <= now, y.since <= now,
         y.pc = "put" => /\ now - y.since <= Latency /\ y.began <= y.since
                         /\ Behind(y.since, y.release, Latency),
         entry' \in [Isolates -> EntryType], edge' \in EntryType, StoreInv'
  PROVE  Inv'
<1>1. \A q \in Resolvers : res'[q] = IF q = r THEN y ELSE res[q]
  BY TypeParts DEF Inv
<1>2. PointerTypeOK'
  <2>1. res' \in [Resolvers -> ResType]
    BY TypeParts DEF Inv
  <2>2. \A q \in Resolvers : Timely(q)'
    BY <1>1, TypeParts DEF Inv, Timely, world, Waiting
  <2> QED
    BY <2>1, <2>2, TypeParts DEF Inv, world, PointerTypeOK, FlightType, ResType, Pcs, Timely
<1>3. \A q \in Resolvers : ResInv(q)'
  BY <1>1 DEF Inv, ResInv, Behind, world
<1>4. FlightInv'
  BY <1>1 DEF Inv, FlightInv
<1>5. SingleFlight'
  BY <1>1 DEF Inv, SingleFlight
<1> QED
  BY <1>2, <1>3, <1>4, <1>5 DEF Inv

\* Writing Entry(v, at) to isolate i keeps the entries sound.
LEMMA EntryWritten ==
  ASSUME Inv, NEW i \in Isolates, NEW v \in ReleaseIds, NEW at \in 0..MaxTime,
         entry' = [entry EXCEPT ![i] = Entry(v, at)], UNCHANGED <<world, edge>>,
         Behind(at, v, 2 * Latency)
  PROVE  entry' \in [Isolates -> EntryType] /\ edge' \in EntryType /\ StoreInv'
<1>1. Entry(v, at) \in EntryType /\ Entry(v, at).release = v /\ Entry(v, at).at = at
  BY DEF Entry, EntryType, Times
<1>2. entry \in [Isolates -> EntryType] /\ edge \in EntryType /\ StoreInv
  BY TypeParts DEF Inv
<1>3. entry' \in [Isolates -> EntryType]
  BY <1>1, <1>2
<1>4. \A j \in Isolates : entry'[j] = IF j = i THEN Entry(v, at) ELSE entry[j]
  BY <1>2
<1>5. StoreInv'
  BY <1>1, <1>2, <1>4 DEF StoreInv, Behind, world
<1> QED
  BY <1>2, <1>3, <1>5

LEMMA EdgeTextStep ==
  ASSUME Inv, NEW r \in Resolvers, EdgeText(r)
  PROVE  Inv'
<1> USE Record
<1> DEFINE x == res[r]
           at == now - x.age
           y == IdleResolution(x.release)
<1>1. /\ x.pc = "text" /\ res' = [res EXCEPT ![r] = y] /\ UNCHANGED <<world, flight, edge>>
      /\ entry' = [entry EXCEPT ![Isolate(r)] = Entry(x.release, at)]
  BY DEF EdgeText, Return
<1>2. /\ x.age <= x.since /\ x.since <= now /\ now - x.since <= Latency
      /\ (x.since - x.age) - lastCurrent[x.release] <= Latency
  BY <1>1 DEF ResInv, Timely, Waiting, Behind
<1>3. at \in 0..MaxTime
  <2>1. x.age \in Nat /\ x.since \in Nat /\ now \in 0..MaxTime /\ now \in Nat /\ MaxTime \in Nat
    BY PointerAssumption
  <2> HIDE DEF x
  <2>2. x.age <= now /\ now - x.age \in 0..MaxTime
    BY <1>2, <2>1
  <2> QED
    BY <2>2
<1>4. Behind(at, x.release, 2 * Latency)
  <2>1. lastCurrent[x.release] \in Nat
    OBVIOUS
  <2> QED
    BY <1>2, <2>1 DEF Behind
<1>5. y \in ResType /\ y.pc = "idle" /\ y.began = 0 /\ y.since = 0
  BY IdleType DEF IdleResolution
<1> HIDE DEF x, at, y
<1>6. entry' \in [Isolates -> EntryType] /\ edge' \in EntryType /\ StoreInv'
  <2>1. x.release \in ReleaseIds
    BY DEF x
  <2> QED
    BY <1>1, <1>3, <1>4, <2>1, EntryWritten
<1>7. res[r].pc # "own" /\ y.began <= now /\ y.since <= now
  BY <1>1, <1>5 DEF x
<1> QED
  BY <1>1, <1>5, <1>6, <1>7, StoreStep

LEMMA OwnedStep ==
  ASSUME Inv, NEW r \in Resolvers, Owned(r)
  PROVE  Inv'
<1> USE Record
<1> DEFINE x == res[r]
           y == [x EXCEPT !.pc = "put", !.since = now]
<1>1. /\ x.pc = "resumed_owner" /\ res' = [res EXCEPT ![r] = y]
      /\ UNCHANGED <<world, flight, edge>>
      /\ entry' = [entry EXCEPT ![Isolate(r)] = Entry(x.release, now)]
  BY DEF Owned
<1>2. Behind(now, x.release, Latency) /\ x.began <= now
  BY <1>1 DEF ResInv
<1>3. Behind(now, x.release, 2 * Latency)
  <2>1. lastCurrent[x.release] \in Nat
    OBVIOUS
  <2> QED
    BY <1>2, <2>1 DEF Behind
<1>4. /\ y \in ResType /\ y.pc = "put" /\ y.began = x.began /\ y.since = now
      /\ y.release = x.release
  BY DEF ResType, Pcs, Waiting
<1>5. x.release \in ReleaseIds
  OBVIOUS
<1> HIDE DEF x, y
<1>6. entry' \in [Isolates -> EntryType] /\ edge' \in EntryType /\ StoreInv'
  BY <1>1, <1>3, <1>5, EntryWritten
<1>7. /\ res[r].pc # "own" /\ y.began <= now /\ y.since <= now
      /\ now - y.since <= Latency /\ y.began <= y.since /\ Behind(y.since, y.release, Latency)
  BY <1>1, <1>2, <1>4 DEF x
<1> QED
  BY <1>1, <1>4, <1>6, <1>7, StoreStep

LEMMA PutStep ==
  ASSUME Inv, NEW r \in Resolvers, EdgePut(r)
  PROVE  Inv'
<1> USE Record
<1> DEFINE x == res[r]
           y == IdleResolution(x.release)
<1>1. /\ x.pc = "put" /\ res' = [res EXCEPT ![r] = y] /\ UNCHANGED <<world, entry, flight>>
      /\ edge' = Entry(x.release, x.since) \/ edge' = edge
  BY DEF EdgePut, Return
<1>2. Behind(x.since, x.release, Latency) /\ x.since <= now
  BY <1>1 DEF ResInv
<1>3. /\ Entry(x.release, x.since) \in EntryType
      /\ Entry(x.release, x.since).release = x.release /\ Entry(x.release, x.since).at = x.since
  BY DEF Entry, EntryType, Times, ResType
<1>4. entry \in [Isolates -> EntryType] /\ edge \in EntryType /\ StoreInv
  BY TypeParts DEF Inv
<1>5. y \in ResType /\ y.pc = "idle" /\ y.began = 0 /\ y.since = 0
  BY IdleType DEF IdleResolution
<1>6. edge' \in EntryType /\ entry' \in [Isolates -> EntryType]
  BY <1>1, <1>3, <1>4
<1>7. StoreInv'
  BY <1>1, <1>2, <1>3, <1>4 DEF StoreInv, Behind, world
<1> HIDE DEF x, y
<1>8. res[r].pc # "own" /\ y.began <= now /\ y.since <= now
  BY <1>1, <1>5 DEF x
<1> QED
  BY <1>1, <1>5, <1>6, <1>7, <1>8, StoreStep

-----------------------------------------------------------------------------
(* The refresh                                                             *)
LEMMA ReadCurrentStep ==
  ASSUME Inv, NEW i \in Isolates, ReadCurrent(i)
  PROVE  Inv'
<1>1. /\ flight[i].state = "out" /\ UNCHANGED <<world, entry, edge, res>>
      /\ flight' = [flight EXCEPT ![i] = [state |-> "read", release |-> currentId]]
  BY DEF ReadCurrent
<1>2. /\ flight' \in [Isolates -> FlightType]
      /\ \A j \in Isolates : flight'[j] =
           IF j = i THEN [state |-> "read", release |-> currentId] ELSE flight[j]
  BY <1>1, TypeParts DEF Inv, FlightType
<1>3. PointerTypeOK'
  BY <1>1, <1>2, TypeParts DEF Inv, world, PointerTypeOK, FlightType, ResType, Pcs, Timely
<1>4. StoreInv'
  BY <1>1 DEF Inv, StoreInv, Behind, world
<1>5. ASSUME NEW r \in Resolvers PROVE ResInv(r)'
  <2>1. ResInv(r) /\ Isolate(r) \in Isolates /\ lastCurrent[currentId] = now
    BY Record DEF Inv, StoreInv
  <2> QED
    BY <1>1, <1>2, <2>1 DEF ResInv, Behind, world
<1>6. FlightInv'
  BY <1>1, <1>2 DEF Inv, FlightInv
<1>7. SingleFlight'
  BY <1>1 DEF Inv, SingleFlight
<1> QED
  BY <1>3, <1>4, <1>5, <1>6, <1>7 DEF Inv

\* What a refresh that ends makes of those who await it.
LEMMA EndStep ==
  ASSUME Inv, NEW i \in Isolates, NEW y, UNCHANGED <<world, entry, edge>>,
         flight' = [flight EXCEPT ![i].state = "none"],
         res' = [r \in Resolvers |-> IF Awaiting(r, i) THEN y[r] ELSE res[r]],
         \A r \in Resolvers : Awaiting(r, i) =>
           /\ y[r] \in ResType /\ y[r].began <= now /\ y[r].since <= now
           /\ y[r].pc \in {"idle", "resumed", "resumed_owner"}
           /\ y[r].pc # "idle" => Behind(now, y[r].release, Latency)
  PROVE  Inv'
<1>1. /\ flight' \in [Isolates -> FlightType] /\ flight'[i].state = "none"
      /\ \A j \in Isolates : j # i => flight'[j] = flight[j]
  BY TypeParts DEF Inv, FlightType
<1>2. PointerTypeOK'
  <2>1. res' \in [Resolvers -> ResType]
    BY TypeParts DEF Inv
  <2>2. \A q \in Resolvers : Timely(q)'
    BY TypeParts DEF Inv, Timely, world, Waiting
  <2> QED
    BY <1>1, <2>1, <2>2, TypeParts DEF Inv, world, PointerTypeOK, FlightType, ResType, Pcs, Timely
<1>3. StoreInv'
  BY DEF Inv, StoreInv, Behind, world
<1>4. ASSUME NEW r \in Resolvers PROVE ResInv(r)'
  <2>1. CASE Awaiting(r, i)
    BY <2>1 DEF ResInv, Behind, world
  <2>2. CASE ~Awaiting(r, i)
    <3>1. res'[r] = res[r] /\ ResInv(r) /\ Isolate(r) \in Isolates
      BY <2>2, Record
    <3>2. res[r].pc = "own" => flight'[Isolate(r)] = flight[Isolate(r)]
      BY <1>1, <2>2, <3>1 DEF Awaiting
    <3> QED
      BY <3>1, <3>2 DEF ResInv, Behind, world
  <2> QED
    BY <2>1, <2>2
<1>5. FlightInv'
  <2> SUFFICES ASSUME NEW j \in Isolates, flight'[j].state # "none"
               PROVE  \E q \in Resolvers : Isolate(q) = j /\ res'[q].pc = "own"
    BY DEF FlightInv
  <2>1. j # i /\ flight[j].state # "none"
    BY <1>1
  <2>2. PICK q \in Resolvers : Isolate(q) = j /\ res[q].pc = "own"
    BY <2>1 DEF Inv, FlightInv
  <2>3. res'[q] = res[q]
    BY <2>1, <2>2 DEF Awaiting
  <2> QED
    BY <2>2, <2>3
<1>6. SingleFlight'
  <2>1. \A q \in Resolvers : res'[q].pc = "own" => res[q].pc = "own"
    OBVIOUS
  <2> QED
    BY <2>1 DEF Inv, SingleFlight
<1> QED
  BY <1>2, <1>3, <1>4, <1>5, <1>6 DEF Inv

LEMMA TaskDoneStep ==
  ASSUME Inv, NEW i \in Isolates, TaskDone(i)
  PROVE  Inv'
<1> DEFINE y == [r \in Resolvers |-> [res[r] EXCEPT !.release = flight[i].release,
                   !.pc = IF @ = "own" THEN "resumed_owner" ELSE "resumed"]]
<1>1. /\ flight[i].state = "read" /\ UNCHANGED <<world, entry, edge>>
      /\ flight' = [flight EXCEPT ![i].state = "none"]
      /\ res' = [r \in Resolvers |-> IF Awaiting(r, i) THEN y[r] ELSE res[r]]
  BY DEF TaskDone
<1>2. PICK owner \in Resolvers : Isolate(owner) = i /\ res[owner].pc = "own"
  BY <1>1 DEF Inv, FlightInv
<1>3. flight[i].release \in ReleaseIds
  BY TypeParts DEF Inv, FlightType
<1>4. Behind(now, flight[i].release, Latency)
  <2>1. lastCurrent[flight[i].release] >= res[owner].since
    BY <1>1, <1>2, Record DEF ResInv
  <2>2. now - res[owner].since <= Latency
    BY <1>2, Record DEF Timely
  <2> QED
    BY <1>3, <2>1, <2>2, <1>2, Record DEF Behind
<1>5. ASSUME NEW r \in Resolvers
      PROVE  /\ y[r] \in ResType /\ y[r].began <= now /\ y[r].since <= now
             /\ y[r].pc \in {"idle", "resumed", "resumed_owner"}
             /\ y[r].release = flight[i].release
  <2>1. res[r] \in ResType /\ ResInv(r)
    BY Record
  <2> QED
    BY <1>3, <2>1 DEF ResType, Pcs, ResInv
<1> HIDE DEF y
<1> QED
  BY <1>1, <1>4, <1>5, EndStep

LEMMA TaskFailsStep ==
  ASSUME Inv, NEW i \in Isolates, TaskFails(i)
  PROVE  Inv'
<1> DEFINE y == [r \in Resolvers |-> IdleResolution(res[r].release)]
<1>1. /\ UNCHANGED <<world, entry, edge>>
      /\ flight' = [flight EXCEPT ![i].state = "none"]
      /\ res' = [r \in Resolvers |-> IF Awaiting(r, i) THEN y[r] ELSE res[r]]
  BY DEF TaskFails
<1>2. ASSUME NEW r \in Resolvers
      PROVE  y[r] \in ResType /\ y[r].began <= now /\ y[r].since <= now /\ y[r].pc = "idle"
  <2>1. res[r].release \in ReleaseIds /\ now \in Nat
    BY Record
  <2>2. IdleResolution(res[r].release) \in ResType
    BY <2>1, IdleType
  <2> QED
    BY <2>1, <2>2 DEF IdleResolution
<1> HIDE DEF y
<1> QED
  BY <1>1, <1>2, EndStep

-----------------------------------------------------------------------------
(* The world                                                               *)
LEMMA TickStep == ASSUME Inv, Tick PROVE Inv'
<1>1. /\ now' = now + 1 /\ lastCurrent' = [lastCurrent EXCEPT ![currentId] = now + 1]
      /\ now < MaxTime /\ UNCHANGED <<currentId, entry, flight, edge, res>>
  BY DEF Tick
<1>2. /\ now \in Nat /\ now \in 0..MaxTime /\ Latency \in Nat /\ currentId \in ReleaseIds
      /\ lastCurrent \in [ReleaseIds -> 0..now]
  BY TypeParts, PointerAssumption DEF Inv
<1>3. /\ \A v \in ReleaseIds : lastCurrent'[v] \in Nat /\ lastCurrent'[v] >= lastCurrent[v]
      /\ \A v \in ReleaseIds : lastCurrent[v] \in Nat
      /\ lastCurrent'[currentId'] = now' /\ lastCurrent' \in [ReleaseIds -> 0..now']
  BY <1>1, <1>2
<1>5. PointerTypeOK'
  <2>1. now' \in 0..MaxTime
    <3>1. MaxTime \in Nat
      BY PointerAssumption
    <3> QED
      BY <1>1, <1>2, <3>1
  <2>2. ASSUME NEW r \in Resolvers PROVE Timely(r)'
    <3>1. res[r].pc \in Waiting \cup {"own"} => now - res[r].since < Latency
      BY DEF Tick
    <3> QED
      BY <1>1, <1>2, <3>1, Record DEF Timely
  <2> QED
    BY <1>1, <1>3, <2>1, <2>2, TypeParts DEF Inv, PointerTypeOK, FlightType, ResType, Pcs, Timely
<1>6. StoreInv'
  <2>1. ASSUME NEW i \in Isolates, entry'[i].held
        PROVE  Behind(entry[i].at, entry[i].release, 2 * Latency)'
    <3>1. entry[i] \in EntryType /\ Behind(entry[i].at, entry[i].release, 2 * Latency)
      BY <1>1, <2>1, TypeParts DEF Inv, StoreInv
    <3> QED
      BY <1>1, <1>2, <1>3, <3>1 DEF Behind, EntryType, Times
  <2>2. edge'.held => edge'.at <= now' /\ Behind(edge.at, edge.release, Latency)'
    <3>1. edge \in EntryType /\ (edge.held => edge.at <= now /\ Behind(edge.at, edge.release, Latency))
      BY TypeParts DEF Inv, StoreInv
    <3> QED
      BY <1>1, <1>2, <1>3, <3>1 DEF Behind, EntryType, Times
  <2> QED
    BY <1>3, <2>1, <2>2 DEF StoreInv
<1>7. ASSUME NEW r \in Resolvers PROVE ResInv(r)'
  <2>1. /\ ResInv(r) /\ res[r].pc \notin {"resumed", "resumed_owner"}
        /\ res[r].began \in Nat /\ res[r].since \in Nat /\ res[r].age \in Nat
        /\ res[r].release \in ReleaseIds /\ Isolate(r) \in Isolates
        /\ flight[Isolate(r)].release \in ReleaseIds
    BY Record DEF Tick, FlightType
  <2>2. res[r].began <= now' /\ res[r].since <= now'
    BY <1>1, <1>2, <2>1 DEF ResInv
  <2>3. res[r].pc = "text" => Behind(res[r].since - res[r].age, res[r].release, Latency)'
    BY <1>1, <1>2, <1>3, <2>1 DEF ResInv, Behind
  <2>4. res[r].pc = "put" => Behind(res[r].since, res[r].release, Latency)'
    BY <1>1, <1>2, <1>3, <2>1 DEF ResInv, Behind
  <2>5. res[r].pc = "own" /\ flight[Isolate(r)].state = "read" =>
          lastCurrent'[flight[Isolate(r)].release] >= res[r].since
    BY <1>3, <2>1 DEF ResInv
  <2> QED
    BY <1>1, <2>1, <2>2, <2>3, <2>4, <2>5 DEF ResInv
<1>8. FlightInv'
  BY <1>1 DEF Inv, FlightInv
<1>9. SingleFlight'
  BY <1>1 DEF Inv, SingleFlight
<1> QED
  BY <1>5, <1>6, <1>7, <1>8, <1>9 DEF Inv

LEMMA RepointStep == ASSUME Inv, NEW v \in ReleaseIds, Repoint(v) PROVE Inv'
<1>1. /\ currentId' = v /\ lastCurrent' = [lastCurrent EXCEPT ![v] = now]
      /\ UNCHANGED <<now, entry, flight, edge, res>>
  BY DEF Repoint
<1>2. now \in Nat /\ Latency \in Nat /\ lastCurrent \in [ReleaseIds -> 0..now]
  BY TypeParts, PointerAssumption DEF Inv
<1>3. /\ \A u \in ReleaseIds : lastCurrent'[u] \in Nat /\ lastCurrent'[u] >= lastCurrent[u]
      /\ \A u \in ReleaseIds : lastCurrent[u] \in Nat
      /\ lastCurrent'[v] = now /\ lastCurrent' \in [ReleaseIds -> 0..now]
  BY <1>1, <1>2
<1>4. PointerTypeOK'
  BY <1>1, <1>3, TypeParts DEF Inv, PointerTypeOK, FlightType, ResType, Pcs, Timely
<1>5. StoreInv'
  <2>1. ASSUME NEW i \in Isolates, entry'[i].held
        PROVE  Behind(entry[i].at, entry[i].release, 2 * Latency)'
    <3>1. entry[i] \in EntryType /\ Behind(entry[i].at, entry[i].release, 2 * Latency)
      BY <1>1, <2>1, TypeParts DEF Inv, StoreInv
    <3> QED
      BY <1>1, <1>2, <1>3, <3>1 DEF Behind, EntryType, Times
  <2>2. edge'.held => edge'.at <= now' /\ Behind(edge.at, edge.release, Latency)'
    <3>1. edge \in EntryType /\ (edge.held => edge.at <= now /\ Behind(edge.at, edge.release, Latency))
      BY TypeParts DEF Inv, StoreInv
    <3> QED
      BY <1>1, <1>2, <1>3, <3>1 DEF Behind, EntryType, Times
  <2> QED
    BY <1>1, <1>3, <2>1, <2>2 DEF StoreInv
<1>6. ASSUME NEW r \in Resolvers PROVE ResInv(r)'
  <2>1. /\ ResInv(r) /\ res[r].began \in Nat /\ res[r].since \in Nat /\ res[r].age \in Nat
        /\ res[r].release \in ReleaseIds /\ Isolate(r) \in Isolates
        /\ flight[Isolate(r)].release \in ReleaseIds
    BY Record DEF FlightType
  <2>3. flight[Isolate(r)].state = "read" /\ res[r].pc = "own" =>
          lastCurrent'[flight[Isolate(r)].release] >= res[r].since
    BY <1>3, <2>1 DEF ResInv
  <2>4. /\ res[r].pc = "text" => Behind(res[r].since - res[r].age, res[r].release, Latency)'
        /\ res[r].pc = "put" => Behind(res[r].since, res[r].release, Latency)'
        /\ res[r].pc \in {"resumed", "resumed_owner"} => Behind(now, res[r].release, Latency)'
    BY <1>1, <1>2, <1>3, <2>1 DEF ResInv, Behind
  <2> QED
    BY <1>1, <2>1, <2>3, <2>4 DEF ResInv
<1>7. FlightInv'
  BY <1>1 DEF Inv, FlightInv
<1>8. SingleFlight'
  BY <1>1 DEF Inv, SingleFlight
<1> QED
  BY <1>4, <1>5, <1>6, <1>7, <1>8 DEF Inv

-----------------------------------------------------------------------------
(* The theorems                                                            *)
LEMMA InitInv == PointerInit => Inv
<1> SUFFICES ASSUME PointerInit PROVE Inv
  OBVIOUS
<1>1. /\ now = 0 /\ currentId \in ReleaseIds /\ lastCurrent = [v \in ReleaseIds |-> 0]
      /\ entry = [i \in Isolates |-> NoEntry(currentId)] /\ edge = NoEntry(currentId)
      /\ flight = [i \in Isolates |-> [state |-> "none", release |-> currentId]]
      /\ res = [r \in Resolvers |-> IdleResolution(currentId)]
  BY DEF PointerInit
<1>2. MaxTime \in Nat /\ Latency \in Nat
  BY PointerAssumption
<1>3. /\ \A r \in Resolvers : res[r] \in ResType /\ res[r].pc = "idle"
                             /\ res[r].began = 0 /\ res[r].since = 0
      /\ res \in [Resolvers -> ResType]
  BY <1>1, IdleType DEF IdleResolution
<1>4. NoEntry(currentId) \in EntryType /\ ~NoEntry(currentId).held
  BY <1>1, <1>2 DEF NoEntry, EntryType, Times
<1>5. PointerTypeOK
  <2>1. \A r \in Resolvers : Timely(r)
    BY <1>3 DEF Timely, Waiting
  <2>2. flight \in [Isolates -> FlightType] /\ lastCurrent \in [ReleaseIds -> 0..now] /\ now \in 0..MaxTime
    BY <1>1, <1>2 DEF FlightType
  <2> QED
    BY <1>1, <1>3, <1>4, <2>1, <2>2, TypeParts
<1>6. StoreInv
  BY <1>1, <1>4 DEF StoreInv
<1>7. \A r \in Resolvers : ResInv(r)
  BY <1>1, <1>3 DEF ResInv
<1>8. FlightInv /\ SingleFlight
  BY <1>1, <1>3 DEF FlightInv, SingleFlight
<1> QED
  BY <1>5, <1>6, <1>7, <1>8 DEF Inv

LEMMA NextInv == Inv /\ [PointerNext]_pointerVars => Inv'
<1> SUFFICES ASSUME Inv, [PointerNext]_pointerVars PROVE Inv'
  OBVIOUS
<1>1. CASE Tick
  BY <1>1, TickStep
<1>2. ASSUME NEW v \in ReleaseIds, Repoint(v) PROVE Inv'
  BY <1>2, RepointStep
<1>3. ASSUME NEW r \in Resolvers, Hit(r) \/ Expired(r) \/ Resolve(r) PROVE Inv'
  BY <1>3, MoveSteps, EdgeTextStep, RefreshStep, OwnedStep, PutStep DEF Resolve
<1>4. ASSUME NEW i \in Isolates, RefreshTask(i) PROVE Inv'
  BY <1>4, ReadCurrentStep, TaskDoneStep, TaskFailsStep DEF RefreshTask
<1>5. CASE UNCHANGED pointerVars
  BY <1>5 DEF pointerVars, Inv, PointerTypeOK, EntryType, StoreInv, Behind, ResInv, FlightInv, SingleFlight
<1> QED
  BY <1>1, <1>2, <1>3, <1>4, <1>5 DEF PointerNext

LEMMA Invariant == PointerSpec => []Inv
  BY InitInv, NextInv, PTL DEF PointerSpec

\* Type correctness, for any number of isolates and resolutions: no copy of
\* the pointer is stamped with a time to come, and an edge entry is taken over
\* only within its TTL.
THEOREM PointerTypeCorrect == PointerSpec => []PointerTypeOK
<1>1. Inv => PointerTypeOK
  BY DEF Inv
<1> QED
  BY <1>1, Invariant, PTL

\* A single refresh per isolate reads the object, for any number of
\* resolutions that share it.
THEOREM RefreshesAreSingle == PointerSpec => []SingleFlight
<1>1. Inv => SingleFlight
  BY DEF Inv
<1> QED
  BY <1>1, Invariant, PTL

LEMMA AnswersAreRecent == Inv => StalenessBounded
<1> SUFFICES ASSUME Inv, NEW r \in Resolvers, NEW given \in PointerAnswers(r)
             PROVE  StaleBy(given) < TTL + 2 * Latency
  BY DEF StalenessBounded
<1> DEFINE x == res[r]
           e == entry[Isolate(r)]
<1>1. /\ x.began \in Nat /\ x.since \in Nat /\ x.age \in 0..(TTL - 1) /\ x.release \in ReleaseIds
      /\ e \in EntryType /\ now \in Nat /\ Latency \in Nat /\ TTL \in Nat \ {0}
      /\ lastCurrent[x.release] \in Nat
  BY Record, PointerAssumption DEF ResType
<1>2. CASE x.pc = "idle" /\ Fresh(e)
  <2>1. given[2] = now /\ given[1] = e.release
    BY <1>2 DEF PointerAnswers
  <2>2. e.at \in Nat /\ e.release \in ReleaseIds /\ lastCurrent[e.release] \in Nat
    BY <1>1, Record DEF EntryType, Times
  <2>3. e.at - lastCurrent[e.release] <= 2 * Latency /\ now - e.at < TTL
    BY <1>2, Homes DEF Inv, StoreInv, Fresh, Behind
  <2> HIDE DEF e
  <2>4. now - lastCurrent[e.release] < TTL + 2 * Latency
    BY <1>1, <2>2, <2>3
  <2> QED
    BY <2>1, <2>4 DEF StaleBy
<1>3. CASE x.pc \in {"text", "resumed", "resumed_owner", "put"}
  <2>1. given[2] = x.began /\ given[1] = x.release
    BY <1>3 DEF PointerAnswers
  <2>2. x.began - lastCurrent[x.release] <= x.age + Latency
    <3>1. CASE x.pc = "text"
      BY <1>1, <3>1, Record DEF ResInv, Behind
    <3>2. CASE x.pc \in {"resumed", "resumed_owner"}
      BY <1>1, <3>2, Record DEF ResInv, Behind
    <3>3. CASE x.pc = "put"
      BY <1>1, <3>3, Record DEF ResInv, Behind
    <3> QED
      BY <1>3, <3>1, <3>2, <3>3
  <2> HIDE DEF x
  <2>3. x.began - lastCurrent[x.release] < TTL + 2 * Latency
    BY <1>1, <2>2
  <2> QED
    BY <2>1, <2>3 DEF StaleBy
<1> QED
  BY <1>2, <1>3 DEF PointerAnswers

\* No resolution of any isolate answers a release that had ceased to be
\* CURRENT for the TTL and two waits when the resolution began, for every TTL
\* and every bound on the waits.
THEOREM StalenessIsBounded == PointerSpec => []StalenessBounded
  BY Invariant, AnswersAreRecent, PTL
-----------------------------------------------------------------------------
(* The cache implements RecentPointer.                                     *)
LEMMA CallsOf ==
  ASSUME NEW C \in SUBSET Resolvers, NEW to, UNCHANGED world,
         \A r \in Resolvers : CallOf(r)' = IF r \in C THEN to[r] ELSE CallOf(r)
  PROVE  Promised!Calls(C, to)
<1>1. [r \in Resolvers |-> CallOf(r)]' = [r \in Resolvers |-> IF r \in C THEN to[r] ELSE CallOf(r)]
  OBVIOUS
<1>2. [r \in Resolvers |-> IF r \in C THEN to[r] ELSE CallOf(r)]
        = [c \in Resolvers |-> IF c \in C THEN to[c] ELSE [r \in Resolvers |-> CallOf(r)][c]]
  OBVIOUS
<1> QED
  BY <1>1, <1>2 DEF Promised!Calls, world

\* The stages of what a resolution waits for.
LEMMA Stages ==
  /\ StageOf("idle") = "idle" /\ StageOf("match") = "asked" /\ StageOf("follow") = "asked"
  /\ StageOf("own") = "asked" /\ StageOf("text") = "found" /\ StageOf("resumed") = "found"
  /\ StageOf("resumed_owner") = "found" /\ StageOf("put") = "found"
  BY DEF StageOf

\* What one resolution becomes, the others staying as they are.
Becomes(r, stage, began, release) ==
  Promised!Calls({r}, [d \in {r} |-> Promised!AtStage(stage, began, release)])
LEMMA OneCall ==
  ASSUME Inv, NEW r \in Resolvers, NEW y, res' = [res EXCEPT ![r] = y], UNCHANGED world
  PROVE  Becomes(r, StageOf(y.pc), y.began, y.release)
<1> DEFINE stage == StageOf(y.pc)
           began == y.began
           release == y.release
<1> DEFINE to == [d \in {r} |-> Promised!AtStage(stage, began, release)]
<1>1. \A q \in Resolvers : res'[q] = IF q = r THEN y ELSE res[q]
  BY TypeParts DEF Inv
<1>2. ASSUME NEW q \in Resolvers PROVE CallOf(q)' = IF q \in {r} THEN to[q] ELSE CallOf(q)
  <2>1. CASE q = r
    <3>1. res'[q] = y /\ to[q] = [stage |-> stage, began |-> began, release |-> release]
      BY <1>1, <2>1 DEF Promised!AtStage
    <3> QED
      BY <2>1, <3>1 DEF CallOf
  <2>2. CASE q # r
    BY <1>1, <2>2 DEF CallOf
  <2> QED
    BY <2>1, <2>2
<1> HIDE DEF to
<1>3. Promised!Calls({r}, to)
  BY <1>2, CallsOf
<1> QED
  BY <1>3 DEF to, Becomes

\* The release that a resolution comes to hold is recent enough for it.
LEMMA EntryIsRecent ==
  ASSUME Inv, NEW i \in Isolates, Fresh(entry[i])
  PROVE  entry[i].release \in ReleaseIds /\ Promised!Recent(entry[i].release, now)
<1>1. /\ entry[i].at \in Nat /\ entry[i].release \in ReleaseIds /\ now \in Nat
      /\ Latency \in Nat /\ TTL \in Nat
  BY TypeParts, PointerAssumption DEF Inv, EntryType, Times
<1>2. lastCurrent[entry[i].release] \in Nat
  BY <1>1, TypeParts DEF Inv
<1>3. entry[i].at - lastCurrent[entry[i].release] <= 2 * Latency /\ now - entry[i].at < TTL
  BY DEF Inv, StoreInv, Fresh, Behind
<1> QED
  BY <1>1, <1>2, <1>3 DEF Promised!Recent

LEMMA EdgeIsRecent ==
  ASSUME Inv, Fresh(edge), NEW t \in Nat, t <= now
  PROVE  edge.release \in ReleaseIds /\ Promised!Recent(edge.release, t)
<1>1. /\ edge.at \in Nat /\ edge.release \in ReleaseIds /\ now \in Nat
      /\ Latency \in Nat /\ TTL \in Nat
  BY TypeParts, PointerAssumption DEF Inv, EntryType, Times
<1>2. lastCurrent[edge.release] \in Nat
  BY <1>1, TypeParts DEF Inv
<1>3. edge.at - lastCurrent[edge.release] <= Latency /\ now - edge.at < TTL
  BY DEF Inv, StoreInv, Fresh, Behind
<1> QED
  BY <1>1, <1>2, <1>3 DEF Promised!Recent

\* What a refresh has read was CURRENT when it was read, after its owner began to wait.
LEMMA ReadIsRecent ==
  ASSUME Inv, NEW i \in Isolates, flight[i].state = "read", NEW t \in Nat, t <= now
  PROVE  flight[i].release \in ReleaseIds /\ Promised!Recent(flight[i].release, t)
<1>1. PICK r \in Resolvers : Isolate(r) = i /\ res[r].pc = "own"
  BY DEF Inv, FlightInv
<1>2. /\ res[r].since \in Nat /\ now \in Nat /\ Latency \in Nat /\ TTL \in Nat \ {0}
      /\ now - res[r].since <= Latency /\ lastCurrent[flight[i].release] >= res[r].since
  BY <1>1, Record, PointerAssumption DEF Timely, ResInv
<1>3. flight[i].release \in ReleaseIds /\ lastCurrent[flight[i].release] \in Nat
  BY TypeParts DEF Inv, FlightType
<1> QED
  BY <1>2, <1>3 DEF Promised!Recent

LEMMA WorldSteps ==
  ASSUME Inv, NEW v \in ReleaseIds, Tick \/ Repoint(v)
  PROVE  Promised!Pass \/ Promised!Move(v)
<1>1. res' = res /\ [r \in Resolvers |-> CallOf(r)]' = [r \in Resolvers |-> CallOf(r)]
  BY DEF Tick, Repoint, CallOf
<1> QED
  BY <1>1 DEF Tick, Repoint, Promised!Pass, Promised!Move

LEMMA CallIs ==
  ASSUME NEW r \in Resolvers
  PROVE  /\ [q \in Resolvers |-> CallOf(q)][r].stage = StageOf(res[r].pc)
         /\ [q \in Resolvers |-> CallOf(q)][r].began = res[r].began
         /\ [q \in Resolvers |-> CallOf(q)][r].release = res[r].release
  BY DEF CallOf

LEMMA ResolverSteps ==
  ASSUME Inv, NEW r \in Resolvers, Hit(r) \/ Expired(r) \/ Resolve(r)
  PROVE  [Promised!RecentNext]_(Promised!recentVars)
<1> USE CallIs, Stages
<1>0. Isolate(r) \in Isolates
  BY Homes
<1>1. CASE Hit(r)
  <2> DEFINE y == IdleResolution(entry[Isolate(r)].release)
  <2>1. res' = [res EXCEPT ![r] = y] /\ UNCHANGED world /\ res[r].pc = "idle"
    BY <1>1 DEF Hit, Return
  <2>2. y.pc = "idle" /\ y.began = 0 /\ y.release = entry[Isolate(r)].release
    BY DEF IdleResolution
  <2> HIDE DEF y
  <2>3. Becomes(r, "idle", 0, entry[Isolate(r)].release)
    <3>1. Becomes(r, StageOf(y.pc), y.began, y.release)
      BY <2>1, OneCall, Zenon
    <3> QED
      BY <2>2, <3>1
  <2>4. entry[Isolate(r)].release \in ReleaseIds /\ Promised!Recent(entry[Isolate(r)].release, now)
    BY <1>0, <1>1, EntryIsRecent DEF Hit
  <2>5. Promised!AnswerAtOnce(r, entry[Isolate(r)].release)
    BY <2>1, <2>3, <2>4 DEF Promised!AnswerAtOnce, Becomes
  <2> QED
    BY <2>4, <2>5 DEF Promised!RecentNext
<1>2. CASE Expired(r)
  <2> DEFINE y == [res[r] EXCEPT !.pc = "match", !.began = now, !.since = now]
  <2>1. res' = [res EXCEPT ![r] = y] /\ UNCHANGED world /\ res[r].pc = "idle"
    BY <1>2 DEF Expired
  <2>2. y.pc = "match" /\ y.began = now /\ y.release = res[r].release
    BY Record DEF ResType
  <2> HIDE DEF y
  <2>3. Becomes(r, "asked", now, res[r].release)
    <3>1. Becomes(r, StageOf(y.pc), y.began, y.release)
      BY <2>1, OneCall, Zenon
    <3> QED
      BY <2>2, <3>1
  <2>4. Promised!Ask(r)
    BY <2>1, <2>3 DEF Promised!Ask, Becomes
  <2> QED
    BY <2>4 DEF Promised!RecentNext
<1>3. CASE EdgeHit(r)
  <2> DEFINE y == [res[r] EXCEPT !.pc = "text", !.since = now,
                                 !.release = edge.release, !.age = now - edge.at]
  <2>1. res' = [res EXCEPT ![r] = y] /\ UNCHANGED world /\ res[r].pc = "match" /\ Fresh(edge)
    BY <1>3 DEF EdgeHit
  <2>2. y.pc = "text" /\ y.began = res[r].began /\ y.release = edge.release
    BY Record DEF ResType
  <2> HIDE DEF y
  <2>3. Becomes(r, "found", res[r].began, edge.release)
    <3>1. Becomes(r, StageOf(y.pc), y.began, y.release)
      BY <2>1, OneCall, Zenon
    <3> QED
      BY <2>2, <3>1
  <2>4. edge.release \in ReleaseIds /\ Promised!Recent(edge.release, res[r].began)
    BY <2>1, Record, EdgeIsRecent DEF ResInv
  <2>5. Promised!Find({r}, edge.release)
    BY <2>1, <2>3, <2>4 DEF Promised!Find, Becomes
  <2> QED
    BY <2>4, <2>5 DEF Promised!RecentNext
<1>4. CASE EdgeText(r) \/ Followed(r) \/ EdgePut(r)
  <2> DEFINE y == IdleResolution(res[r].release)
  <2>1. /\ res' = [res EXCEPT ![r] = y] /\ UNCHANGED world
        /\ res[r].pc \in {"text", "resumed", "put"}
    BY <1>4 DEF EdgeText, Followed, EdgePut, Return
  <2>2. y.pc = "idle" /\ y.began = 0 /\ y.release = res[r].release
    BY DEF IdleResolution
  <2> HIDE DEF y
  <2>3. Becomes(r, "idle", 0, res[r].release)
    <3>1. Becomes(r, StageOf(y.pc), y.began, y.release)
      BY <2>1, OneCall, Zenon
    <3> QED
      BY <2>2, <3>1
  <2>4. Promised!Answer(r)
    BY <2>1, <2>3 DEF Promised!Answer, Becomes
  <2> QED
    BY <2>4 DEF Promised!RecentNext
<1>5. CASE Refresh(r)
  <2>1. PICK pc \in {"own", "follow"}, since \in {now, res[r].since} :
           res' = [res EXCEPT ![r] = [res[r] EXCEPT !.pc = pc, !.since = since]]
    BY <1>5, Record DEF Refresh, ResType
  <2> DEFINE y == [res[r] EXCEPT !.pc = pc, !.since = since]
  <2>2. UNCHANGED world /\ res[r].pc \in {"match", "text"}
    BY <1>5 DEF Refresh
  <2>3. StageOf(y.pc) = "asked" /\ y.began = res[r].began /\ y.release = res[r].release
    BY Record DEF ResType
  <2> HIDE DEF y
  <2>4. Becomes(r, "asked", res[r].began, res[r].release)
    <3>1. res' = [res EXCEPT ![r] = y]
      BY <2>1 DEF y
    <3>2. Becomes(r, StageOf(y.pc), y.began, y.release)
      BY <2>2, <3>1, OneCall, Zenon
    <3> QED
      BY <2>3, <3>2
  <2>5. CASE res[r].pc = "text"
    <3>1. Promised!Lose(r)
      BY <2>4, <2>5 DEF Promised!Lose, Becomes
    <3> QED
      BY <3>1 DEF Promised!RecentNext
  <2>6. CASE res[r].pc = "match"
    <3>1. \A q \in Resolvers : CallOf(q)' = CallOf(q)
      <4>1. \A q \in Resolvers : res'[q] = IF q = r THEN y ELSE res[q]
        BY <2>1, TypeParts DEF Inv, y
      <4> QED
        BY <2>3, <2>6, <4>1 DEF CallOf
    <3>2. [q \in Resolvers |-> CallOf(q)]' = [q \in Resolvers |-> CallOf(q)]
      BY <3>1
    <3> QED
      BY <2>2, <3>2 DEF Promised!recentVars, world
  <2> QED
    BY <2>2, <2>5, <2>6
<1>6. CASE Owned(r)
  <2> DEFINE y == [res[r] EXCEPT !.pc = "put", !.since = now]
  <2>1. res' = [res EXCEPT ![r] = y] /\ UNCHANGED world /\ res[r].pc = "resumed_owner"
    BY <1>6 DEF Owned
  <2>2. y.pc = "put" /\ y.began = res[r].began /\ y.release = res[r].release
    BY Record DEF ResType
  <2> HIDE DEF y
  <2>3. \A q \in Resolvers : CallOf(q)' = CallOf(q)
    <3>1. \A q \in Resolvers : res'[q] = IF q = r THEN y ELSE res[q]
      BY <2>1, TypeParts DEF Inv
    <3> QED
      BY <2>1, <2>2, <3>1 DEF CallOf
  <2>4. [q \in Resolvers |-> CallOf(q)]' = [q \in Resolvers |-> CallOf(q)]
    BY <2>3
  <2> QED
    BY <2>1, <2>4 DEF Promised!recentVars, world
<1> QED
  BY <1>1, <1>2, <1>3, <1>4, <1>5, <1>6 DEF Resolve

\* A refresh answers, or refuses, all who await it in one step.
LEMMA TaskSteps ==
  ASSUME Inv, NEW i \in Isolates, RefreshTask(i)
  PROVE  [Promised!RecentNext]_(Promised!recentVars)
<1> DEFINE C == {r \in Resolvers : Awaiting(r, i)}
           v == flight[i].release
<1> USE CallIs, Stages
<1>0. C \in SUBSET Resolvers /\ \A r \in C : StageOf(res[r].pc) = "asked"
  BY DEF Awaiting
<1>1. CASE ReadCurrent(i)
  <2>1. [q \in Resolvers |-> CallOf(q)]' = [q \in Resolvers |-> CallOf(q)] /\ UNCHANGED world
    BY <1>1 DEF ReadCurrent, CallOf
  <2> QED
    BY <2>1 DEF Promised!recentVars, world
<1>2. CASE TaskDone(i)
  <2> DEFINE to == [c \in C |-> Promised!AtStage("found", res[c].began, v)]
  <2>1. /\ UNCHANGED world /\ flight[i].state = "read"
        /\ res' = [r \in Resolvers |->
             IF Awaiting(r, i)
             THEN [res[r] EXCEPT !.release = v, !.pc = IF @ = "own" THEN "resumed_owner" ELSE "resumed"]
             ELSE res[r]]
    BY <1>2 DEF TaskDone
  <2>2. ASSUME NEW r \in Resolvers PROVE CallOf(r)' = IF r \in C THEN to[r] ELSE CallOf(r)
    <3>1. CASE Awaiting(r, i)
      <4>1. PICK pc \in {"resumed", "resumed_owner"} :
              res'[r] = [res[r] EXCEPT !.release = v, !.pc = pc]
        BY <2>1, <3>1, Record DEF ResType
      <4>2. StageOf(res'[r].pc) = "found" /\ res'[r].began = res[r].began /\ res'[r].release = v
        BY <4>1, Record DEF ResType
      <4>3. to[r] = [stage |-> "found", began |-> res[r].began, release |-> v]
        BY <3>1 DEF Promised!AtStage
      <4> QED
        BY <3>1, <4>2, <4>3 DEF CallOf
    <3>2. CASE ~Awaiting(r, i)
      BY <2>1, <3>2 DEF CallOf
    <3> QED
      BY <3>1, <3>2
  <2> HIDE DEF C
  <2>3. Promised!Calls(C, to)
    <3> HIDE DEF to
    <3> QED
      BY <1>0, <2>1, <2>2, CallsOf
  <2>4. v \in ReleaseIds /\ \A r \in C : Promised!Recent(v, res[r].began)
    <3>1. v \in ReleaseIds
      BY TypeParts DEF Inv, FlightType
    <3>2. \A r \in C : res[r].began \in Nat /\ res[r].began <= now
      BY <1>0, Record DEF ResInv
    <3> QED
      BY <2>1, <3>1, <3>2, ReadIsRecent
  <2> HIDE DEF v
  <2>5. [c \in C |-> Promised!AtStage("found", [q \in Resolvers |-> CallOf(q)][c].began, v)] = to
    BY <1>0
  <2> HIDE DEF to
  <2>6. Promised!Find(C, v)
    BY <1>0, <2>3, <2>4, <2>5 DEF Promised!Find
  <2> QED
    BY <1>0, <2>4, <2>6 DEF Promised!RecentNext
<1>3. CASE TaskFails(i)
  <2> DEFINE to == [c \in C |-> Promised!AtStage("idle", 0, res[c].release)]
  <2>1. /\ UNCHANGED world
        /\ res' = [r \in Resolvers |->
             IF Awaiting(r, i) THEN IdleResolution(res[r].release) ELSE res[r]]
    BY <1>3 DEF TaskFails
  <2>2. ASSUME NEW r \in Resolvers PROVE CallOf(r)' = IF r \in C THEN to[r] ELSE CallOf(r)
    <3>1. CASE Awaiting(r, i)
      <4>1. to[r] = [stage |-> "idle", began |-> 0, release |-> res[r].release]
        BY <3>1 DEF Promised!AtStage
      <4> QED
        BY <2>1, <3>1, <4>1 DEF CallOf, IdleResolution
    <3>2. CASE ~Awaiting(r, i)
      BY <2>1, <3>2 DEF CallOf
    <3> QED
      BY <3>1, <3>2
  <2> HIDE DEF C
  <2>3. Promised!Calls(C, to)
    <3> HIDE DEF to
    <3> QED
      BY <1>0, <2>1, <2>2, CallsOf
  <2>4. [c \in C |-> Promised!AtStage("idle", 0, [q \in Resolvers |-> CallOf(q)][c].release)] = to
    BY <1>0
  <2> HIDE DEF to
  <2>5. Promised!Refuse(C)
    BY <1>0, <2>3, <2>4 DEF Promised!Refuse
  <2> QED
    BY <1>0, <2>5 DEF Promised!RecentNext
<1> QED
  BY <1>1, <1>2, <1>3 DEF RefreshTask

\* The cache of the pointer implements RecentPointer: a caller of resolve is answered with a
\* release that was CURRENT less than the TTL and two waits before it asked, or refused, however
\* many isolates and resolutions there are.
THEOREM CacheKeepsPointerRecent == PointerSpec => KeepsPointerRecent
<1>1. PointerInit => Promised!RecentInit
  <2> SUFFICES ASSUME PointerInit PROVE Promised!RecentInit
    OBVIOUS
  <2>1. \A r \in Resolvers : CallOf(r) = [stage |-> "idle", began |-> 0, release |-> currentId]
    BY Stages DEF PointerInit, IdleResolution, CallOf
  <2> QED
    BY <2>1 DEF PointerInit, Promised!RecentInit
<1>2. ASSUME Inv, [PointerNext]_pointerVars PROVE [Promised!RecentNext]_(Promised!recentVars)
  <2>1. ASSUME NEW v \in ReleaseIds, Tick \/ Repoint(v) PROVE Promised!RecentNext
    BY <1>2, <2>1, WorldSteps DEF Promised!RecentNext
  <2>2. CASE UNCHANGED pointerVars
    <3>1. [q \in Resolvers |-> CallOf(q)]' = [q \in Resolvers |-> CallOf(q)]
      BY <2>2 DEF pointerVars, CallOf
    <3> QED
      BY <2>2, <3>1 DEF pointerVars, Promised!recentVars
  <2>3. ReleaseIds # {}
    BY PointerAssumption
  <2> QED
    BY <1>2, <2>1, <2>2, <2>3, ResolverSteps, TaskSteps DEF PointerNext
<1> QED
  BY <1>1, <1>2, Invariant, PTL DEF PointerSpec, Promised!RecentSpec, KeepsPointerRecent
=============================================================================
