------------------------------- MODULE SecJobs -------------------------------
(***************************************************************************)
(* The durable jobs of the native SEC engine, deploy/cloudflare-query/src  *)
(* /sec_engine_jobs.py with the persistence helpers of sec_engine_api.py.  *)
(*                                                                         *)
(* A caller submits a job for a few companies; the Worker records the job  *)
(* and sends one queue message per company.  One consumer at a time takes  *)
(* a message, materializes the company, caches the query and records the   *)
(* task's outcome.  Every object is created only if absent and then read   *)
(* back.  Each await may fail, time out or be cut off with the Worker, and *)
(* a write that was cut off may still take effect later.                   *)
(*                                                                         *)
(* An outcome of a task is "COMPLETE", "QUARANTINED" or, for FAILED, the   *)
(* reason recorded with it.  The bodies of the computed company data and   *)
(* of the cached query are functions of pinned bytes, so only their        *)
(* presence is kept.  Every job asks the same query: the case in which     *)
(* jobs share the most.                                                    *)
(***************************************************************************)
EXTENDS Naturals, FiniteSets

CONSTANTS
  Jobs,            \* job identifiers that uuid4 will produce
  Ciks,            \* companies of the published catalog
  Releases, FirstRelease,
  Credentials, FirstCredential,   \* values of ZION_PRIVATE_API_TOKEN
  Materialized,    \* companies whose data the release already holds
  Unsupported,     \* companies with no supported US-GAAP observation
  MaxDeliveries,   \* 1 + max_retries of the queue binding: 3
  ExhaustedAt,     \* attempts that queue_batch takes for the last: 3
  MaxDeploys,      \* bound: redeployments of the Worker
  MaxLate          \* bound: abandoned writes on their way at one time

ASSUME SecJobsAssumption ==
  /\ FirstRelease \in Releases
  /\ FirstCredential \in Credentials
  /\ Materialized \subseteq Ciks
  /\ Unsupported \subseteq Ciks \ Materialized
  /\ MaxDeliveries \in Nat \ {0}
  /\ ExhaustedAt \in Nat
  /\ MaxDeploys \in Nat
  /\ MaxLate \in Nat
  /\ "none" \notin Jobs

VARIABLES
  worker,          \* the bindings of the deployed Worker
  job,             \* job[j]: the submission of job j
  requests,        \* jobs whose request.json is stored
  part,            \* part[<<s, j, c>>]: the stored outcome of a task
  computed,        \* <<s, r, c>>: computed/<cik>.json exists
  queries,         \* <<s, r, c>>: queries/<query>.json exists
  message,         \* message[<<j, c>>]: the queue message of a task
  run,             \* the invocation of the queue consumer
  late,            \* part writes of abandoned calls, still on their way
  poll,            \* a status request in progress
  answer           \* answer[j]: the status last returned for job j

store == <<requests, part, computed, queries>>
vars == <<worker, job, store, message, run, late, poll, answer>>

-----------------------------------------------------------------------------
None == "none"
Permanent == {"PERMANENT", "SOURCE_CONTEXT", "JOB_CONTEXT", "CONFLICT"}
Transient == {"TIMEOUT", "TRANSIENT"}
Reasons == Permanent \cup Transient
Outcomes == {"COMPLETE", "QUARANTINED"} \cup Reasons

Slots == Credentials \X Jobs \X Ciks
Tasks == Jobs \X Ciks
CacheKeys == Credentials \X Releases \X Ciks
Writes == [slot : Slots, outcome : Outcomes]

Idle == [pc |-> "idle", job |-> None, cik |-> None, release |-> None,
         credential |-> None, what |-> None, failing |-> FALSE]
NoPoll == [job |-> None, todo |-> {}, queued |-> FALSE, failed |-> FALSE]

CallerPhases == {"new", "record", "send", "accepted", "error"}
ConsumerSteps == {"root", "request", "existing", "company", "source",
                  "history", "put", "readback"}

Task == <<run.job, run.cik>>
Slot == <<run.credential, run.job, run.cik>>
CacheKey == <<run.credential, run.release, run.cik>>

\* request.json is keyed by the release and scoped by the credential.
Recorded(j, r, s) ==
  j \in requests /\ job[j].release = r /\ job[j].credential = s

Available(s, r, c) == c \in Materialized \/ <<s, r, c>> \in computed

-----------------------------------------------------------------------------
Init ==
  /\ worker = [release |-> FirstRelease, credential |-> FirstCredential, deploys |-> 0]
  /\ job = [j \in Jobs |-> [phase |-> "new", release |-> FirstRelease,
                            credential |-> FirstCredential, ciks |-> {}]]
  /\ requests = {}
  /\ part = [t \in Slots |-> None]
  /\ computed = {}
  /\ queries = {}
  /\ message = [t \in Tasks |-> [state |-> "none", attempts |-> 0]]
  /\ run = Idle
  /\ late = {}
  /\ poll = NoPoll
  /\ answer = [j \in Jobs |-> "NONE"]

\* An operator deploys the Worker with another manifest or credential.
Deploy(r, s) ==
  /\ worker.deploys < MaxDeploys
  /\ worker' = [release |-> r, credential |-> s, deploys |-> worker.deploys + 1]
  /\ UNCHANGED <<job, store, message, run, late, poll, answer>>

-----------------------------------------------------------------------------
(* submit: the producer *)

\* The checks of submit pass and the job identifier is drawn.
SubmitCheck(j, C) ==
  /\ job[j].phase = "new"
  /\ C # {}
  /\ job' = [job EXCEPT ![j] = [phase |-> "record", release |-> worker.release,
                                credential |-> worker.credential, ciks |-> C]]
  /\ UNCHANGED <<worker, store, message, run, late, poll, answer>>

\* request.json is persisted before any message exists.
SubmitRecord(j) ==
  /\ job[j].phase = "record"
  /\ requests' = requests \cup {j}
  /\ job' = [job EXCEPT ![j].phase = "send"]
  /\ UNCHANGED <<worker, part, computed, queries, message, run, late, poll, answer>>

Enqueue(j) ==
  message' = [t \in Tasks |->
    IF t[1] = j /\ t[2] \in job[j].ciks
    THEN [state |-> "ready", attempts |-> 0] ELSE message[t]]

\* sendBatch is awaited: 202 means that every message was accepted.
SubmitSend(j) ==
  /\ job[j].phase = "send"
  /\ Enqueue(j)
  /\ job' = [job EXCEPT ![j].phase = "accepted"]
  /\ UNCHANGED <<worker, store, run, late, poll, answer>>

\* A call of submit fails or times out; what it asked for may have happened.
SubmitFail(j) ==
  /\ \/ /\ job[j].phase = "record"
        /\ requests' \in {requests, requests \cup {j}}
        /\ UNCHANGED message
     \/ /\ job[j].phase = "send"
        /\ Enqueue(j) \/ UNCHANGED message
        /\ UNCHANGED requests
  /\ job' = [job EXCEPT ![j].phase = "error"]
  /\ UNCHANGED <<worker, part, computed, queries, run, late, poll, answer>>

-----------------------------------------------------------------------------
(* The queue: one message per batch, one consumer, no dead-letter queue *)

\* Mutant of Deliver: the attempts are not counted.
DeliverUncounted(j, c) ==
  /\ run = Idle
  /\ message[<<j, c>>].state = "ready"
  /\ message' = [message EXCEPT ![<<j, c>>].state = "running"]
  /\ run' = [Idle EXCEPT !.pc = "root", !.job = j, !.cik = c,
             !.release = worker.release, !.credential = worker.credential]
  /\ UNCHANGED <<worker, job, store, late, poll, answer>>

Deliver(j, c) ==
  /\ run = Idle
  /\ message[<<j, c>>].state = "ready"
  /\ message' = [message EXCEPT ![<<j, c>>] =
       [state |-> "running", attempts |-> @.attempts + 1]]
  /\ run' = [Idle EXCEPT !.pc = "root", !.job = j, !.cik = c,
             !.release = worker.release, !.credential = worker.credential]
  /\ UNCHANGED <<worker, job, store, late, poll, answer>>

\* A message that was not acknowledged comes back until the platform drops it.
Redeliver ==
  message' = [message EXCEPT ![Task].state =
    IF message[Task].attempts < MaxDeliveries THEN "ready" ELSE "dropped"]

-----------------------------------------------------------------------------
(* consume: the body of a task *)

Step(from, to) ==
  /\ run.pc = from
  /\ run' = [run EXCEPT !.pc = to]

\* An exception leaves consume and reaches the handler of queue_batch.
Raise(reason) == run' = [run EXCEPT !.pc = "handle", !.what = reason]

Persist(what) == run' = [run EXCEPT !.pc = "put", !.what = what]

ReadRoot ==
  /\ run.pc = "root"
  /\ IF run.release = job[run.job].release
     THEN Step("root", "request") ELSE Raise("SOURCE_CONTEXT")
  /\ UNCHANGED <<worker, job, store, message, late, poll, answer>>

ReadRequest ==
  /\ run.pc = "request"
  /\ IF /\ Recorded(run.job, run.release, run.credential)
        /\ run.cik \in job[run.job].ciks
     THEN Step("request", "existing") ELSE Raise("JOB_CONTEXT")
  /\ UNCHANGED <<worker, job, store, message, late, poll, answer>>

ReadExisting ==
  /\ Step("existing", IF part[Slot] = None THEN "company" ELSE "ack")
  /\ UNCHANGED <<worker, job, store, message, late, poll, answer>>

ReadCompany ==
  /\ Step("company", IF Available(run.credential, run.release, run.cik)
                     THEN "history" ELSE "source")
  /\ UNCHANGED <<worker, job, store, message, late, poll, answer>>

\* Mutant of ReadSource: the check for supported observations is dropped.
ReadSourceUnchecked ==
  /\ run.pc = "source"
  /\ Persist("computed")
  /\ UNCHANGED <<worker, job, store, message, late, poll, answer>>

\* source_member and normalize_sources: the pinned archive member is read.
ReadSource ==
  /\ run.pc = "source"
  /\ Persist(IF run.cik \in Unsupported THEN "QUARANTINED" ELSE "computed")
  /\ UNCHANGED <<worker, job, store, message, late, poll, answer>>

\* Mutant of ReadHistory: the outcome is recorded without the cached query.
ReadHistoryUncached ==
  /\ run.pc = "history"
  /\ Persist("COMPLETE")
  /\ UNCHANGED <<worker, job, store, message, late, poll, answer>>

\* financial_history: the cached query is reused, or computed and persisted.
ReadHistory ==
  /\ run.pc = "history"
  /\ Persist(IF CacheKey \in queries THEN "COMPLETE" ELSE "query")
  /\ UNCHANGED <<worker, job, store, message, late, poll, answer>>

\* The outcome o of a task is stored only if it has none.
CreatePart(slot, o) ==
  part' = IF part[slot] = None THEN [part EXCEPT ![slot] = o] ELSE part

\* The put half of persist.
Put ==
  /\ Step("put", "readback")
  /\ \/ /\ run.what = "computed"
        /\ computed' = computed \cup {CacheKey}
        /\ UNCHANGED <<part, queries>>
     \/ /\ run.what = "query"
        /\ queries' = queries \cup {CacheKey}
        /\ UNCHANGED <<part, computed>>
     \/ /\ run.what \in Outcomes
        /\ CreatePart(Slot, run.what)
        /\ UNCHANGED <<computed, queries>>
  /\ UNCHANGED <<worker, job, requests, message, late, poll, answer>>

\* The readback half of persist, and the step of the caller that follows it.
Readback ==
  /\ run.pc = "readback"
  /\ \/ run.what = "computed" /\ Step("readback", "history")
     \/ run.what = "query" /\ Persist("COMPLETE")
     \/ run.what = part[Slot] /\ Step("readback", "ack")
     \/ /\ run.what \in Outcomes \ {part[Slot]}
        /\ ~run.failing
        /\ Raise("CONFLICT")
  /\ UNCHANGED <<worker, job, store, message, late, poll, answer>>

-----------------------------------------------------------------------------
(* queue_batch: acknowledgement, failure, retry *)

\* A put that was cut off is left to the platform: it may land at any time.
LeaveLate ==
  late' = IF run.pc = "put" /\ run.what \in Outcomes /\ Cardinality(late) < MaxLate
          THEN late \cup {[slot |-> Slot, outcome |-> run.what]} ELSE late

\* A call of consume raises, or wait_for cancels it after 120 seconds.
Fails(reason) ==
  /\ run.pc \in ConsumerSteps
  /\ ~run.failing
  /\ Raise(reason)
  /\ LeaveLate
  /\ UNCHANGED <<worker, job, store, message, poll, answer>>

Exhausted == message[Task].attempts >= ExhaustedAt

\* Mutant of HandleFinal: the message is acknowledged without a record.
HandleFinalUnrecorded ==
  /\ run.pc = "handle"
  /\ run.what \in Permanent \/ Exhausted
  /\ run' = [run EXCEPT !.pc = "ack"]
  /\ UNCHANGED <<worker, job, store, message, late, poll, answer>>

\* A permanent or last failure is recorded as the outcome of the task.
HandleFinal ==
  /\ run.pc = "handle"
  /\ run.what \in Permanent \/ Exhausted
  /\ run' = [run EXCEPT !.pc = "put", !.failing = TRUE]
  /\ UNCHANGED <<worker, job, store, message, late, poll, answer>>

HandleRetry ==
  /\ run.pc = "handle"
  /\ run.what \notin Permanent /\ ~Exhausted
  /\ Redeliver
  /\ run' = Idle
  /\ UNCHANGED <<worker, job, store, late, poll, answer>>

Ack ==
  /\ run.pc = "ack"
  /\ message' = [message EXCEPT ![Task].state = "acked"]
  /\ run' = Idle
  /\ UNCHANGED <<worker, job, store, late, poll, answer>>

\* A failure whose record meets another outcome: the conflict leaves queue_batch.
Escape ==
  /\ run.pc = "readback"
  /\ run.failing
  /\ run.what # part[Slot]
  /\ Redeliver
  /\ run' = Idle
  /\ UNCHANGED <<worker, job, store, late, poll, answer>>

\* The invocation ends without an acknowledgement: the Worker is stopped (its CPU
\* limit, a deployment), the acknowledgement is lost, or a call made while a
\* failure is being handled fails too and its exception leaves queue_batch.
Abandon ==
  /\ run.pc # "idle"
  /\ Redeliver
  /\ LeaveLate
  /\ run' = Idle
  /\ UNCHANGED <<worker, job, store, poll, answer>>

\* A write left behind by an abandoned call takes effect.
Land(w) ==
  /\ w \in late
  /\ CreatePart(w.slot, w.outcome)
  /\ late' = late \ {w}
  /\ UNCHANGED <<worker, job, requests, computed, queries, message, run, poll, answer>>

-----------------------------------------------------------------------------
(* The request handlers that share the store with the consumer *)

\* GET financial-history on available data caches the query it computes.
ServeHistory(c) ==
  LET key == <<worker.credential, worker.release, c>> IN
  /\ Available(worker.credential, worker.release, c)
  /\ queries' = queries \cup {key}
  /\ UNCHANGED <<worker, job, requests, part, computed, message, run, late, poll, answer>>

\* GET financial-jobs: the record is read, then the part of each company.
PollStart(j) ==
  /\ poll = NoPoll
  /\ Recorded(j, worker.release, worker.credential)
  /\ poll' = [NoPoll EXCEPT !.job = j, !.todo = job[j].ciks]
  /\ UNCHANGED <<worker, job, store, message, run, late, answer>>

\* Mutant of PollRead: only the last company decides whether the job is queued.
PollReadLast(c) ==
  /\ poll.job # None
  /\ c \in poll.todo
  /\ LET o == part[<<job[poll.job].credential, poll.job, c>>] IN
     poll' = [poll EXCEPT !.todo = @ \ {c}, !.queued = o = None,
                          !.failed = @ \/ o \notin {None, "COMPLETE"}]
  /\ UNCHANGED <<worker, job, store, message, run, late, answer>>

PollRead(c) ==
  /\ poll.job # None
  /\ c \in poll.todo
  /\ LET o == part[<<job[poll.job].credential, poll.job, c>>] IN
     poll' = [poll EXCEPT !.todo = @ \ {c},
                          !.queued = @ \/ o = None,
                          !.failed = @ \/ o \notin {None, "COMPLETE"}]
  /\ UNCHANGED <<worker, job, store, message, run, late, answer>>

PollReply ==
  /\ poll.job # None
  /\ poll.todo = {}
  /\ answer' = [answer EXCEPT ![poll.job] =
       IF poll.queued THEN "QUEUED"
       ELSE IF poll.failed THEN "COMPLETE_WITH_FAILURES" ELSE "COMPLETE"]
  /\ poll' = NoPoll
  /\ UNCHANGED <<worker, job, store, message, run, late>>

-----------------------------------------------------------------------------
Submission(j) ==
  \/ \E C \in SUBSET Ciks : SubmitCheck(j, C)
  \/ SubmitRecord(j)
  \/ SubmitSend(j)
  \/ SubmitFail(j)

Consume ==
  \/ ReadRoot \/ ReadRequest \/ ReadExisting \/ ReadCompany \/ ReadSource
  \/ ReadHistory \/ Put \/ Readback

QueueBatch == Consume \/ HandleFinal \/ HandleRetry \/ Ack \/ Escape

Faults ==
  \/ \E reason \in {"TIMEOUT", "TRANSIENT", "PERMANENT"} : Fails(reason)
  \/ Abandon
  \/ \E w \in late : Land(w)

Requests ==
  \/ \E c \in Ciks : ServeHistory(c)
  \/ \E j \in Jobs : PollStart(j)
  \/ \E c \in Ciks : PollRead(c)
  \/ PollReply

Next ==
  \/ \E r \in Releases, s \in Credentials : Deploy(r, s)
  \/ \E j \in Jobs : Submission(j)
  \/ \E j \in Jobs, c \in Ciks : Deliver(j, c)
  \/ QueueBatch
  \/ Faults
  \/ Requests

Spec == Init /\ [][Next]_vars

\* The platform keeps delivering what is queued and runs what it delivered.
Fairness ==
  /\ WF_vars(QueueBatch)
  /\ \A j \in Jobs, c \in Ciks : WF_vars(Deliver(j, c))

FairSpec == Spec /\ Fairness

-----------------------------------------------------------------------------
(* Properties *)

Attempts == 0..MaxDeliveries

TypeOK ==
  /\ worker \in [release : Releases, credential : Credentials, deploys : 0..MaxDeploys]
  /\ job \in [Jobs -> [phase : CallerPhases, release : Releases,
                       credential : Credentials, ciks : SUBSET Ciks]]
  /\ requests \subseteq Jobs
  /\ part \in [Slots -> Outcomes \cup {None}]
  /\ computed \subseteq CacheKeys
  /\ queries \subseteq CacheKeys
  /\ message \in [Tasks -> [state : {"none", "ready", "running", "acked", "dropped"},
                            attempts : Attempts]]
  /\ \/ run = Idle
     \/ run \in [pc : ConsumerSteps \cup {"handle", "ack"}, job : Jobs, cik : Ciks,
                 release : Releases, credential : Credentials,
                 what : Outcomes \cup {"computed", "query", None}, failing : BOOLEAN]
  /\ late \subseteq Writes
  /\ poll \in [job : Jobs \cup {None}, todo : SUBSET Ciks,
               queued : BOOLEAN, failed : BOOLEAN]
  /\ answer \in [Jobs -> {"NONE", "QUEUED", "COMPLETE", "COMPLETE_WITH_FAILURES"}]

\* A task recorded COMPLETE can be read: its company data and its cached query
\* are stored under the same credential and release.  consume makes three
\* create-only writes in a row, any of which may be cut off and land late.
CompleteIsReadable ==
  \A t \in Slots : part[t] = "COMPLETE" =>
    LET key == <<t[1], job[t[2]].release, t[3]>> IN
    key \in queries /\ Available(key[1], key[2], key[3])

\* The outcome says what the archive member says, whatever was retried: only a
\* company with supported observations is COMPLETE, only one without is
\* QUARANTINED, and a quarantined company never has computed data.
OutcomeFollowsSource ==
  \A t \in Slots :
    /\ part[t] = "COMPLETE" => t[3] \notin Unsupported
    /\ part[t] = "QUARANTINED" =>
         /\ t[3] \in Unsupported
         /\ \A r \in Releases : <<t[1], r, t[3]>> \notin computed

\* An acknowledged message has left a terminal outcome behind, under the
\* credential of the invocation that acknowledged it: queue_batch acknowledges
\* only after the outcome was read back.
AckedIsDecided ==
  \A j \in Jobs, c \in Ciks : message[<<j, c>>].state = "acked" =>
    \E s \in Credentials : part[<<s, j, c>>] # None

\* A message never outruns the record of its job: a task fails for a missing
\* job only when the Worker no longer has the credential of the submission.
RecordPrecedesMessage ==
  \A t \in Slots : part[t] = "JOB_CONTEXT" => t[1] # job[t[2]].credential

\* The outcome of a task is written once: no retry, late write or second job
\* replaces a stored outcome.
OutcomesFinal ==
  [][\A t \in Slots : part[t] # None => part'[t] = part[t]]_vars

Finished == {"COMPLETE", "COMPLETE_WITH_FAILURES"}

\* The status API never takes back that a job is finished, although it reads the
\* parts one by one while the consumer writes them.
AnswersFinal ==
  [][\A j \in Jobs : answer[j] \in Finished => answer'[j] = answer[j]]_vars

Board == INSTANCE TaskBoard WITH
  Success <- "COMPLETE", Undecided <- None, outcome <- part,
  asked <- [j \in Jobs |->
    IF job[j].phase = "new" THEN [credential |-> "none", ciks |-> {}]
    ELSE [credential |-> job[j].credential, ciks |-> job[j].ciks]]

\* The service, with its queue, retries and lost writes, keeps the promise of
\* TaskBoard: outcomes are decided once and a final answer is the truth.
KeepsTheBoard == Board!BoardSpec

\* Every queued message is acknowledged or dropped by the platform in the end:
\* no task is retried for ever.
MessagesSettle ==
  \A j \in Jobs, c \in Ciks :
    message[<<j, c>>].state = "ready" ~> message[<<j, c>>].state \in {"acked", "dropped"}

\* "exhausted queue attempt is durable failure not permanently queued"
\* (tests/unit/test_sec_engine_api.py): when the platform gives a message up,
\* the task has a recorded outcome.  The code does not keep it, and no run checks it:
\* see Escape.
ExhaustedIsDecided ==
  \A j \in Jobs, c \in Ciks : message[<<j, c>>].state = "dropped" =>
    \E s \in Credentials : part[<<s, j, c>>] # None
=============================================================================
