------------------------------- MODULE MCWorker -------------------------------
(***************************************************************************)
(* What the Worker keeps doing while requests come and go, one of them at  *)
(* a time: the SEC jobs of its queue, and the refresh of the CURRENT       *)
(* pointer in its isolates.  They share no state.                          *)
(***************************************************************************)
EXTENDS SecJobs, CurrentPointer

VARIABLE side

workerVars == <<side, vars, pointerVars>>

Working(A) == side = "jobs" /\ A /\ UNCHANGED <<side, pointerVars>>
Resolving(A) == side = "pointer" /\ A /\ UNCHANGED <<side, vars>>

PointerAtRest == PointerInit /\ currentId = CHOOSE v \in ReleaseIds : TRUE

WorkerInit ==
  \/ side = "jobs" /\ Init /\ PointerAtRest
  \/ side = "pointer" /\ PointerInit /\ Init

WorkerNext == Working(Next) \/ Resolving(PointerNext)

\* The event loop of an isolate runs whatever is ready.
WorkerSpec ==
  /\ WorkerInit /\ [][WorkerNext]_workerVars
  /\ \A r \in Resolvers : WF_workerVars(Resolving(Resolve(r)))
  /\ \A i \in Isolates : WF_workerVars(Resolving(RefreshTask(i)))

BoardInit == side = "jobs" /\ Init /\ PointerAtRest

\* The jobs alone, on a platform that keeps delivering and lets the handler go on.
BoardSpec ==
  /\ BoardInit /\ [][WorkerNext]_workerVars
  /\ WF_workerVars(Working(QueueBatch))
  /\ \A j \in Jobs, c \in Ciks : WF_workerVars(Working(Deliver(j, c)))
===============================================================================
