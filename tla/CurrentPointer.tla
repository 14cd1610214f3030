---------------------------- MODULE CurrentPointer ----------------------------
(***************************************************************************)
(* The cache of the CURRENT pointer, CurrentPointerCache.resolve in        *)
(* serving_v2.py, with a TTL above zero.  Every isolate keeps an entry and *)
(* at most one refresh in flight, which concurrent resolutions share;      *)
(* behind the isolates there is an edge cache, and behind that the object. *)
(*                                                                         *)
(* Time is a counter.  Whatever a resolution waits for (the edge, the body *)
(* of an edge hit, the object, the write to the edge) takes at most        *)
(* Latency; what is ready runs before time passes.  The pointer moves at   *)
(* any time, to a new release or back to an old one.                       *)
(***************************************************************************)
EXTENDS Integers

CONSTANTS
  Isolates, ResolveSlots,   \* a resolution is a slot of an isolate
  ReleaseIds,
  TTL,               \* hard deadline of an entry
  Latency,           \* bound on every wait
  MaxTime            \* bound

ASSUME PointerAssumption ==
  /\ TTL \in Nat \ {0} /\ Latency \in Nat \ {0} /\ MaxTime \in Nat
  /\ ReleaseIds # {}

Resolvers == Isolates \X ResolveSlots
Isolate(r) == r[1]
Times == 0..MaxTime

VARIABLES
  now,
  currentId,       \* the release CURRENT names
  lastCurrent,   \* observation: when a release was last CURRENT
  entry,         \* _entries, per isolate
  flight,        \* _inflight, per isolate
  edge,          \* the entry of the edge cache
  res            \* the resolutions

pointerVars == <<now, currentId, lastCurrent, entry, flight, edge, res>>
world == <<now, currentId, lastCurrent>>

NoEntry(release) == [held |-> FALSE, release |-> release, at |-> 0]
Entry(release, at) == [held |-> TRUE, release |-> release, at |-> at]
Fresh(e) == e.held /\ now - e.at < TTL

\* pc: what the resolution waits for, since when, and when it began; release:
\* what it answers, or answered last.
IdleResolution(release) == [pc |-> "idle", release |-> release, began |-> 0, since |-> 0, age |-> 0]

PointerInit ==
  /\ now = 0
  /\ currentId \in ReleaseIds
  /\ lastCurrent = [v \in ReleaseIds |-> 0]
  /\ entry = [i \in Isolates |-> NoEntry(currentId)]
  /\ flight = [i \in Isolates |-> [state |-> "none", release |-> currentId]]
  /\ edge = NoEntry(currentId)
  /\ res = [r \in Resolvers |-> IdleResolution(currentId)]

-----------------------------------------------------------------------------
\* Time passes unless a wait is overdue or a resumed resolution has to run.
Waiting == {"match", "text", "put"}

Tick ==
  /\ now < MaxTime
  /\ \A r \in Resolvers :
       /\ res[r].pc \notin {"resumed", "resumed_owner"}
       /\ res[r].pc \in Waiting \cup {"own"} => now - res[r].since < Latency
  /\ now' = now + 1
  /\ lastCurrent' = [lastCurrent EXCEPT ![currentId] = now + 1]
  /\ UNCHANGED <<currentId, entry, flight, edge, res>>

Repoint(v) ==
  /\ v # currentId
  /\ currentId' = v
  /\ lastCurrent' = [lastCurrent EXCEPT ![v] = now]
  /\ UNCHANGED <<now, entry, flight, edge, res>>

-----------------------------------------------------------------------------
Return(r, v) == res' = [res EXCEPT ![r] = IdleResolution(v)]

\* A fresh entry answers at once; otherwise the edge is asked.
Hit(r) ==
  /\ res[r].pc = "idle"
  /\ Fresh(entry[Isolate(r)])
  /\ Return(r, entry[Isolate(r)].release)
  /\ UNCHANGED <<world, entry, flight, edge>>

Expired(r) ==
  /\ res[r].pc = "idle"
  /\ ~Fresh(entry[Isolate(r)])
  /\ res' = [res EXCEPT ![r] = [@ EXCEPT !.pc = "match", !.began = now, !.since = now]]
  /\ UNCHANGED <<world, entry, flight, edge>>

\* The edge has an entry of less than TTL: its body is read next.
EdgeHit(r) ==
  /\ res[r].pc = "match"
  /\ Fresh(edge)
  /\ res' = [res EXCEPT ![r] = [@ EXCEPT !.pc = "text", !.since = now,
                                  !.release = edge.release, !.age = now - edge.at]]
  /\ UNCHANGED <<world, entry, flight, edge>>

\* Mutant of EdgeText: an entry taken over counts as read now.
EdgeTextAfresh(r) ==
  /\ res[r].pc = "text"
  /\ entry' = [entry EXCEPT ![Isolate(r)] = Entry(res[r].release, now)]
  /\ Return(r, res[r].release)
  /\ UNCHANGED <<world, flight, edge>>

\* The entry is taken over with the age it had before its body was read.
EdgeText(r) ==
  /\ res[r].pc = "text"
  /\ entry' = [entry EXCEPT ![Isolate(r)] = Entry(res[r].release, now - res[r].age)]
  /\ Return(r, res[r].release)
  /\ UNCHANGED <<world, flight, edge>>

\* Mutant of Refresh: whoever waited for the edge starts a refresh.
RefreshAlways(r) ==
  /\ res[r].pc \in {"match", "text"}
  /\ flight' = [flight EXCEPT ![Isolate(r)].state = "out"]
  /\ res' = [res EXCEPT ![r] = [@ EXCEPT !.pc = "own", !.since = now]]
  /\ UNCHANGED <<world, entry, edge>>

\* No usable entry, or the edge cache fails: the refresh in flight is awaited,
\* or one is started, before anything else in the isolate runs.
Refresh(r) ==
  /\ res[r].pc \in {"match", "text"}
  /\ LET i == Isolate(r) IN
       \/ /\ flight[i].state # "none"
          /\ res' = [res EXCEPT ![r] = [@ EXCEPT !.pc = "follow"]]
          /\ UNCHANGED flight
       \/ /\ flight[i].state = "none"
          /\ flight' = [flight EXCEPT ![i].state = "out"]
          /\ res' = [res EXCEPT ![r] = [@ EXCEPT !.pc = "own", !.since = now]]
  /\ UNCHANGED <<world, entry, edge>>

\* The object is read ...
ReadCurrent(i) ==
  /\ flight[i].state = "out"
  /\ flight' = [flight EXCEPT ![i] = [state |-> "read", release |-> currentId]]
  /\ UNCHANGED <<world, entry, edge, res>>

\* ... and the task ends: it leaves _inflight and resumes those who await it.
Awaiting(r, i) == Isolate(r) = i /\ res[r].pc \in {"own", "follow"}

\* Mutant of TaskDone: only the owner is resumed.
TaskDoneOwner(i) ==
  /\ flight[i].state = "read"
  /\ flight' = [flight EXCEPT ![i].state = "none"]
  /\ res' = [r \in Resolvers |->
       IF Isolate(r) = i /\ res[r].pc = "own"
       THEN [res[r] EXCEPT !.release = flight[i].release, !.pc = "resumed_owner"]
       ELSE res[r]]
  /\ UNCHANGED <<world, entry, edge>>

TaskDone(i) ==
  /\ flight[i].state = "read"
  /\ flight' = [flight EXCEPT ![i].state = "none"]
  /\ res' = [r \in Resolvers |->
       IF Awaiting(r, i)
       THEN [res[r] EXCEPT !.release = flight[i].release,
               !.pc = IF @ = "own" THEN "resumed_owner" ELSE "resumed"]
       ELSE res[r]]
  /\ UNCHANGED <<world, entry, edge>>

\* The read fails, or the pointer is invalid: everyone who awaits it raises.
TaskFails(i) ==
  /\ flight[i].state \in {"out", "read"}
  /\ flight' = [flight EXCEPT ![i].state = "none"]
  /\ res' = [r \in Resolvers |->
       IF Awaiting(r, i) THEN IdleResolution(res[r].release) ELSE res[r]]
  /\ UNCHANGED <<world, entry, edge>>

Followed(r) ==
  /\ res[r].pc = "resumed"
  /\ Return(r, res[r].release)
  /\ UNCHANGED <<world, entry, flight, edge>>

\* The owner stamps the entry with the present time and writes to the edge.
Owned(r) ==
  /\ res[r].pc = "resumed_owner"
  /\ entry' = [entry EXCEPT ![Isolate(r)] = Entry(res[r].release, now)]
  /\ res' = [res EXCEPT ![r] = [@ EXCEPT !.pc = "put", !.since = now]]
  /\ UNCHANGED <<world, flight, edge>>

\* The write lands, with the stamp it was sent with, or it is lost.
EdgePut(r) ==
  /\ res[r].pc = "put"
  /\ \/ edge' = Entry(res[r].release, res[r].since)
     \/ UNCHANGED edge
  /\ Return(r, res[r].release)
  /\ UNCHANGED <<world, entry, flight>>

Resolve(r) ==
  \/ EdgeHit(r) \/ EdgeText(r) \/ Refresh(r) \/ Followed(r) \/ Owned(r) \/ EdgePut(r)

RefreshTask(i) == ReadCurrent(i) \/ TaskDone(i) \/ TaskFails(i)

PointerNext ==
  \/ Tick
  \/ \E v \in ReleaseIds : Repoint(v)
  \/ \E r \in Resolvers : Hit(r) \/ Expired(r) \/ Resolve(r)
  \/ \E i \in Isolates : RefreshTask(i)

PointerSpec == PointerInit /\ [][PointerNext]_pointerVars

PointerFairSpec ==
  /\ PointerSpec
  /\ \A r \in Resolvers : WF_pointerVars(Resolve(r))
  /\ \A i \in Isolates : WF_pointerVars(RefreshTask(i))

-----------------------------------------------------------------------------
EntryType == [held : BOOLEAN, release : ReleaseIds, at : Times]

\* The state is well typed; an edge entry is taken over only within its TTL,
\* and no wait outlasts its bound.
PointerTypeOK ==
  /\ now \in 0..MaxTime
  /\ currentId \in ReleaseIds
  /\ lastCurrent \in [ReleaseIds -> 0..now]
  /\ entry \in [Isolates -> EntryType]
  /\ edge \in EntryType
  /\ flight \in [Isolates -> [state : {"none", "out", "read"}, release : ReleaseIds]]
  /\ res \in [Resolvers ->
       [pc : {"idle", "follow", "own", "resumed", "resumed_owner"} \cup Waiting,
        release : ReleaseIds, began : 0..MaxTime, since : 0..MaxTime,
        age : 0..(TTL - 1)]]
  /\ \A r \in Resolvers : res[r].pc \in Waiting \cup {"own"} => now - res[r].since <= Latency

\* What the resolution answers if it answers now, and the time it began.
PointerAnswers(r) ==
  CASE res[r].pc = "idle" /\ Fresh(entry[Isolate(r)]) -> {<<entry[Isolate(r)].release, now>>}
    [] res[r].pc \in {"text", "resumed", "resumed_owner", "put"} -> {<<res[r].release, res[r].began>>}
    [] OTHER -> {}

StaleBy(answer) == answer[2] - lastCurrent[answer[1]]

\* A resolution never answers a release that had ceased to be CURRENT longer
\* ago than the TTL and two waits: one because an entry is stamped after the
\* object was read, one because an edge entry is taken over after its body
\* was.  Nothing extends an entry any further, in whatever order isolates
\* refresh, share and overwrite it.  (The docstring of the class promises
\* "per-isolate staleness <= TTL", which two waits exceed.)
StalenessBounded ==
  \A r \in Resolvers : \A answer \in PointerAnswers(r) : StaleBy(answer) < TTL + 2 * Latency

\* What a caller of resolve sees of its resolution.
StageOf(pc) ==
  CASE pc = "idle" -> "idle"
    [] pc \in {"match", "follow", "own"} -> "asked"
    [] OTHER -> "found"
CallOf(r) == [stage |-> StageOf(res[r].pc), began |-> res[r].began, release |-> res[r].release]

Promised == INSTANCE RecentPointer WITH
  Callers <- Resolvers,
  Slack <- TTL + 2 * Latency,
  call <- [r \in Resolvers |-> CallOf(r)]

\* The cache implements RecentPointer: whatever isolates keep, share, take over and overwrite, and
\* in whatever order, a caller is answered with a release that was CURRENT less than the TTL and
\* two waits before it asked (StalenessBounded says so of what it is about to be told), or refused.
KeepsPointerRecent == Promised!RecentSpec

\* "A single in-flight refresh per isolate": no two resolutions of an isolate
\* read the object at the same time, though each looks for a refresh only
\* after it waited for the edge.
SingleFlight ==
  \A q, r \in Resolvers :
    Isolate(q) = Isolate(r) /\ res[q].pc = "own" /\ res[r].pc = "own" => q = r

\* Every resolution ends: nobody awaits a refresh that has ended already.
ResolveEnds == \A r \in Resolvers : res[r].pc # "idle" ~> res[r].pc = "idle"
=============================================================================
