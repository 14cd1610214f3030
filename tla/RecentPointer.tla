----------------------------- MODULE RecentPointer -----------------------------
(***************************************************************************)
(* What the cache of the CURRENT pointer promises those who resolve it,    *)
(* with no entry, no edge and no refresh in sight.                         *)
(*                                                                         *)
(* The pointer moves at any time, to a new release or back to an old one.  *)
(* A caller asks for the release, and is answered with one that was        *)
(* CURRENT less than Slack before it asked, or not at all.  Callers may be *)
(* answered, or refused, together.                                         *)
(***************************************************************************)
EXTENDS Integers

CONSTANTS
  Callers, ReleaseIds,
  Slack              \* how long ago the release answered may have ceased to be CURRENT

VARIABLES
  now,
  currentId,         \* the release CURRENT names
  lastCurrent,       \* when a release was last CURRENT
  call               \* call[c]: its stage, when it was asked, the release it is answered with

recentVars == <<now, currentId, lastCurrent, call>>

RecentInit ==
  /\ now = 0 /\ currentId \in ReleaseIds
  /\ lastCurrent = [v \in ReleaseIds |-> 0]
  /\ call = [c \in Callers |-> [stage |-> "idle", began |-> 0, release |-> currentId]]

Pass ==
  /\ now' = now + 1
  /\ lastCurrent' = [lastCurrent EXCEPT ![currentId] = now + 1]
  /\ UNCHANGED <<currentId, call>>

Move(v) ==
  /\ currentId' = v
  /\ lastCurrent' = [lastCurrent EXCEPT ![v] = now]
  /\ UNCHANGED <<now, call>>

\* The release v is recent enough for a caller that asked at the time t.
Recent(v, t) == t - lastCurrent[v] < Slack

Calls(C, to) ==
  /\ call' = [c \in Callers |-> IF c \in C THEN to[c] ELSE call[c]]
  /\ UNCHANGED <<now, currentId, lastCurrent>>
AtStage(stage, began, release) == [stage |-> stage, began |-> began, release |-> release]

Ask(c) ==
  /\ call[c].stage = "idle"
  /\ Calls({c}, [d \in {c} |-> AtStage("asked", now, call[d].release)])

\* The callers C find the release they will be answered with ...
Find(C, v) ==
  /\ \A c \in C : call[c].stage = "asked" /\ Recent(v, call[c].began)
  /\ Calls(C, [c \in C |-> AtStage("found", call[c].began, v)])

\* ... are answered with it, or lose it again.
Answer(c) ==
  /\ call[c].stage = "found"
  /\ Calls({c}, [d \in {c} |-> AtStage("idle", 0, call[d].release)])

Lose(c) ==
  /\ call[c].stage = "found"
  /\ Calls({c}, [d \in {c} |-> AtStage("asked", call[d].began, call[d].release)])

\* A caller is answered as soon as it asks.
AnswerAtOnce(c, v) ==
  /\ call[c].stage = "idle" /\ Recent(v, now)
  /\ Calls({c}, [d \in {c} |-> AtStage("idle", 0, v)])

Refuse(C) ==
  /\ \A c \in C : call[c].stage = "asked"
  /\ Calls(C, [c \in C |-> AtStage("idle", 0, call[c].release)])

RecentNext ==
  \/ Pass
  \/ \E v \in ReleaseIds : Move(v)
  \/ \E c \in Callers : Ask(c) \/ Answer(c) \/ Lose(c)
  \/ \E c \in Callers, v \in ReleaseIds : AnswerAtOnce(c, v)
  \/ \E C \in SUBSET Callers : Refuse(C) \/ \E v \in ReleaseIds : Find(C, v)

RecentSpec == RecentInit /\ [][RecentNext]_recentVars
===============================================================================
