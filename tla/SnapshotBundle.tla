---------------------------- MODULE SnapshotBundle ----------------------------
(***************************************************************************)
(* How the thin Worker answers a request from one set of releases          *)
(* (thin_worker.fetch, snapshot_bundle.py, and the tools of serving_v2).   *)
(*                                                                         *)
(* A release is immutable; what changes is the pointer to it: CURRENT of   *)
(* the serving releases and CURRENT of the daily prices.  A request reads  *)
(* both pointers one after the other, lets the tool load the serving       *)
(* release again, once or several times, compares the release the answer   *)
(* declares with the one it read, and reads both pointers again before it  *)
(* answers.  Operators move a pointer at any time, to a new release or     *)
(* back to an earlier one.                                                 *)
(*                                                                         *)
(* Requests share nothing but the pointers and the pointer cache of        *)
(* CurrentPointer, of which the model keeps what a reader may rely on: a   *)
(* cached pointer named a release that has been CURRENT.                   *)
(***************************************************************************)
EXTENDS Naturals, Sequences

CONSTANTS
  Requests,
  MaxRelease,    \* bound: releases published after the first one, per pointer
  MaxLoads,      \* bound: pieces of an answer that are loaded one by one
  MaxRestores    \* bound: pointers moved back to an earlier release

ASSUME BundleAssumption ==
  /\ MaxRelease \in Nat /\ MaxRestores \in Nat
  /\ MaxLoads \in Nat /\ MaxLoads >= 2

Releases == 0..MaxRelease
Bundles == [serving : Releases, daily : Releases]
Unread == [serving |-> 0, daily |-> 0]

VARIABLES
  current,      \* the releases the two pointers name
  published,    \* the newest release published under each pointer
  restores,     \* pointers moved back so far
  movedBack,    \* observation: requests during which a pointer was moved back
  req           \* the requests

vars == <<current, published, restores, movedBack, req>>

(* What a request asks for.  metrics: serving_v2.query and latest_price,   *)
(* which load the release anew for each piece and declare the first one's; *)
(* compare: the comparison of /v1/query, which declares the last one's;    *)
(* tool: everything from one manifest; screen: one manifest through a      *)
(* pointer cached for five seconds; market: the daily prices.              *)
Routes == {"metrics", "compare", "tool", "screen", "market"}
LoadsOf(route) == IF route \in {"metrics", "compare"} THEN 2..MaxLoads ELSE {1}
Pointer(route) == IF route = "market" THEN "daily" ELSE "serving"

\* serving_release_id of the body (release_id of a market page), and the
\* x-zion-bundle-id header.
Pins == [pinned : {FALSE}, release : {0}] \cup [pinned : {TRUE}, release : Releases]
Expectations ==
  [stated : {FALSE}, bundle : {Unread}] \cup [stated : {TRUE}, bundle : Bundles]

Steps == {"new", "serving", "daily", "pin", "load", "stamp",
          "again_serving", "again_daily", "done"}
Bodies == {"none", "data", "refused", "relabelled"}
Answers == {"none", "data", "refused", "relabelled", "conflict", "unavailable"}

Idle == [pc |-> "new", route |-> "tool", loads |-> 1,
         pin |-> [pinned |-> FALSE, release |-> 0],
         expected |-> [stated |-> FALSE, bundle |-> Unread],
         first |-> Unread, rows |-> << >>, body |-> "none", second |-> Unread,
         answer |-> "none", seen |-> {}]

Init ==
  /\ current = Unread /\ published = Unread
  /\ restores = 0 /\ movedBack = {}
  /\ req = [r \in Requests |-> Idle]

-----------------------------------------------------------------------------
(* The operators.  seen is an observation, not state of the program: the   *)
(* bundles that were current at some moment of the request.                *)
Active(r) == req[r].pc \notin {"new", "done"}

Point(pointer, release) ==
  /\ current' = [current EXCEPT ![pointer] = release]
  /\ req' = [r \in Requests |->
       IF Active(r) THEN [req[r] EXCEPT !.seen = @ \cup {current'}] ELSE req[r]]
  /\ movedBack' = movedBack \cup
       IF release < current[pointer] THEN {r \in Requests : Active(r)} ELSE {}

Promote(pointer) ==
  /\ published[pointer] < MaxRelease
  /\ published' = [published EXCEPT ![pointer] = @ + 1]
  /\ Point(pointer, published[pointer] + 1)
  /\ UNCHANGED restores

Restore(pointer) ==
  /\ restores < MaxRestores
  /\ restores' = restores + 1
  /\ \E release \in 0..published[pointer] :
       release # current[pointer] /\ Point(pointer, release)
  /\ UNCHANGED published

-----------------------------------------------------------------------------
(* The request.  Go leaves the world alone.                                *)
Go(r, request) ==
  /\ req' = [req EXCEPT ![r] = request]
  /\ UNCHANGED <<current, published, restores, movedBack>>

Arrive(r) ==
  /\ req[r].pc = "new"
  /\ \E route \in Routes, pin \in Pins, expected \in Expectations :
       /\ route = "compare" => ~pin.pinned
       /\ \E loads \in LoadsOf(route) :
            Go(r, [req[r] EXCEPT !.pc = "serving", !.route = route, !.loads = loads,
                     !.pin = pin, !.expected = expected, !.seen = {current}])

\* load_snapshot: the serving pointer, never through the cache ...
ReadServing(r) ==
  /\ req[r].pc = "serving"
  /\ Go(r, [req[r] EXCEPT !.pc = "daily", !.first.serving = current.serving])

\* ... then the pointer of the daily prices; then the caller's expectation.
ReadDaily(r) ==
  LET bundle == [serving |-> req[r].first.serving, daily |-> current.daily]
      met == req[r].expected.stated => req[r].expected.bundle = bundle
      next == IF req[r].pin.pinned /\ req[r].route # "market" THEN "pin" ELSE "load"
  IN /\ req[r].pc = "daily"
     /\ Go(r, [req[r] EXCEPT !.first = bundle,
                 !.pc = IF met THEN next ELSE "done",
                 !.answer = IF met THEN @ ELSE "conflict"])

\* Mutant of CheckPin: any release will do.
CheckPinLoosely(r) ==
  /\ req[r].pc = "pin"
  /\ Go(r, [req[r] EXCEPT !.pc = "load"])

\* _tool_v2: a pinned release must be CURRENT.
CheckPin(r) ==
  /\ req[r].pc = "pin"
  /\ Go(r, IF req[r].pin.release = current.serving
           THEN [req[r] EXCEPT !.pc = "load"]
           ELSE [req[r] EXCEPT !.pc = "again_serving", !.body = "refused"])

\* The release a tool gets when it loads one; a market page checks its pin here.
Loadable(route) ==
  IF route = "screen" THEN 0..published.serving ELSE {current[Pointer(route)]}

Load(r) ==
  /\ req[r].pc = "load"
  /\ \E release \in Loadable(req[r].route) :
       LET rows == Append(req[r].rows, release)
       IN IF req[r].route = "market" /\ req[r].pin.pinned /\ release # req[r].pin.release
          THEN Go(r, [req[r] EXCEPT !.pc = "again_serving", !.body = "refused"])
          ELSE Go(r, [req[r] EXCEPT !.rows = rows,
                        !.pc = IF Len(rows) = req[r].loads THEN "stamp" ELSE "load"])

\* A release, an artifact, a metric or an entity that is not there.
Refuse(r) ==
  /\ req[r].pc \in {"pin", "load"}
  /\ Go(r, [req[r] EXCEPT !.pc = "again_serving", !.body = "refused"])

\* stamp: the release the answer declares is the one the request started from.
Declared(r) == IF req[r].route = "compare" THEN req[r].rows[Len(req[r].rows)] ELSE req[r].rows[1]

\* Mutant of Stamp: the declared release is not compared.
StampUnchecked(r) ==
  /\ req[r].pc = "stamp"
  /\ Go(r, [req[r] EXCEPT !.pc = "again_serving", !.body = "data"])

Stamp(r) ==
  /\ req[r].pc = "stamp"
  /\ Go(r, [req[r] EXCEPT !.pc = "again_serving",
              !.body = IF req[r].route = "market" \/ Declared(r) = req[r].first.serving
                       THEN "data" ELSE "relabelled"])

ReadServingAgain(r) ==
  /\ req[r].pc = "again_serving"
  /\ Go(r, [req[r] EXCEPT !.pc = "again_daily", !.second.serving = current.serving])

ReadDailyAgain(r) ==
  LET bundle == [serving |-> req[r].second.serving, daily |-> current.daily]
  IN /\ req[r].pc = "again_daily"
     /\ Go(r, [req[r] EXCEPT !.pc = "done", !.second = bundle,
                 !.answer = IF bundle = req[r].first THEN req[r].body ELSE "conflict"])

\* A pointer cannot be read: 503.
Unavailable(r) ==
  /\ req[r].pc \in {"serving", "daily", "again_serving", "again_daily"}
  /\ Go(r, [req[r] EXCEPT !.pc = "done", !.answer = "unavailable"])

Step(r) ==
  \/ ReadServing(r) \/ ReadDaily(r)
  \/ CheckPin(r) \/ Load(r) \/ Refuse(r) \/ Stamp(r)
  \/ ReadServingAgain(r) \/ ReadDailyAgain(r) \/ Unavailable(r)

AllDone ==
  /\ \A r \in Requests : req[r].pc = "done"
  /\ UNCHANGED vars

Next ==
  \/ \E pointer \in {"serving", "daily"} : Promote(pointer) \/ Restore(pointer)
  \/ \E r \in Requests : Arrive(r) \/ Step(r)
  \/ AllDone

Spec == Init /\ [][Next]_vars

-----------------------------------------------------------------------------
Request ==
  [pc : Steps, route : Routes, loads : 1..MaxLoads, pin : Pins, expected : Expectations,
   first : Bundles, rows : Seq(Releases), body : Bodies, second : Bundles,
   answer : Answers, seen : SUBSET Bundles]

\* The state is well typed, a pointer names a published release, and no
\* request loads more pieces than it was asked for.
TypeOK ==
  /\ published \in Bundles
  /\ current \in [serving : 0..published.serving, daily : 0..published.daily]
  /\ restores \in 0..MaxRestores /\ movedBack \subseteq Requests
  /\ req \in [Requests -> Request]
  /\ \A r \in Requests : Len(req[r].rows) <= req[r].loads

\* The answers with data to requests during which no pointer was moved back.
Answered == {r \in Requests \ movedBack : req[r].answer = "data"}

\* An answer with data names the bundle of one moment of the request: the two
\* pointers are read one after the other, and still the pair the caller is
\* told (bundle_id, source_releases) was current at once.
BundleExisted == \A r \in Answered : req[r].first \in req[r].seen

\* Every piece of an answer comes from the release its bundle names, however
\* often the tool loaded the release on the way, and a request that pins a
\* release is never answered from another one, although the tool loads the
\* release anew after the pin was checked.  The comparison of the two snapshots
\* cannot see a pointer that was moved and moved back.
AnswersAreOfTheirRelease ==
  \A r \in Answered : \A i \in 1..Len(req[r].rows) :
    /\ req[r].rows[i] = req[r].first[Pointer(req[r].route)]
    /\ req[r].pin.pinned => req[r].rows[i] = req[r].pin.release

\* A caller that states no bundle is told of a mismatch only when a pointer
\* moved during the request.  A screen may be: it reads an older pointer.
MismatchMeansChange ==
  \A r \in Requests :
    /\ req[r].answer \in {"conflict", "relabelled"}
    /\ ~req[r].expected.stated
    /\ req[r].route # "screen"
    => \E one, other \in req[r].seen : one # other

=============================================================================
