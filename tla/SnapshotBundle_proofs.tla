------------------------ MODULE SnapshotBundle_proofs ------------------------
(***************************************************************************)
(* What a request is told, for any number of requests, releases and loads. *)
(*                                                                         *)
(* A request is judged from its own record and the pointers, so that the   *)
(* invariants are predicates of one record, and a step of another request  *)
(* cannot disturb them.  Sighted needs nothing of the operators: whatever  *)
(* a request read was current while it ran.  Ordered is about pointers     *)
(* that only move forward: whatever a request read lies between its first  *)
(* reading of the pointer and the last, and is pinned down when they agree.*)
(***************************************************************************)
EXTENDS SnapshotBundle, SequenceTheorems, TLAPS

-----------------------------------------------------------------------------
(* Type correctness                                                        *)

\* The world is typed on its own; a request record is an element of Request.
WorldOK ==
  /\ published \in Bundles
  /\ current \in [serving : 0..published.serving, daily : 0..published.daily]
  /\ restores \in 0..MaxRestores /\ movedBack \subseteq Requests

RequestOK(x) == x \in Request /\ Len(x.rows) <= x.loads

LEMMA TypeParts == TypeOK <=> WorldOK /\ req \in [Requests -> Request]
                                /\ \A r \in Requests : RequestOK(req[r])
  BY DEF TypeOK, WorldOK, RequestOK

\* The pointers name releases, so a bundle read at once is a bundle.
LEMMA WorldBundles ==
  ASSUME WorldOK
  PROVE  /\ current \in Bundles
         /\ \A route \in Routes : Loadable(route) \subseteq Releases
  BY BundleAssumption DEF WorldOK, Bundles, Releases, Loadable, Routes, Pointer

LEMMA IdleOK == RequestOK(Idle)
<1>1. /\ Unread \in Bundles /\ << >> \in Seq(Releases) /\ 1 \in 1..MaxLoads
      /\ [pinned |-> FALSE, release |-> 0] \in Pins
      /\ [stated |-> FALSE, bundle |-> Unread] \in Expectations
  BY BundleAssumption DEF Unread, Bundles, Releases, Pins, Expectations
<1>2. Idle \in Request
  BY <1>1 DEF Idle, Request, Steps, Routes, Bodies, Answers
<1> QED
  BY <1>2 DEF RequestOK, Idle

-----------------------------------------------------------------------------
(* Sighted: what a request read was current while it ran.                  *)
Running == Steps \ {"new", "done"}
Loading == {"load", "stamp"}
Closing == {"again_serving", "again_daily"}

Moved(x) == \E one, other \in x.seen : one # other
SawServing(x, release) == \E bundle \in x.seen : bundle.serving = release
SawDaily(x, release) == \E bundle \in x.seen : bundle.daily = release
SawRow(x, release) ==
  IF x.route = "market" THEN SawDaily(x, release) ELSE SawServing(x, release)

\* How far the request has come.
Stages(x) ==
  /\ x.pc # "done" => x.answer = "none"
  /\ x.pc \notin Closing \cup {"done"} => x.body = "none"
  /\ x.pc \in {"new", "serving", "daily", "pin"} => x.rows = << >>
  /\ x.pc = "stamp" \/ x.body \in {"data", "relabelled"} => Len(x.rows) = x.loads
  /\ x.pc = "load" => Len(x.rows) < x.loads
  /\ x.loads \in LoadsOf(x.route)

Sighted(x, c) ==
  /\ x.pc \in Running => c \in x.seen
  /\ x.pc \in Running \ {"serving"} => SawServing(x, x.first.serving)
  /\ x.pc \in Running \ {"serving", "daily"} => SawDaily(x, x.first.daily)
  /\ x.pc \in Loading /\ x.route # "screen" =>
       \A i \in 1..Len(x.rows) : SawRow(x, x.rows[i])
  /\ x.body = "relabelled" /\ x.route # "screen" => Moved(x)
  /\ x.pc = "again_daily" => SawServing(x, x.second.serving)
  /\ x.answer \in {"conflict", "relabelled"} /\ ~x.expected.stated /\ x.route # "screen"
       => Moved(x)

-----------------------------------------------------------------------------
(* Ordered: what a request read lies between its two readings.             *)
Upper(x, c) == IF x.pc = "again_daily" THEN x.second.serving ELSE c.serving
Between(x, c, release) == x.first.serving <= release /\ release <= Upper(x, c)

RowBetween(x, c, release) ==
  /\ x.route = "market" => x.first.daily <= release /\ release <= c.daily
  /\ x.route \notin {"market", "screen"} => Between(x, c, release)

PinBetween(x, c) ==
  IF x.route = "market"
  THEN \A i \in 1..Len(x.rows) : x.rows[i] = x.pin.release
  ELSE Between(x, c, x.pin.release)

Truthful(x) ==
  /\ x.first \in x.seen
  /\ \A i \in 1..Len(x.rows) :
       /\ x.rows[i] = x.first[Pointer(x.route)]
       /\ x.pin.pinned => x.rows[i] = x.pin.release

DeclaredBy(x) == IF x.route = "compare" THEN x.rows[Len(x.rows)] ELSE x.rows[1]

Ordered(x, c) ==
  /\ x.pc \in Running \ {"serving"} => Between(x, c, x.first.serving)
  /\ x.pc \in Running \ {"serving", "daily"} =>
       /\ x.first.daily <= c.daily
       /\ \E release \in Releases :
            /\ Between(x, c, release)
            /\ [serving |-> release, daily |-> x.first.daily] \in x.seen
  /\ x.pc \in Loading \cup Closing /\ x.body # "refused" =>
       /\ \A i \in 1..Len(x.rows) : RowBetween(x, c, x.rows[i])
       /\ x.pin.pinned => PinBetween(x, c)
  /\ x.body = "data" /\ x.route # "market" => DeclaredBy(x) = x.first.serving
  /\ x.pc = "again_daily" => x.second.serving <= c.serving
  /\ x.answer = "data" => Truthful(x)

-----------------------------------------------------------------------------
(* Every step of a request replaces its record, and leaves the world alone.*)
Judged(x, c) == RequestOK(x) /\ Stages(x) /\ Sighted(x, c)

LEMMA ArriveJudged ==
  ASSUME WorldOK, NEW x, Judged(x, current), x.pc = "new",
         NEW route \in Routes, NEW pin \in Pins, NEW expected \in Expectations,
         NEW loads \in LoadsOf(route)
  PROVE  Judged([x EXCEPT !.pc = "serving", !.route = route, !.loads = loads,
                   !.pin = pin, !.expected = expected, !.seen = {current}], current)
<1> DEFINE y == [x EXCEPT !.pc = "serving", !.route = route, !.loads = loads,
                   !.pin = pin, !.expected = expected, !.seen = {current}]
<1>1. x \in Request /\ x.rows = << >> /\ x.answer = "none" /\ x.body = "none"
  BY DEF Judged, RequestOK, Stages, Closing
<1>2. loads \in 1..MaxLoads
  BY BundleAssumption DEF LoadsOf
<1>3. y \in Request
  BY <1>1, <1>2, WorldBundles DEF Request, Steps
<1>4. /\ y.pc = "serving" /\ y.rows = << >> /\ y.answer = "none" /\ y.body = "none"
      /\ y.loads = loads /\ y.route = route /\ y.seen = {current}
  BY <1>1 DEF Request
<1> HIDE DEF y
<1>5. RequestOK(y)
  BY <1>2, <1>3, <1>4 DEF RequestOK
<1>6. Stages(y)
  BY <1>4 DEF Stages, Closing
<1>7. Sighted(y, current)
  BY <1>4 DEF Sighted, Running, Loading
<1> QED
  BY <1>5, <1>6, <1>7 DEF Judged, y

\* The fields of the record of a request, cited by the steps below.
LEMMA Fields ==
  ASSUME NEW x, Judged(x, current)
  PROVE  /\ x \in Request /\ x.rows \in Seq(Releases) /\ x.loads \in 1..MaxLoads
         /\ x.first \in Bundles /\ x.second \in Bundles /\ x.seen \in SUBSET Bundles
         /\ x.pin \in Pins /\ x.expected \in Expectations /\ x.route \in Routes
         /\ Len(x.rows) <= x.loads /\ Len(x.rows) \in Nat
<1>1. x \in Request /\ Len(x.rows) <= x.loads
  BY DEF Judged, RequestOK
<1>2. x.rows \in Seq(Releases)
  BY <1>1 DEF Request
<1>3. Len(x.rows) \in Nat
  BY <1>2, LenProperties
<1> QED
  BY <1>1, <1>2, <1>3 DEF Request

LEMMA ReadServingJudged ==
  ASSUME WorldOK, NEW x, Judged(x, current), x.pc = "serving"
  PROVE  Judged([x EXCEPT !.pc = "daily", !.first.serving = current.serving], current)
<1> DEFINE y == [x EXCEPT !.pc = "daily", !.first.serving = current.serving]
<1>1. x \in Request /\ x.first \in Bundles /\ current \in Bundles
  BY Fields, WorldBundles
<1>2. [x.first EXCEPT !.serving = current.serving] \in Bundles
  BY <1>1 DEF Bundles
<1>3. y \in Request
  BY <1>1, <1>2 DEF Request, Steps
<1>4. /\ y.pc = "daily" /\ y.first.serving = current.serving /\ y.rows = x.rows
      /\ y.loads = x.loads /\ y.route = x.route /\ y.seen = x.seen /\ y.body = x.body
      /\ y.answer = x.answer /\ y.second = x.second /\ y.expected = x.expected
  BY <1>1 DEF Request, Bundles
<1> HIDE DEF y
<1>5. RequestOK(y)
  BY <1>3, <1>4, Fields DEF RequestOK
<1>6. Stages(y)
  BY <1>4 DEF Judged, Stages, Closing
<1>7. current \in y.seen
  BY <1>4 DEF Judged, Sighted, Running, Steps
<1>8. Sighted(y, current)
  BY <1>4, <1>6, <1>7 DEF Sighted, Stages, Running, Loading, Closing, SawServing
<1> QED
  BY <1>5, <1>6, <1>8 DEF Judged, y

LEMMA ReadDailyJudged ==
  ASSUME WorldOK, NEW x, Judged(x, current), x.pc = "daily",
         NEW met \in BOOLEAN, NEW next \in {"pin", "load"},
         ~met => x.expected.stated
  PROVE  Judged([x EXCEPT !.first = [serving |-> x.first.serving, daily |-> current.daily],
                   !.pc = IF met THEN next ELSE "done",
                   !.answer = IF met THEN @ ELSE "conflict"], current)
<1> DEFINE y == [x EXCEPT !.first = [serving |-> x.first.serving, daily |-> current.daily],
                   !.pc = IF met THEN next ELSE "done",
                   !.answer = IF met THEN @ ELSE "conflict"]
<1>1. x \in Request /\ x.first \in Bundles /\ current \in Bundles
  BY Fields, WorldBundles
<1>2. [serving |-> x.first.serving, daily |-> current.daily] \in Bundles
  BY <1>1 DEF Bundles
<1>3. y \in Request
  BY <1>1, <1>2 DEF Request, Steps, Answers
<1>4. /\ y.pc = IF met THEN next ELSE "done"
      /\ y.first = [serving |-> x.first.serving, daily |-> current.daily]
      /\ y.rows = x.rows /\ y.loads = x.loads /\ y.route = x.route /\ y.seen = x.seen
      /\ y.body = x.body /\ y.answer = (IF met THEN x.answer ELSE "conflict")
      /\ y.expected = x.expected
  BY <1>1 DEF Request
<1> HIDE DEF y
<1>5. RequestOK(y)
  BY <1>3, <1>4, Fields DEF RequestOK
<1>6. /\ x.answer = "none" /\ x.body = "none" /\ x.rows = << >>
      /\ x.loads \in LoadsOf(x.route)
      /\ current \in x.seen /\ SawServing(x, x.first.serving)
  BY DEF Judged, Stages, Sighted, Running, Steps, Closing
<1>7. Stages(y)
  <2>1. Len(x.rows) < x.loads
    BY <1>6, Fields
  <2> QED
    BY <1>4, <1>6, <2>1 DEF Stages, Closing
<1>8. SawServing(y, y.first.serving) /\ SawDaily(y, y.first.daily)
  BY <1>4, <1>6 DEF SawServing, SawDaily
<1>9. Sighted(y, current)
  BY <1>4, <1>6, <1>8 DEF Sighted, Running, Loading, Steps
<1> QED
  BY <1>5, <1>7, <1>9 DEF Judged, y

LEMMA CheckPinJudged ==
  ASSUME WorldOK, NEW x, Judged(x, current), x.pc = "pin"
  PROVE  Judged([x EXCEPT !.pc = "load"], current)
<1> DEFINE y == [x EXCEPT !.pc = "load"]
<1>1. x \in Request
  BY Fields
<1>3. y \in Request
  BY <1>1 DEF Request, Steps
<1>4. /\ y.pc = "load" /\ y.first = x.first /\ y.rows = x.rows /\ y.loads = x.loads
      /\ y.route = x.route /\ y.seen = x.seen /\ y.body = x.body /\ y.answer = x.answer
  BY <1>1 DEF Request
<1> HIDE DEF y
<1>5. RequestOK(y)
  BY <1>3, <1>4, Fields DEF RequestOK
<1>6. Stages(y)
  <2>1. x.rows = << >> /\ Len(x.rows) < x.loads
    BY Fields DEF Judged, Stages
  <2> QED
    BY <1>4, <2>1 DEF Judged, Stages, Closing
<1>7. Sighted(y, current)
  BY <1>4, <1>6 DEF Judged, Stages, Sighted, Running, Loading, Steps, Closing,
                    SawServing, SawDaily
<1> QED
  BY <1>5, <1>6, <1>7 DEF Judged, y

LEMMA RefuseJudged ==
  ASSUME WorldOK, NEW x, Judged(x, current), x.pc \in {"pin", "load"}
  PROVE  Judged([x EXCEPT !.pc = "again_serving", !.body = "refused"], current)
<1> DEFINE y == [x EXCEPT !.pc = "again_serving", !.body = "refused"]
<1>1. x \in Request
  BY Fields
<1>3. y \in Request
  BY <1>1 DEF Request, Steps, Bodies
<1>4. /\ y.pc = "again_serving" /\ y.first = x.first /\ y.rows = x.rows /\ y.loads = x.loads
      /\ y.route = x.route /\ y.seen = x.seen /\ y.body = "refused" /\ y.answer = x.answer
  BY <1>1 DEF Request
<1> HIDE DEF y
<1>5. RequestOK(y)
  BY <1>3, <1>4, Fields DEF RequestOK
<1>6. x.answer = "none" /\ x.loads \in LoadsOf(x.route)
  BY DEF Judged, Stages
<1>7. Stages(y)
  BY <1>4, <1>6 DEF Stages, Closing
<1>8. Sighted(y, current)
  BY <1>4, <1>6 DEF Judged, Sighted, Running, Loading, Steps, SawServing, SawDaily
<1> QED
  BY <1>5, <1>7, <1>8 DEF Judged, y

LEMMA LoadJudged ==
  ASSUME WorldOK, NEW x, Judged(x, current), x.pc = "load",
         NEW release \in Loadable(x.route)
  PROVE  Judged([x EXCEPT !.rows = Append(x.rows, release),
                   !.pc = IF Len(Append(x.rows, release)) = x.loads THEN "stamp" ELSE "load"],
                current)
<1> DEFINE rows == Append(x.rows, release)
           y == [x EXCEPT !.rows = rows, !.pc = IF Len(rows) = x.loads THEN "stamp" ELSE "load"]
<1>1. x \in Request /\ x.rows \in Seq(Releases) /\ release \in Releases
  BY Fields, WorldBundles
<1>2. /\ rows \in Seq(Releases) /\ Len(rows) = Len(x.rows) + 1
      /\ \A i \in 1..Len(rows) : rows[i] = IF i = Len(rows) THEN release ELSE x.rows[i]
      /\ \A i \in 1..Len(rows) : i # Len(rows) => i \in 1..Len(x.rows)
  BY <1>1
<1> HIDE DEF rows
<1>3. y \in Request
  BY <1>1, <1>2 DEF Request, Steps
<1>4. /\ y.pc = IF Len(rows) = x.loads THEN "stamp" ELSE "load"
      /\ y.first = x.first /\ y.rows = rows /\ y.loads = x.loads
      /\ y.route = x.route /\ y.seen = x.seen /\ y.body = x.body /\ y.answer = x.answer
      /\ y.expected = x.expected
  BY <1>1 DEF Request
<1> HIDE DEF y
<1>5. RequestOK(y)
  <2>1. Len(x.rows) < x.loads
    BY DEF Judged, Stages
  <2>2. Len(rows) <= x.loads
    BY <1>2, <2>1, Fields
  <2> QED
    BY <1>3, <1>4, <2>2 DEF RequestOK
<1>6. x.answer = "none" /\ x.body = "none" /\ x.loads \in LoadsOf(x.route)
  BY DEF Judged, Stages, Closing
<1>7. Stages(y)
  <2>1. Len(rows) <= x.loads /\ Len(rows) \in Nat /\ x.loads \in Nat
    BY <1>4, <1>5, <1>2, Fields DEF RequestOK
  <2> QED
    BY <1>4, <1>6, <2>1 DEF Stages, Closing
<1>8. /\ current \in x.seen /\ SawServing(x, x.first.serving) /\ SawDaily(x, x.first.daily)
      /\ x.route # "screen" => \A i \in 1..Len(x.rows) : SawRow(x, x.rows[i])
  BY DEF Judged, Sighted, Running, Loading, Steps
<1>9. ASSUME x.route # "screen" PROVE SawRow(x, release)
  BY <1>8, <1>9 DEF Loadable, Pointer, SawRow, SawServing, SawDaily
<1>10. ASSUME x.route # "screen", NEW i \in 1..Len(rows) PROVE SawRow(y, rows[i])
  BY <1>2, <1>4, <1>8, <1>9, <1>10 DEF SawRow, SawServing, SawDaily
<1>11. SawServing(y, y.first.serving) /\ SawDaily(y, y.first.daily)
  BY <1>4, <1>8 DEF SawServing, SawDaily
<1>12. Sighted(y, current)
  BY <1>4, <1>6, <1>8, <1>10, <1>11 DEF Sighted, Running, Loading, Steps
<1> QED
  BY <1>5, <1>7, <1>12 DEF Judged, y, rows

\* A piece that is declared was loaded.
LEMMA DeclaredRow ==
  ASSUME NEW x, Judged(x, current), Len(x.rows) = x.loads
  PROVE  \E i \in 1..Len(x.rows) : DeclaredBy(x) = x.rows[i]
<1>1. Len(x.rows) >= 1 /\ Len(x.rows) \in Nat
  BY Fields, BundleAssumption
<1>2. 1 \in 1..Len(x.rows) /\ Len(x.rows) \in 1..Len(x.rows)
  BY <1>1
<1> QED
  BY <1>2 DEF DeclaredBy

LEMMA StampJudged ==
  ASSUME WorldOK, NEW x, Judged(x, current), x.pc = "stamp"
  PROVE  Judged([x EXCEPT !.pc = "again_serving",
                   !.body = IF x.route = "market" \/ DeclaredBy(x) = x.first.serving
                            THEN "data" ELSE "relabelled"], current)
<1> DEFINE y == [x EXCEPT !.pc = "again_serving",
                   !.body = IF x.route = "market" \/ DeclaredBy(x) = x.first.serving
                            THEN "data" ELSE "relabelled"]
<1>1. x \in Request
  BY Fields
<1>2. y \in Request
  BY <1>1 DEF Request, Steps, Bodies
<1>3. /\ y.pc = "again_serving" /\ y.first = x.first /\ y.rows = x.rows /\ y.loads = x.loads
      /\ y.route = x.route /\ y.seen = x.seen /\ y.answer = x.answer
      /\ y.expected = x.expected
      /\ y.body = IF x.route = "market" \/ DeclaredBy(x) = x.first.serving
                  THEN "data" ELSE "relabelled"
  BY <1>1 DEF Request
<1> HIDE DEF y
<1>4. RequestOK(y)
  BY <1>2, <1>3, Fields DEF RequestOK
<1>5. x.answer = "none" /\ x.loads \in LoadsOf(x.route) /\ Len(x.rows) = x.loads
  BY DEF Judged, Stages
<1>6. Stages(y)
  BY <1>3, <1>5 DEF Stages, Closing
<1>7. /\ current \in x.seen /\ SawServing(x, x.first.serving) /\ SawDaily(x, x.first.daily)
      /\ x.route # "screen" => \A i \in 1..Len(x.rows) : SawRow(x, x.rows[i])
  BY DEF Judged, Sighted, Running, Loading, Steps
<1>8. ASSUME y.body = "relabelled", x.route # "screen" PROVE Moved(y)
  <2>1. x.route # "market" /\ DeclaredBy(x) # x.first.serving
    BY <1>3, <1>8
  <2>2. PICK i \in 1..Len(x.rows) : DeclaredBy(x) = x.rows[i]
    BY <1>5, DeclaredRow
  <2>3. SawServing(x, DeclaredBy(x))
    BY <1>7, <1>8, <2>1, <2>2 DEF SawRow
  <2> QED
    BY <1>3, <1>7, <2>1, <2>3 DEF SawServing, Moved
<1>9. Sighted(y, current)
  BY <1>3, <1>5, <1>7, <1>8 DEF Sighted, Running, Loading, Steps, SawServing, SawDaily
<1> QED
  BY <1>4, <1>6, <1>9 DEF Judged, y

LEMMA ReadServingAgainJudged ==
  ASSUME WorldOK, NEW x, Judged(x, current), x.pc = "again_serving"
  PROVE  Judged([x EXCEPT !.pc = "again_daily", !.second.serving = current.serving], current)
<1> DEFINE y == [x EXCEPT !.pc = "again_daily", !.second.serving = current.serving]
<1>1. x \in Request /\ x.second \in Bundles /\ current \in Bundles
  BY Fields, WorldBundles
<1>2. [x.second EXCEPT !.serving = current.serving] \in Bundles
  BY <1>1 DEF Bundles
<1>3. y \in Request
  BY <1>1, <1>2 DEF Request, Steps
<1>4. /\ y.pc = "again_daily" /\ y.second.serving = current.serving /\ y.first = x.first
      /\ y.rows = x.rows /\ y.loads = x.loads /\ y.route = x.route /\ y.seen = x.seen
      /\ y.body = x.body /\ y.answer = x.answer /\ y.expected = x.expected
  BY <1>1 DEF Request, Bundles
<1> HIDE DEF y
<1>5. RequestOK(y)
  BY <1>3, <1>4, Fields DEF RequestOK
<1>6. Stages(y)
  BY <1>4 DEF Judged, Stages, Closing
<1>7. current \in x.seen /\ SawServing(x, x.first.serving) /\ SawDaily(x, x.first.daily)
  BY DEF Judged, Sighted, Running, Steps
<1>8. /\ SawServing(y, y.first.serving) /\ SawDaily(y, y.first.daily)
      /\ SawServing(y, y.second.serving)
  BY <1>4, <1>7 DEF SawServing, SawDaily
<1>9. y.body = "relabelled" /\ y.route # "screen" => Moved(y)
  BY <1>4 DEF Judged, Sighted, Moved
<1>10. y.answer = "none"
  BY <1>4 DEF Judged, Stages
<1>11. Sighted(y, current)
  BY <1>4, <1>7, <1>8, <1>9, <1>10 DEF Sighted, Loading
<1> QED
  BY <1>5, <1>6, <1>11 DEF Judged, y

LEMMA ReadDailyAgainJudged ==
  ASSUME WorldOK, NEW x, Judged(x, current), x.pc = "again_daily",
         NEW bundle, bundle = [serving |-> x.second.serving, daily |-> current.daily]
  PROVE  Judged([x EXCEPT !.pc = "done", !.second = bundle,
                   !.answer = IF bundle = x.first THEN x.body ELSE "conflict"], current)
<1> DEFINE y == [x EXCEPT !.pc = "done", !.second = bundle,
                   !.answer = IF bundle = x.first THEN x.body ELSE "conflict"]
<1>1. x \in Request /\ x.second \in Bundles /\ x.first \in Bundles /\ current \in Bundles
  BY Fields, WorldBundles
<1>2. bundle \in Bundles
  BY <1>1 DEF Bundles
<1>3. y \in Request
  BY <1>1, <1>2 DEF Request, Steps, Bodies, Answers
<1>4. /\ y.pc = "done" /\ y.second = bundle /\ y.first = x.first
      /\ y.rows = x.rows /\ y.loads = x.loads /\ y.route = x.route /\ y.seen = x.seen
      /\ y.body = x.body /\ y.expected = x.expected
      /\ y.answer = IF bundle = x.first THEN x.body ELSE "conflict"
  BY <1>1 DEF Request
<1> HIDE DEF y
<1>5. RequestOK(y)
  BY <1>3, <1>4, Fields DEF RequestOK
<1>6. Stages(y)
  BY <1>4 DEF Judged, Stages, Closing
<1>7. /\ current \in x.seen /\ SawServing(x, x.first.serving) /\ SawDaily(x, x.first.daily)
      /\ SawServing(x, x.second.serving)
      /\ x.body = "relabelled" /\ x.route # "screen" => Moved(x)
  BY DEF Judged, Sighted, Running, Steps
<1>8. ASSUME bundle # x.first PROVE Moved(x)
  <2>1. x.first.serving # x.second.serving \/ x.first.daily # current.daily
    BY <1>1, <1>8 DEF Bundles
  <2> QED
    BY <1>7, <2>1 DEF SawServing, SawDaily, Moved
<1>9. ASSUME y.answer \in {"conflict", "relabelled"}, x.route # "screen" PROVE Moved(y)
  <2>1. x.body # "conflict"
    BY <1>1 DEF Request, Bodies
  <2> QED
    BY <1>4, <1>7, <1>8, <1>9, <2>1 DEF Moved
<1>10. y.body = "relabelled" /\ y.route # "screen" => Moved(y)
  BY <1>4, <1>7 DEF Moved
<1>11. Sighted(y, current)
  BY <1>4, <1>9, <1>10 DEF Sighted, Running, Loading
<1> QED
  BY <1>5, <1>6, <1>11 DEF Judged, y

LEMMA UnavailableJudged ==
  ASSUME WorldOK, NEW x, Judged(x, current),
         x.pc \in {"serving", "daily", "again_serving", "again_daily"}
  PROVE  Judged([x EXCEPT !.pc = "done", !.answer = "unavailable"], current)
<1> DEFINE y == [x EXCEPT !.pc = "done", !.answer = "unavailable"]
<1>1. x \in Request
  BY Fields
<1>2. y \in Request
  BY <1>1 DEF Request, Steps, Answers
<1>3. /\ y.pc = "done" /\ y.answer = "unavailable" /\ y.rows = x.rows /\ y.loads = x.loads
      /\ y.route = x.route /\ y.seen = x.seen /\ y.body = x.body
  BY <1>1 DEF Request
<1> HIDE DEF y
<1>4. RequestOK(y)
  BY <1>2, <1>3, Fields DEF RequestOK
<1>5. Stages(y)
  BY <1>3 DEF Judged, Stages, Closing
<1>6. Sighted(y, current)
  BY <1>3 DEF Judged, Sighted, Running, Loading, Moved
<1> QED
  BY <1>4, <1>5, <1>6 DEF Judged, y

\* An operator moves a pointer: the requests that run see it.
LEMMA PointJudged ==
  ASSUME WorldOK, NEW x, Judged(x, current), NEW moved \in Bundles
  PROVE  /\ Judged([x EXCEPT !.seen = @ \cup {moved}], moved)
         /\ x.pc \in {"new", "done"} => Judged(x, moved)
<1> DEFINE y == [x EXCEPT !.seen = @ \cup {moved}]
<1>1. x \in Request /\ x.seen \in SUBSET Bundles
  BY Fields
<1>2. y \in Request
  BY <1>1 DEF Request
<1>3. /\ y.pc = x.pc /\ y.answer = x.answer /\ y.rows = x.rows /\ y.loads = x.loads
      /\ y.route = x.route /\ y.seen = x.seen \cup {moved} /\ y.body = x.body
      /\ y.first = x.first /\ y.second = x.second /\ y.expected = x.expected
  BY <1>1 DEF Request
<1> HIDE DEF y
<1>4. RequestOK(y)
  BY <1>2, <1>3, Fields DEF RequestOK
<1>5. Stages(y)
  BY <1>3 DEF Judged, Stages, Closing
<1>6. /\ \A release : SawServing(x, release) => SawServing(y, release)
      /\ \A release : SawDaily(x, release) => SawDaily(y, release)
      /\ Moved(x) => Moved(y)
  BY <1>3 DEF SawServing, SawDaily, Moved
<1>7. \A release : SawRow(x, release) => SawRow(y, release)
  BY <1>3, <1>6 DEF SawRow
<1>8. Sighted(y, moved)
  BY <1>3, <1>6, <1>7 DEF Judged, Sighted, Running, Loading
<1>9. x.pc \in {"new", "done"} => Sighted(x, moved)
  BY DEF Judged, Sighted, Running, Loading
<1> QED
  BY <1>4, <1>5, <1>8, <1>9 DEF Judged, y

-----------------------------------------------------------------------------
(* The first invariant, and what follows from it.                          *)
SightedInv == /\ WorldOK
              /\ req = [r \in Requests |-> req[r]]
              /\ \A r \in Requests : Judged(req[r], current)

\* Every step of a request replaces its record by a judged one.
StepTo(r, y) ==
  /\ req' = [req EXCEPT ![r] = y]
  /\ UNCHANGED <<current, published, restores, movedBack>>

LEMMA RequestStep ==
  ASSUME SightedInv, NEW r \in Requests, Arrive(r) \/ Step(r)
  PROVE  \E y : StepTo(r, y) /\ Judged(y, current)
<1>0. WorldOK /\ Judged(req[r], current)
  BY DEF SightedInv
<1>1. CASE Arrive(r)
  <2>1. req[r].pc = "new"
    BY <1>1 DEF Arrive
  <2>2. PICK route \in Routes, pin \in Pins, expected \in Expectations :
          \E loads \in LoadsOf(route) :
            Go(r, [req[r] EXCEPT !.pc = "serving", !.route = route, !.loads = loads,
                     !.pin = pin, !.expected = expected, !.seen = {current}])
    BY <1>1 DEF Arrive
  <2>3. PICK loads \in LoadsOf(route) :
          Go(r, [req[r] EXCEPT !.pc = "serving", !.route = route, !.loads = loads,
                   !.pin = pin, !.expected = expected, !.seen = {current}])
    BY <2>2
  <2>4. Judged([req[r] EXCEPT !.pc = "serving", !.route = route, !.loads = loads,
                  !.pin = pin, !.expected = expected, !.seen = {current}], current)
    BY <1>0, <2>1, ArriveJudged
  <2> QED
    BY <2>3, <2>4 DEF Go, StepTo
<1>2. CASE ReadServing(r)
  BY <1>0, <1>2, ReadServingJudged DEF ReadServing, Go, StepTo
<1>3. CASE ReadDaily(r)
  <2> DEFINE x == req[r]
             bundle == [serving |-> x.first.serving, daily |-> current.daily]
             met == x.expected.stated => x.expected.bundle = bundle
             next == IF x.pin.pinned /\ x.route # "market" THEN "pin" ELSE "load"
  <2>1. x.expected.stated \in BOOLEAN /\ x.pin.pinned \in BOOLEAN
    BY <1>0, Fields DEF Expectations, Pins
  <2>2. met \in BOOLEAN /\ next \in {"pin", "load"} /\ (~met => x.expected.stated)
    BY <2>1
  <2>3. x.pc = "daily"
    BY <1>3 DEF ReadDaily
  <2>4. Go(r, [x EXCEPT !.first = bundle, !.pc = IF met THEN next ELSE "done",
                 !.answer = IF met THEN @ ELSE "conflict"])
    BY <1>3 DEF ReadDaily
  <2> HIDE DEF met, next
  <2>5. Judged([x EXCEPT !.first = bundle, !.pc = IF met THEN next ELSE "done",
                 !.answer = IF met THEN @ ELSE "conflict"], current)
    BY <1>0, <2>2, <2>3, ReadDailyJudged
  <2> QED
    BY <2>4, <2>5 DEF Go, StepTo
<1>4. CASE CheckPin(r)
  BY <1>0, <1>4, CheckPinJudged, RefuseJudged DEF CheckPin, Go, StepTo
<1>5. CASE Load(r)
  <2>1. req[r].pc = "load"
    BY <1>5 DEF Load
  <2>2. PICK release \in Loadable(req[r].route) :
          \/ Go(r, [req[r] EXCEPT !.pc = "again_serving", !.body = "refused"])
          \/ Go(r, [req[r] EXCEPT !.rows = Append(req[r].rows, release),
                      !.pc = IF Len(Append(req[r].rows, release)) = req[r].loads
                             THEN "stamp" ELSE "load"])
    BY <1>5 DEF Load
  <2> QED
    BY <1>0, <2>1, <2>2, LoadJudged, RefuseJudged DEF Go, StepTo
<1>6. CASE Refuse(r)
  BY <1>0, <1>6, RefuseJudged DEF Refuse, Go, StepTo
<1>7. CASE Stamp(r)
  BY <1>0, <1>7, StampJudged DEF Stamp, Declared, DeclaredBy, Go, StepTo
<1>8. CASE ReadServingAgain(r)
  BY <1>0, <1>8, ReadServingAgainJudged DEF ReadServingAgain, Go, StepTo
<1>9. CASE ReadDailyAgain(r)
  BY <1>0, <1>9, ReadDailyAgainJudged DEF ReadDailyAgain, Go, StepTo
<1>10. CASE Unavailable(r)
  BY <1>0, <1>10, UnavailableJudged DEF Unavailable, Go, StepTo
<1> QED
  BY <1>1, <1>2, <1>3, <1>4, <1>5, <1>6, <1>7, <1>8, <1>9, <1>10 DEF Step

\* An operator's step keeps the world typed.
LEMMA WorldStep ==
  ASSUME WorldOK, NEW pointer \in {"serving", "daily"}, Promote(pointer) \/ Restore(pointer)
  PROVE  WorldOK'
<1>1. /\ published \in Bundles /\ published.serving \in Releases /\ published.daily \in Releases
      /\ current \in [serving : 0..published.serving, daily : 0..published.daily]
      /\ MaxRelease \in Nat /\ MaxRestores \in Nat
  BY BundleAssumption DEF WorldOK, Bundles
<1>2. CASE Promote(pointer)
  <2>1. /\ published[pointer] + 1 \in Releases
        /\ \A release \in 0..published[pointer] : release \in 0..published[pointer] + 1
    BY <1>1, <1>2 DEF Promote, Releases
  <2>2. published' \in Bundles
    BY <1>1, <1>2, <2>1 DEF Promote, Bundles
  <2>3. published[pointer] + 1 \in 0..published[pointer] + 1
    BY <1>1 DEF Releases
  <2>4. current' \in [serving : 0..published'.serving, daily : 0..published'.daily]
    BY <1>1, <1>2, <2>1, <2>3 DEF Promote, Point, Bundles
  <2>5. movedBack' \subseteq Requests
    BY <1>2 DEF Promote, Point, WorldOK
  <2> QED
    BY <1>1, <1>2, <2>2, <2>4, <2>5 DEF WorldOK, Promote
<1>3. CASE Restore(pointer)
  <2>1. current' \in [serving : 0..published.serving, daily : 0..published.daily]
    BY <1>1, <1>3 DEF Restore, Point
  <2>2. restores' \in 0..MaxRestores
    BY <1>1, <1>3 DEF Restore, WorldOK
  <2>3. movedBack' \subseteq Requests
    BY <1>3 DEF Restore, Point, WorldOK
  <2> QED
    BY <1>1, <1>3, <2>1, <2>2, <2>3 DEF WorldOK, Restore
<1> QED
  BY <1>2, <1>3

LEMMA PointStep ==
  ASSUME SightedInv, NEW pointer \in {"serving", "daily"}, Promote(pointer) \/ Restore(pointer)
  PROVE  SightedInv'
<1>1. WorldOK'
  BY WorldStep DEF SightedInv
<1>2. current' \in Bundles
  <2>1. ASSUME WorldOK PROVE current \in Bundles
    BY <2>1, WorldBundles
  <2> QED
    BY <1>1, BundleAssumption DEF WorldOK, Bundles, Releases
<1>3. req' = [r \in Requests |->
         IF Active(r) THEN [req[r] EXCEPT !.seen = @ \cup {current'}] ELSE req[r]]
  BY DEF Promote, Restore, Point
<1>4. ASSUME NEW r \in Requests PROVE Judged(req'[r], current')
  <2>1. WorldOK /\ Judged(req[r], current)
    BY DEF SightedInv
  <2>2. CASE Active(r)
    BY <1>2, <1>3, <2>1, <2>2, PointJudged
  <2>3. CASE ~Active(r)
    BY <1>2, <1>3, <2>1, <2>3, PointJudged DEF Active
  <2> QED
    BY <2>2, <2>3
<1> QED
  BY <1>1, <1>3, <1>4 DEF SightedInv

LEMMA SightedInit == Init => SightedInv
<1> SUFFICES ASSUME Init PROVE SightedInv
  OBVIOUS
<1>1. WorldOK
  BY BundleAssumption DEF Init, WorldOK, Unread, Bundles, Releases
<1>2. Stages(Idle)
  BY BundleAssumption DEF Stages, Idle, Closing, LoadsOf
<1>3. Sighted(Idle, current)
  BY DEF Sighted, Idle, Running, Loading
<1> QED
  BY <1>1, <1>2, <1>3, IdleOK DEF Init, SightedInv, Judged

LEMMA SightedNext == SightedInv /\ [Next]_vars => SightedInv'
<1> SUFFICES ASSUME SightedInv, [Next]_vars PROVE SightedInv'
  OBVIOUS
<1>1. ASSUME NEW pointer \in {"serving", "daily"}, Promote(pointer) \/ Restore(pointer)
      PROVE  SightedInv'
  BY <1>1, PointStep
<1>2. ASSUME NEW r \in Requests, Arrive(r) \/ Step(r) PROVE SightedInv'
  <2>1. PICK y : StepTo(r, y) /\ Judged(y, current)
    BY <1>2, RequestStep
  <2> QED
    BY <2>1 DEF StepTo, SightedInv, WorldOK
<1>3. CASE AllDone \/ UNCHANGED vars
  BY <1>3 DEF AllDone, vars, SightedInv, WorldOK
<1> QED
  BY <1>1, <1>2, <1>3 DEF Next

LEMMA SightedAlways == Spec => []SightedInv
  BY SightedInit, SightedNext, PTL DEF Spec

\* The state is well typed in every reachable state, however many requests
\* run and however often the operators move a pointer.
THEOREM TypeCorrect == Spec => []TypeOK
<1>1. SightedInv => TypeOK
  BY TypeParts DEF SightedInv, Judged, RequestOK
<1> QED
  BY <1>1, SightedAlways, PTL

\* A caller that states no bundle is refused as mismatched only when a pointer
\* moved while the request ran, forwards or back (stamp and the second
\* load_snapshot of thin_worker.fetch); a screen is exempt.
THEOREM MismatchIsReal == Spec => []MismatchMeansChange
<1>1. SightedInv => MismatchMeansChange
  BY DEF SightedInv, Judged, Sighted, MismatchMeansChange, Moved
<1> QED
  BY <1>1, SightedAlways, PTL

-----------------------------------------------------------------------------
(* Requests during which pointers only move forward                        *)

\* Releases are numbers, so the bounds of Ordered are arithmetic.
LEMMA Numbers ==
  ASSUME WorldOK, NEW x, Judged(x, current)
  PROVE  /\ current.serving \in Nat /\ current.daily \in Nat
         /\ x.first.serving \in Nat /\ x.first.daily \in Nat
         /\ x.second.serving \in Nat /\ x.second.daily \in Nat
         /\ x.pin.release \in Nat
         /\ \A i \in 1..Len(x.rows) : x.rows[i] \in Nat
<1>1. Releases \subseteq Nat
  BY BundleAssumption DEF Releases
<1>2. current \in Bundles /\ x.first \in Bundles /\ x.second \in Bundles /\ x.pin \in Pins
  BY WorldBundles, Fields
<1>3. 0 \in Releases
  BY BundleAssumption DEF Releases
<1>4. x.pin.release \in Releases
  BY <1>2, <1>3 DEF Pins
<1>5. \A i \in 1..Len(x.rows) : x.rows[i] \in Releases
  <2>1. x.rows \in Seq(Releases)
    BY Fields
  <2> QED
    BY <2>1, ElementOfSeq
<1> QED
  BY <1>1, <1>2, <1>4, <1>5 DEF Bundles

LEMMA ReadServingOrdered ==
  ASSUME WorldOK, NEW x, Judged(x, current), Ordered(x, current), x.pc = "serving"
  PROVE  Ordered([x EXCEPT !.pc = "daily", !.first.serving = current.serving], current)
<1> DEFINE y == [x EXCEPT !.pc = "daily", !.first.serving = current.serving]
<1>1. x \in Request /\ x.first \in Bundles /\ current.serving \in Nat
  BY Fields, Numbers
<1>2. /\ y.pc = "daily" /\ y.first.serving = current.serving
      /\ y.body = x.body /\ y.answer = x.answer
  BY <1>1 DEF Request, Bundles
<1> HIDE DEF y
<1>3. y.body = "none" /\ y.answer = "none"
  BY <1>2 DEF Judged, Stages, Closing
<1>4. Ordered(y, current)
  BY <1>1, <1>2, <1>3 DEF Ordered, Between, Upper, Running, Loading, Closing
<1> QED
  BY <1>4 DEF y

LEMMA ReadDailyOrdered ==
  ASSUME WorldOK, NEW x, Judged(x, current), Ordered(x, current), x.pc = "daily",
         NEW met \in BOOLEAN, NEW next \in {"pin", "load"},
         x.pin.pinned /\ next = "load" => x.route = "market"
  PROVE  Ordered([x EXCEPT !.first = [serving |-> x.first.serving, daily |-> current.daily],
                   !.pc = IF met THEN next ELSE "done",
                   !.answer = IF met THEN @ ELSE "conflict"], current)
<1> DEFINE y == [x EXCEPT !.first = [serving |-> x.first.serving, daily |-> current.daily],
                   !.pc = IF met THEN next ELSE "done",
                   !.answer = IF met THEN @ ELSE "conflict"]
<1>1. x \in Request /\ x.first \in Bundles /\ current \in Bundles
  BY Fields, WorldBundles
<1>2. /\ y.pc = IF met THEN next ELSE "done"
      /\ y.first.serving = x.first.serving /\ y.first.daily = current.daily
      /\ y.rows = x.rows /\ y.route = x.route /\ y.seen = x.seen /\ y.pin = x.pin
      /\ y.body = x.body /\ y.answer = (IF met THEN x.answer ELSE "conflict")
  BY <1>1 DEF Request
<1> HIDE DEF y
<1>3. x.body = "none" /\ x.answer = "none" /\ x.rows = << >> /\ current \in x.seen
  BY DEF Judged, Stages, Sighted, Running, Steps, Closing
<1>4. x.first.serving <= current.serving
  BY DEF Ordered, Between, Upper, Running, Steps
<1>5. current.serving \in Releases /\ current.serving \in Nat /\ current.daily \in Nat
      /\ current = [serving |-> current.serving, daily |-> current.daily]
  BY <1>1, Numbers DEF Bundles
<1>6. ASSUME y.pc \in {"pin", "load"}
      PROVE  /\ Between(y, current, y.first.serving)
             /\ y.first.daily <= current.daily
             /\ Between(y, current, current.serving)
             /\ [serving |-> current.serving, daily |-> y.first.daily] \in y.seen
  BY <1>2, <1>3, <1>4, <1>5, <1>6, Numbers DEF Between, Upper
<1>7. ASSUME y.pc = "load", y.pin.pinned PROVE PinBetween(y, current)
  BY <1>2, <1>3, <1>7 DEF PinBetween
<1>8. Ordered(y, current)
  BY <1>2, <1>3, <1>5, <1>6, <1>7 DEF Ordered, Running, Loading, Closing
<1> QED
  BY <1>8 DEF y

\* Before the second reading, a step that keeps what was read keeps its order.
Kept(x, y) ==
  /\ x.pc \in {"pin", "load", "stamp"}
  /\ y.pc \in {"load", "stamp", "again_serving"}
  /\ y.first = x.first /\ y.seen = x.seen /\ y.answer = x.answer

LEMMA KeptOrdered ==
  ASSUME WorldOK, NEW x, Judged(x, current), Ordered(x, current), NEW y, Kept(x, y)
  PROVE  /\ Between(y, current, y.first.serving)
         /\ y.first.daily <= current.daily
         /\ \E release \in Releases :
              /\ Between(y, current, release)
              /\ [serving |-> release, daily |-> y.first.daily] \in y.seen
         /\ y.answer # "data"
  BY DEF Kept, Ordered, Between, Upper, Running, Steps, Judged, Stages

LEMMA CheckPinOrdered ==
  ASSUME WorldOK, NEW x, Judged(x, current), Ordered(x, current), x.pc = "pin",
         x.pin.release = current.serving
  PROVE  Ordered([x EXCEPT !.pc = "load"], current)
<1> DEFINE y == [x EXCEPT !.pc = "load"]
<1>1. x \in Request
  BY Fields
<1>2. /\ y.pc = "load" /\ y.first = x.first /\ y.rows = x.rows /\ y.route = x.route
      /\ y.seen = x.seen /\ y.body = x.body /\ y.answer = x.answer /\ y.pin = x.pin
  BY <1>1 DEF Request
<1> HIDE DEF y
<1>3. x.body = "none" /\ x.rows = << >>
  BY DEF Judged, Stages, Closing
<1>4. x.first.serving <= current.serving
  BY DEF Ordered, Between, Upper, Running, Steps
<1>5. PinBetween(y, current)
  BY <1>2, <1>3, <1>4, Numbers DEF PinBetween, Between, Upper
<1>6. Ordered(y, current)
  <2>1. /\ Between(y, current, y.first.serving)
        /\ y.first.daily <= current.daily
        /\ \E bound \in Releases :
             /\ Between(y, current, bound)
             /\ [serving |-> bound, daily |-> y.first.daily] \in y.seen
        /\ y.answer # "data"
    <3>1. Kept(x, y)
      BY <1>2 DEF Kept
    <3> QED
      BY <3>1, KeptOrdered
  <2> QED
    BY <1>2, <1>3, <1>5, <2>1 DEF Ordered
<1> QED
  BY <1>6 DEF y

LEMMA RefuseOrdered ==
  ASSUME WorldOK, NEW x, Judged(x, current), Ordered(x, current), x.pc \in {"pin", "load"}
  PROVE  Ordered([x EXCEPT !.pc = "again_serving", !.body = "refused"], current)
<1> DEFINE y == [x EXCEPT !.pc = "again_serving", !.body = "refused"]
<1>1. x \in Request
  BY Fields
<1>2. /\ y.pc = "again_serving" /\ y.first = x.first /\ y.seen = x.seen
      /\ y.body = "refused" /\ y.answer = x.answer
  BY <1>1 DEF Request
<1> HIDE DEF y
<1>3. Ordered(y, current)
  <2>1. /\ Between(y, current, y.first.serving)
        /\ y.first.daily <= current.daily
        /\ \E bound \in Releases :
             /\ Between(y, current, bound)
             /\ [serving |-> bound, daily |-> y.first.daily] \in y.seen
        /\ y.answer # "data"
    <3>1. Kept(x, y)
      BY <1>2 DEF Kept
    <3> QED
      BY <3>1, KeptOrdered
  <2> QED
    BY <1>2, <2>1 DEF Ordered
<1> QED
  BY <1>3 DEF y

LEMMA LoadOrdered ==
  ASSUME WorldOK, NEW x, Judged(x, current), Ordered(x, current), x.pc = "load",
         NEW release \in Loadable(x.route),
         x.route = "market" /\ x.pin.pinned => release = x.pin.release
  PROVE  Ordered([x EXCEPT !.rows = Append(x.rows, release),
                   !.pc = IF Len(Append(x.rows, release)) = x.loads THEN "stamp" ELSE "load"],
                 current)
<1> DEFINE rows == Append(x.rows, release)
           y == [x EXCEPT !.rows = rows, !.pc = IF Len(rows) = x.loads THEN "stamp" ELSE "load"]
<1>1. x \in Request /\ x.rows \in Seq(Releases) /\ release \in Releases
  BY Fields, WorldBundles
<1>2. /\ Len(rows) = Len(x.rows) + 1
      /\ \A i \in 1..Len(rows) : rows[i] = IF i = Len(rows) THEN release ELSE x.rows[i]
      /\ \A i \in 1..Len(rows) : i # Len(rows) => i \in 1..Len(x.rows)
  BY <1>1
<1> HIDE DEF rows
<1>3. /\ y.pc \in {"load", "stamp"}
      /\ y.first = x.first /\ y.rows = rows /\ y.pin = x.pin
      /\ y.route = x.route /\ y.seen = x.seen /\ y.body = x.body /\ y.answer = x.answer
  BY <1>1 DEF Request
<1> HIDE DEF y
<1>4. x.body = "none"
  BY DEF Judged, Stages, Closing
<1>5. /\ x.first.serving <= current.serving /\ x.first.daily <= current.daily
      /\ \A i \in 1..Len(x.rows) : RowBetween(x, current, x.rows[i])
      /\ x.pin.pinned => PinBetween(x, current)
  BY <1>4 DEF Ordered, Between, Upper, Running, Loading, Steps
<1>6. ASSUME NEW i \in 1..Len(rows) PROVE RowBetween(y, current, rows[i])
  <2>1. CASE i = Len(rows)
    <3>1. rows[i] = release
      BY <1>2, <2>1
    <3>2. /\ x.route = "market" => release = current.daily
          /\ x.route \notin {"market", "screen"} => release = current.serving
      BY DEF Loadable, Pointer
    <3> QED
      BY <1>3, <1>5, <3>1, <3>2, Numbers DEF RowBetween, Between, Upper
  <2>2. CASE i # Len(rows)
    <3>1. i \in 1..Len(x.rows) /\ rows[i] = x.rows[i]
      BY <1>2, <2>2
    <3> QED
      BY <1>3, <1>5, <3>1 DEF RowBetween, Between, Upper
  <2> QED
    BY <2>1, <2>2
<1>7. ASSUME x.pin.pinned PROVE PinBetween(y, current)
  <2>1. CASE x.route = "market"
    <3>1. ASSUME NEW i \in 1..Len(rows) PROVE rows[i] = x.pin.release
      BY <1>2, <1>5, <1>7, <2>1, <3>1 DEF PinBetween
    <3> QED
      BY <1>3, <2>1, <3>1 DEF PinBetween
  <2>2. CASE x.route # "market"
    BY <1>3, <1>5, <1>7, <2>2 DEF PinBetween, Between, Upper
  <2> QED
    BY <2>1, <2>2
<1>8. Ordered(y, current)
  <2>1. /\ Between(y, current, y.first.serving)
        /\ y.first.daily <= current.daily
        /\ \E bound \in Releases :
             /\ Between(y, current, bound)
             /\ [serving |-> bound, daily |-> y.first.daily] \in y.seen
        /\ y.answer # "data"
    <3>1. Kept(x, y)
      BY <1>3 DEF Kept
    <3> QED
      BY <3>1, KeptOrdered
  <2> QED
    BY <1>3, <1>4, <1>6, <1>7, <2>1 DEF Ordered
<1> QED
  BY <1>8 DEF y, rows

LEMMA StampOrdered ==
  ASSUME WorldOK, NEW x, Judged(x, current), Ordered(x, current), x.pc = "stamp"
  PROVE  Ordered([x EXCEPT !.pc = "again_serving",
                   !.body = IF x.route = "market" \/ DeclaredBy(x) = x.first.serving
                            THEN "data" ELSE "relabelled"], current)
<1> DEFINE y == [x EXCEPT !.pc = "again_serving",
                   !.body = IF x.route = "market" \/ DeclaredBy(x) = x.first.serving
                            THEN "data" ELSE "relabelled"]
<1>1. x \in Request
  BY Fields
<1>2. /\ y.pc = "again_serving" /\ y.first = x.first /\ y.rows = x.rows
      /\ y.route = x.route /\ y.seen = x.seen /\ y.answer = x.answer /\ y.pin = x.pin
      /\ y.body = IF x.route = "market" \/ DeclaredBy(x) = x.first.serving
                  THEN "data" ELSE "relabelled"
  BY <1>1 DEF Request
<1> HIDE DEF y
<1>3. x.body = "none"
  BY DEF Judged, Stages, Closing
<1>4. /\ \A i \in 1..Len(x.rows) : RowBetween(x, current, x.rows[i])
      /\ x.pin.pinned => PinBetween(x, current)
  BY <1>3 DEF Ordered, Loading
<1>5. /\ \A i \in 1..Len(y.rows) : RowBetween(y, current, y.rows[i])
      /\ y.pin.pinned => PinBetween(y, current)
  BY <1>2, <1>4 DEF RowBetween, PinBetween, Between, Upper
<1>6. y.body = "data" /\ y.route # "market" => DeclaredBy(y) = y.first.serving
  BY <1>2 DEF DeclaredBy
<1>7. Kept(x, y)
  BY <1>2 DEF Kept
<1>8. /\ Between(y, current, y.first.serving)
      /\ y.first.daily <= current.daily
      /\ \E bound \in Releases :
           /\ Between(y, current, bound)
           /\ [serving |-> bound, daily |-> y.first.daily] \in y.seen
      /\ y.answer # "data"
  BY <1>7, KeptOrdered
<1>9. Ordered(y, current)
  BY <1>2, <1>5, <1>6, <1>8 DEF Ordered
<1> QED
  BY <1>9 DEF y

LEMMA ReadServingAgainOrdered ==
  ASSUME WorldOK, NEW x, Judged(x, current), Ordered(x, current), x.pc = "again_serving"
  PROVE  Ordered([x EXCEPT !.pc = "again_daily", !.second.serving = current.serving], current)
<1> DEFINE y == [x EXCEPT !.pc = "again_daily", !.second.serving = current.serving]
<1>1. x \in Request /\ x.second \in Bundles /\ current.serving \in Nat
  BY Fields, Numbers
<1>2. /\ y.pc = "again_daily" /\ y.second.serving = current.serving /\ y.first = x.first
      /\ y.rows = x.rows /\ y.route = x.route /\ y.seen = x.seen /\ y.pin = x.pin
      /\ y.body = x.body /\ y.answer = x.answer
  BY <1>1 DEF Request, Bundles
<1> HIDE DEF y
<1>3. Upper(y, current) = Upper(x, current)
  BY <1>2 DEF Upper
<1>4. \A release : Between(y, current, release) <=> Between(x, current, release)
  BY <1>2, <1>3 DEF Between
<1>5. \A release : RowBetween(y, current, release) <=> RowBetween(x, current, release)
  BY <1>2, <1>4 DEF RowBetween
<1>6. PinBetween(y, current) <=> PinBetween(x, current)
  BY <1>2, <1>4 DEF PinBetween
<1>7. x.answer = "none"
  BY DEF Judged, Stages
<1>8. x.pc \in Running \ {"serving", "daily"} /\ x.pc \in Closing
  BY DEF Running, Steps, Closing
<1>9. y.second.serving <= current.serving
  BY <1>1, <1>2
<1>10. DeclaredBy(y) = DeclaredBy(x)
  BY <1>2 DEF DeclaredBy
<1>11. Ordered(y, current)
  BY <1>2, <1>4, <1>5, <1>6, <1>7, <1>8, <1>9, <1>10 DEF Ordered
<1> QED
  BY <1>11 DEF y

\* When the two readings agree, everything between them is what they read.
LEMMA ReadDailyAgainOrdered ==
  ASSUME WorldOK, NEW x, Judged(x, current), Ordered(x, current), x.pc = "again_daily",
         NEW bundle, bundle = [serving |-> x.second.serving, daily |-> current.daily]
  PROVE  Ordered([x EXCEPT !.pc = "done", !.second = bundle,
                   !.answer = IF bundle = x.first THEN x.body ELSE "conflict"], current)
<1> DEFINE y == [x EXCEPT !.pc = "done", !.second = bundle,
                   !.answer = IF bundle = x.first THEN x.body ELSE "conflict"]
<1>1. x \in Request /\ x.first \in Bundles
  BY Fields
<1>2. /\ y.pc = "done" /\ y.first = x.first /\ y.rows = x.rows /\ y.route = x.route
      /\ y.seen = x.seen /\ y.pin = x.pin /\ y.body = x.body
      /\ y.answer = IF bundle = x.first THEN x.body ELSE "conflict"
  BY <1>1 DEF Request
<1> HIDE DEF y
<1>3. x.pc \in Running \ {"serving", "daily"} /\ x.pc \in Closing
  BY DEF Running, Steps, Closing
<1>4. x.body = "data" /\ x.route # "market" => DeclaredBy(x) = x.first.serving
  BY DEF Ordered
<1>5. ASSUME y.answer = "data" PROVE Truthful(y)
  <2>1. /\ x.second.serving = x.first.serving /\ current.daily = x.first.daily
        /\ x.body = "data"
    BY <1>1, <1>2, <1>5
  <2>2. \A release : Between(x, current, release) =>
          x.first.serving <= release /\ release <= x.first.serving
    BY <2>1 DEF Between, Upper
  <2>3. x.first \in x.seen
    <3>1. PICK release \in Releases :
            /\ Between(x, current, release)
            /\ [serving |-> release, daily |-> x.first.daily] \in x.seen
      BY <1>3 DEF Ordered
    <3>2. release = x.first.serving
      BY <2>2, <3>1, Numbers, BundleAssumption DEF Releases
    <3> QED
      BY <1>1, <3>1, <3>2 DEF Bundles
  <2>4. Len(x.rows) = x.loads /\ x.loads \in LoadsOf(x.route)
    BY <2>1 DEF Judged, Stages
  <2>5. ASSUME NEW i \in 1..Len(x.rows)
        PROVE  x.rows[i] = x.first[Pointer(x.route)]
    <3>1. RowBetween(x, current, x.rows[i]) /\ x.rows[i] \in Nat
      BY <1>3, <2>1, Numbers DEF Ordered
    <3>2. CASE x.route = "market"
      BY <2>1, <3>1, <3>2, Numbers DEF RowBetween, Pointer
    <3>3. CASE x.route = "screen"
      <4>1. i = 1 /\ DeclaredBy(x) = x.rows[1]
        BY <2>4, <3>3 DEF LoadsOf, DeclaredBy
      <4> QED
        BY <1>4, <2>1, <3>3, <4>1 DEF Pointer
    <3>4. CASE x.route \notin {"market", "screen"}
      <4>1. x.first.serving <= x.rows[i] /\ x.rows[i] <= x.first.serving
        BY <2>2, <3>1, <3>4 DEF RowBetween
      <4> QED
        BY <3>1, <3>4, <4>1, Numbers DEF Pointer
    <3> QED
      BY <3>2, <3>3, <3>4
  <2>6. ASSUME x.pin.pinned, NEW i \in 1..Len(x.rows) PROVE x.rows[i] = x.pin.release
    <3>1. PinBetween(x, current)
      BY <1>3, <2>1, <2>6 DEF Ordered
    <3>2. CASE x.route = "market"
      BY <3>1, <3>2 DEF PinBetween
    <3>3. CASE x.route # "market"
      <4>1. Between(x, current, x.pin.release)
        BY <3>1, <3>3 DEF PinBetween
      <4>2. x.first.serving <= x.pin.release /\ x.pin.release <= x.first.serving
        BY <2>2, <4>1
      <4>3. x.pin.release = x.first.serving
        BY <4>2, Numbers
      <4>4. x.rows[i] = x.first.serving
        BY <2>5, <3>3 DEF Pointer
      <4> QED
        BY <4>3, <4>4
    <3> QED
      BY <3>2, <3>3
  <2> QED
    BY <1>2, <2>3, <2>5, <2>6 DEF Truthful
<1>6. DeclaredBy(y) = DeclaredBy(x)
  BY <1>2 DEF DeclaredBy
<1>7. y.pc \notin Running /\ y.pc \notin Loading \cup Closing
  BY <1>2 DEF Running, Loading, Closing
<1>8. Ordered(y, current)
  BY <1>2, <1>4, <1>5, <1>6, <1>7 DEF Ordered
<1> QED
  BY <1>8 DEF y

LEMMA UnavailableOrdered ==
  ASSUME WorldOK, NEW x, Judged(x, current), Ordered(x, current),
         x.pc \in {"serving", "daily", "again_serving", "again_daily"}
  PROVE  Ordered([x EXCEPT !.pc = "done", !.answer = "unavailable"], current)
<1> DEFINE y == [x EXCEPT !.pc = "done", !.answer = "unavailable"]
<1>1. x \in Request
  BY Fields
<1>2. /\ y.pc = "done" /\ y.answer = "unavailable" /\ y.rows = x.rows
      /\ y.route = x.route /\ y.body = x.body /\ y.first = x.first
  BY <1>1 DEF Request
<1> HIDE DEF y
<1>3. y.body = "data" /\ y.route # "market" => DeclaredBy(y) = y.first.serving
  BY <1>2 DEF Ordered, DeclaredBy
<1>4. Ordered(y, current)
  BY <1>2, <1>3 DEF Ordered, Running, Loading, Closing
<1> QED
  BY <1>4 DEF y

\* A pointer that moves forward widens every interval.
LEMMA PointOrdered ==
  ASSUME WorldOK, NEW x, Judged(x, current), Ordered(x, current), NEW moved \in Bundles,
         moved.serving \in Nat, moved.daily \in Nat,
         current.serving <= moved.serving, current.daily <= moved.daily,
         NEW y, \/ y = x
                \/ y = [x EXCEPT !.seen = @ \cup {moved}]
  PROVE  Ordered(y, moved)
<1>1. x \in Request /\ x.seen \in SUBSET Bundles
  BY Fields
<1>2. /\ y.pc = x.pc /\ y.answer = x.answer /\ y.rows = x.rows /\ y.route = x.route
      /\ x.seen \subseteq y.seen /\ y.body = x.body /\ y.pin = x.pin
      /\ y.first = x.first /\ y.second = x.second
  BY <1>1 DEF Request
<1>3. ASSUME NEW release \in Nat, Between(x, current, release)
      PROVE  Between(y, moved, release)
  BY <1>2, <1>3, Numbers DEF Between, Upper
<1>4. ASSUME NEW release \in Nat, RowBetween(x, current, release)
      PROVE  RowBetween(y, moved, release)
  BY <1>2, <1>3, <1>4, Numbers DEF RowBetween
<1>5. PinBetween(x, current) => PinBetween(y, moved)
  BY <1>2, <1>3, Numbers DEF PinBetween
<1>6. DeclaredBy(y) = DeclaredBy(x)
  BY <1>2 DEF DeclaredBy
<1>7. Truthful(x) => Truthful(y)
  BY <1>2 DEF Truthful
<1>8. Releases \subseteq Nat
  BY DEF Releases
<1>9. ASSUME y.pc \in Running \ {"serving"} PROVE Between(y, moved, y.first.serving)
  BY <1>2, <1>3, <1>9, Numbers DEF Ordered
<1>10. ASSUME y.pc \in Running \ {"serving", "daily"}
       PROVE  /\ y.first.daily <= moved.daily
              /\ \E release \in Releases :
                   /\ Between(y, moved, release)
                   /\ [serving |-> release, daily |-> y.first.daily] \in y.seen
  <2>1. x.first.daily <= current.daily
    BY <1>2, <1>10 DEF Ordered
  <2>2. PICK release \in Releases :
          /\ Between(x, current, release)
          /\ [serving |-> release, daily |-> x.first.daily] \in x.seen
    BY <1>2, <1>10 DEF Ordered
  <2>3. y.first.daily <= moved.daily
    BY <1>2, <2>1, Numbers
  <2> QED
    BY <1>2, <1>3, <1>8, <2>2, <2>3
<1>11. ASSUME y.pc \in Loading \cup Closing, y.body # "refused"
       PROVE  /\ \A i \in 1..Len(y.rows) : RowBetween(y, moved, y.rows[i])
              /\ y.pin.pinned => PinBetween(y, moved)
  <2>1. /\ \A i \in 1..Len(x.rows) : RowBetween(x, current, x.rows[i])
        /\ x.pin.pinned => PinBetween(x, current)
    BY <1>2, <1>11 DEF Ordered
  <2> QED
    BY <1>2, <1>4, <1>5, <2>1, Numbers
<1>12. y.pc = "again_daily" => y.second.serving <= moved.serving
  <2>1. x.pc = "again_daily" => x.second.serving <= current.serving
    BY DEF Ordered
  <2> QED
    BY <1>2, <2>1, Numbers
<1>13. /\ y.body = "data" /\ y.route # "market" => DeclaredBy(y) = y.first.serving
       /\ y.answer = "data" => Truthful(y)
  BY <1>2, <1>6, <1>7 DEF Ordered
<1> QED
  BY <1>9, <1>10, <1>11, <1>12, <1>13 DEF Ordered

-----------------------------------------------------------------------------
(* The second invariant                                                    *)
OrderedInv == \A r \in Requests \ movedBack : Ordered(req[r], current)

\* A request that does not run takes no notice of the pointers.
LEMMA RestOrdered ==
  ASSUME NEW x, NEW c, NEW d, Ordered(x, c), x.pc \notin Running
  PROVE  Ordered(x, d)
  BY DEF Ordered, Running, Loading, Closing, Steps

LEMMA RequestOrdered ==
  ASSUME SightedInv, NEW r \in Requests, Ordered(req[r], current), Arrive(r) \/ Step(r)
  PROVE  \E y : StepTo(r, y) /\ Ordered(y, current)
<1>0. WorldOK /\ Judged(req[r], current)
  BY DEF SightedInv
<1>1. CASE Arrive(r)
  <2>1. PICK route \in Routes, pin \in Pins, expected \in Expectations :
          \E loads \in LoadsOf(route) :
            Go(r, [req[r] EXCEPT !.pc = "serving", !.route = route, !.loads = loads,
                     !.pin = pin, !.expected = expected, !.seen = {current}])
    BY <1>1 DEF Arrive
  <2>2. PICK loads \in LoadsOf(route) :
          Go(r, [req[r] EXCEPT !.pc = "serving", !.route = route, !.loads = loads,
                   !.pin = pin, !.expected = expected, !.seen = {current}])
    BY <2>1
  <2> DEFINE y == [req[r] EXCEPT !.pc = "serving", !.route = route, !.loads = loads,
                     !.pin = pin, !.expected = expected, !.seen = {current}]
  <2>3. req[r] \in Request /\ req[r].body = "none" /\ req[r].answer = "none"
    BY <1>0, <1>1, Fields DEF Arrive, Judged, Stages, Closing
  <2>4. y.pc = "serving" /\ y.body = "none" /\ y.answer = "none"
    BY <2>3 DEF Request
  <2> HIDE DEF y
  <2>5. Ordered(y, current)
    BY <2>4 DEF Ordered, Running, Loading, Closing
  <2> QED
    BY <2>2, <2>5 DEF Go, StepTo, y
<1>2. CASE ReadServing(r)
  BY <1>0, <1>2, ReadServingOrdered DEF ReadServing, Go, StepTo
<1>3. CASE ReadDaily(r)
  <2> DEFINE x == req[r]
             bundle == [serving |-> x.first.serving, daily |-> current.daily]
             met == x.expected.stated => x.expected.bundle = bundle
             next == IF x.pin.pinned /\ x.route # "market" THEN "pin" ELSE "load"
  <2>1. x.expected.stated \in BOOLEAN /\ x.pin.pinned \in BOOLEAN
    BY <1>0, Fields DEF Expectations, Pins
  <2>2. /\ met \in BOOLEAN /\ next \in {"pin", "load"}
        /\ x.pin.pinned /\ next = "load" => x.route = "market"
    BY <2>1
  <2>3. x.pc = "daily"
    BY <1>3 DEF ReadDaily
  <2>4. Go(r, [x EXCEPT !.first = bundle, !.pc = IF met THEN next ELSE "done",
                 !.answer = IF met THEN @ ELSE "conflict"])
    BY <1>3 DEF ReadDaily
  <2> HIDE DEF met, next
  <2>5. Ordered([x EXCEPT !.first = bundle, !.pc = IF met THEN next ELSE "done",
                 !.answer = IF met THEN @ ELSE "conflict"], current)
    BY <1>0, <2>2, <2>3, ReadDailyOrdered
  <2> QED
    BY <2>4, <2>5 DEF Go, StepTo
<1>4. CASE CheckPin(r)
  BY <1>0, <1>4, CheckPinOrdered, RefuseOrdered DEF CheckPin, Go, StepTo
<1>5. CASE Load(r)
  <2>1. req[r].pc = "load"
    BY <1>5 DEF Load
  <2>2. PICK release \in Loadable(req[r].route) :
          IF req[r].route = "market" /\ req[r].pin.pinned /\ release # req[r].pin.release
          THEN Go(r, [req[r] EXCEPT !.pc = "again_serving", !.body = "refused"])
          ELSE Go(r, [req[r] EXCEPT !.rows = Append(req[r].rows, release),
                        !.pc = IF Len(Append(req[r].rows, release)) = req[r].loads
                               THEN "stamp" ELSE "load"])
    BY <1>5 DEF Load
  <2> QED
    BY <1>0, <2>1, <2>2, LoadOrdered, RefuseOrdered DEF Go, StepTo
<1>6. CASE Refuse(r)
  BY <1>0, <1>6, RefuseOrdered DEF Refuse, Go, StepTo
<1>7. CASE Stamp(r)
  BY <1>0, <1>7, StampOrdered DEF Stamp, Declared, DeclaredBy, Go, StepTo
<1>8. CASE ReadServingAgain(r)
  BY <1>0, <1>8, ReadServingAgainOrdered DEF ReadServingAgain, Go, StepTo
<1>9. CASE ReadDailyAgain(r)
  BY <1>0, <1>9, ReadDailyAgainOrdered DEF ReadDailyAgain, Go, StepTo
<1>10. CASE Unavailable(r)
  BY <1>0, <1>10, UnavailableOrdered DEF Unavailable, Go, StepTo
<1> QED
  BY <1>1, <1>2, <1>3, <1>4, <1>5, <1>6, <1>7, <1>8, <1>9, <1>10 DEF Step

LEMMA OrderedInit == Init => OrderedInv
<1>1. Ordered(Idle, Unread)
  BY DEF Ordered, Idle, Running, Loading, Closing
<1> QED
  BY <1>1 DEF Init, OrderedInv

LEMMA OrderedNext == SightedInv /\ OrderedInv /\ [Next]_vars => OrderedInv'
<1> SUFFICES ASSUME SightedInv, OrderedInv, [Next]_vars PROVE OrderedInv'
  OBVIOUS
<1>0. /\ WorldOK
      /\ \A r \in Requests : Judged(req[r], current)
      /\ \A r \in Requests \ movedBack : Ordered(req[r], current)
  BY DEF SightedInv, OrderedInv
<1>1. ASSUME NEW pointer \in {"serving", "daily"}, Promote(pointer) \/ Restore(pointer)
      PROVE  OrderedInv'
  <2>1. /\ current \in Bundles /\ current' \in Bundles
        /\ MaxRelease \in Nat
    <3>1. WorldOK'
      BY <1>0, <1>1, WorldStep
    <3>2. ASSUME WorldOK PROVE current \in Bundles
      BY <3>2, WorldBundles
    <3> QED
      BY <1>0, <3>1, <3>2, BundleAssumption DEF WorldOK, Bundles, Releases
  <2>2. /\ current.serving \in Nat /\ current.daily \in Nat
        /\ current'.serving \in Nat /\ current'.daily \in Nat
    BY <2>1 DEF Bundles, Releases
  <2>3. PICK release \in Nat : Point(pointer, release)
    <3>1. published[pointer] \in Nat
      BY <1>0, <1>1, <2>1 DEF WorldOK, Bundles, Releases
    <3> QED
      BY <1>1, <3>1 DEF Promote, Restore
  <2>4. current' = [current EXCEPT ![pointer] = release]
    BY <2>3 DEF Point
  <2>5. ASSUME NEW r \in Requests \ movedBack' PROVE Ordered(req'[r], current')
    <3>1. Ordered(req[r], current) /\ Judged(req[r], current)
      BY <1>0, <2>3, <2>5 DEF Point
    <3>2. CASE Active(r)
      <4>1. ~(release < current[pointer])
        BY <2>3, <2>5, <3>2 DEF Point
      <4>2. current.serving <= current'.serving /\ current.daily <= current'.daily
        BY <1>1, <2>1, <2>2, <2>4, <4>1 DEF Bundles
      <4>3. req'[r] = [req[r] EXCEPT !.seen = @ \cup {current'}]
        BY <2>3, <3>2 DEF Point
      <4> QED
        BY <1>0, <2>1, <2>2, <3>1, <4>2, <4>3, PointOrdered
    <3>3. CASE ~Active(r)
      <4>1. req'[r] = req[r] /\ req[r].pc \notin Running
        BY <2>3, <3>3 DEF Point, Active, Running
      <4> QED
        BY <3>1, <4>1, RestOrdered
    <3> QED
      BY <3>2, <3>3
  <2> QED
    BY <2>5 DEF OrderedInv
<1>2. ASSUME NEW r \in Requests, Arrive(r) \/ Step(r) PROVE OrderedInv'
  <2>1. PICK y : StepTo(r, y) /\ (r \notin movedBack => Ordered(y, current))
    <3>1. CASE r \in movedBack
      BY <1>2, <3>1, RequestStep
    <3>2. CASE r \notin movedBack
      BY <1>0, <1>2, <3>2, RequestOrdered
    <3> QED
      BY <3>1, <3>2
  <2> QED
    BY <1>0, <2>1 DEF StepTo, SightedInv, OrderedInv
<1>3. CASE AllDone \/ UNCHANGED vars
  BY <1>0, <1>3 DEF AllDone, vars, OrderedInv
<1> QED
  BY <1>1, <1>2, <1>3 DEF Next

LEMMA OrderedAlways == Spec => []OrderedInv
<1>1. Init => SightedInv /\ OrderedInv
  BY SightedInit, OrderedInit
<1>2. SightedInv /\ OrderedInv /\ [Next]_vars => (SightedInv /\ OrderedInv)'
  BY SightedNext, OrderedNext
<1> QED
  BY <1>1, <1>2, PTL DEF Spec

LEMMA AnswersTruthful == OrderedInv => \A r \in Answered : Truthful(req[r])
  BY DEF OrderedInv, Ordered, Answered

\* Unless a pointer is moved back while a request runs, the pair of releases
\* its answer is stamped with was current at one moment, although the two
\* pointers are read one after the other (load_snapshot before and after the
\* tool).
THEOREM BundlesExist == Spec => []BundleExisted
<1>1. OrderedInv => BundleExisted
  BY AnswersTruthful DEF BundleExisted, Truthful
<1> QED
  BY <1>1, OrderedAlways, PTL

\* Unless a pointer is moved back while a request runs, every piece of its
\* answer is from the release of its bundle, for any number of loads and any
\* route, and a pinned release is the one served, although _tool_v2 checks the
\* pin and then loads the release again.
THEOREM AnswersAreOneRelease == Spec => []AnswersAreOfTheirRelease
<1>1. OrderedInv => AnswersAreOfTheirRelease
  BY AnswersTruthful DEF AnswersAreOfTheirRelease, Truthful
<1> QED
  BY <1>1, OrderedAlways, PTL
=============================================================================
