------------------------------- MODULE ReadApis -------------------------------
(***************************************************************************)
(* Reading a selection page by page through the private read APIs.         *)
(*                                                                         *)
(* Every API serves an immutable release that a deployment names, and      *)
(* every page carries a cursor that binds the release and the query.  The  *)
(* APIs differ in what else they bind: whether a cursor needs the release  *)
(* to be stated beside it, whether a stated release or the page size is    *)
(* part of the query, and which releases an answer is made of.  The stored *)
(* price histories read their rows from a live object whose version the    *)
(* release pins, in a bounded number of requests per page.                 *)
(*                                                                         *)
(* Two kinds of caller: one that repeats its request with the cursor, and  *)
(* the loop of the research command, which also states the release of the  *)
(* page it has.                                                            *)
(***************************************************************************)
EXTENDS Integers, Sequences

CONSTANTS
  Apis,           \* the APIs read
  Published,      \* the releases that may be deployed: [research, sources]
  Lengths,        \* Lengths[r]: the rows of each stored fragment the selection of r is found in
  Inside,         \* Inside[r]: those of them that are inside the dates, in order
  PageLimits,     \* rows of a page
  RowsPerRead,    \* rows of one native request: 1000
  ReadsPerPage,   \* native requests of one page: 16
  LoopPages,      \* pages the loop asks for: 100
  Moves,          \* bound: deployments and replacements of the stored object
  Nothing         \* no cursor, no stated release, no answer under way

\* A row of a fragment, or a place among the rows: after that row.
Places == [fragment : Nat, row : Nat]

ReadBefore(row, place) ==
  \/ row.fragment < place.fragment
  \/ row.fragment = place.fragment /\ row.row <= place.row

Statable == Published \cup {r.sources : r \in Published} \cup {Nothing}

PageCursors ==
  [release : Published, query : [limit : PageLimits \cup {Nothing}, stated : Statable],
   at : Nat \cup Places]

ASSUME ReadAssumption ==
  /\ Apis \subseteq {"series", "latest", "stored", "screen", "readiness", "unified"}
  /\ Lengths \in [Published -> Seq(Nat \ {0})] /\ Inside \in [Published -> Seq(Places)]
  /\ \A r \in Published : \A n \in DOMAIN Inside[r] :
       /\ Inside[r][n].fragment \in DOMAIN Lengths[r]
       /\ Inside[r][n].row \in 1..Lengths[r][Inside[r][n].fragment]
       /\ \A m \in 1..(n - 1) : ~ReadBefore(Inside[r][n], Inside[r][m])
  /\ PageLimits \subseteq Nat \ {0}
  /\ {RowsPerRead, ReadsPerPage, LoopPages} \subseteq Nat \ {0} /\ Moves \in Nat
  /\ Nothing \notin Published \cup PageCursors

VARIABLES
  serving,        \* the release deployed, whether the stored object was replaced, moves
  asker,          \* the caller: its request, what it has read, where it is
  answering       \* the page of a stored history under way: place, rows, requests

readVars == <<serving, asker, answering>>

-----------------------------------------------------------------------------
Start == [fragment |-> 1, row |-> 0]

\* The rows of the selection, in order.
Chosen(r) == [n \in DOMAIN Inside[r] |-> <<r, Inside[r][n]>>]

\* How many of them are read when the fragments are read up to a place.
Reached(r, place) ==
  CHOOSE n \in 0..Len(Inside[r]) :
    \A m \in DOMAIN Inside[r] : ReadBefore(Inside[r][m], place) <=> m <= n

Least(x, y) == IF x <= y THEN x ELSE y

\* What a caller can state of a release.  The unified answers are made of a
\* research release, whose identity is not among the parameters, and of the
\* financial and market releases it names.
Stated(r) == IF asker.api = "unified" THEN r.sources ELSE r

\* Mutant of Query: the price histories exclude the cursor alone.
QueryWithRelease(request) ==
  IF asker.api \in {"series", "latest", "stored"}
  THEN [limit |-> request.limit, stated |-> request.stated]
  ELSE [limit |-> Nothing, stated |-> request.stated]

\* The part of a request that its cursor is bound to: everything but the cursor
\* and the release stated (series, latest, stored), or everything but the cursor
\* and the page size.
Query(request) ==
  IF asker.api \in {"series", "latest", "stored"}
  THEN [limit |-> request.limit, stated |-> Nothing]
  ELSE [limit |-> Nothing, stated |-> request.stated]

CursorOf(request, place) == [release |-> serving.release, query |-> Query(request), at |-> place]

\* The release that was stated is the one deployed.
AsStated(request) == request.stated \in {Nothing, Stated(serving.release)}

OfThisQuery(request) == request.cursor.query = Query(request)

\* historical_series_api, stock_history_api, crsp and archive_stock_history_api:
\* a cursor is taken with its release stated beside it.
SeriesAccepts(request) ==
  /\ AsStated(request)
  /\ request.cursor # Nothing =>
       /\ request.stated = serving.release
       /\ request.cursor.release = serving.release /\ OfThisQuery(request)

\* stock_latest_api compares the cursor with the release stated, and market_dispatch
\* the release stated with the current publication.
LatestAccepts(request) ==
  /\ request.cursor # Nothing =>
       OfThisQuery(request) /\ request.cursor.release = request.stated
  /\ AsStated(request)

\* Mutant of ScreenAccepts: the cursor's release is not looked at.
ScreenTakesAnyRelease(request) ==
  AsStated(request) /\ (request.cursor # Nothing => OfThisQuery(request))

\* sec_screener, sec_universe_screen: the cursor alone binds the release.
ScreenAccepts(request) ==
  /\ AsStated(request)
  /\ request.cursor # Nothing =>
       OfThisQuery(request) /\ request.cursor.release = serving.release

\* sec_readiness_api has no parameter for the release of its answers.
ReadinessAccepts(request) ==
  /\ request.stated = Nothing
  /\ request.cursor # Nothing =>
       OfThisQuery(request) /\ request.cursor.release = serving.release

\* unified_research_api: the three releases are in the cursor.
UnifiedAccepts(request) ==
  /\ AsStated(request)
  /\ request.cursor # Nothing =>
       OfThisQuery(request) /\ request.cursor.release = serving.release

Accepts(request) ==
  CASE asker.api \in {"series", "stored"} -> SeriesAccepts(request)
    [] asker.api = "latest"    -> LatestAccepts(request)
    [] asker.api = "screen"    -> ScreenAccepts(request)
    [] asker.api = "readiness" -> ReadinessAccepts(request)
    [] asker.api = "unified"   -> UnifiedAccepts(request)

-----------------------------------------------------------------------------
ReadInit ==
  /\ \E r \in Published : serving = [release |-> r, replaced |-> FALSE, moves |-> 0]
  /\ \E api \in Apis, loop \in BOOLEAN, limit \in PageLimits,
        known \in {Nothing, serving.release} :
       /\ loop => api \in {"screen", "readiness", "unified"}
       /\ api = "readiness" => known = Nothing
       /\ LET stated == IF known = Nothing THEN Nothing
                        ELSE IF api = "unified" THEN known.sources ELSE known
          IN  asker = [pc |-> "ask", api |-> api, loop |-> loop, limit |-> limit,
                       stated |-> stated, cursor |-> Nothing, rows |-> <<>>, pages |-> 0,
                       seen |-> {}, pinned |-> stated # Nothing, resized |-> FALSE, since |-> 0]
  /\ answering = Nothing

End(pc) == asker' = [asker EXCEPT !.pc = pc]

\* The caller has a page: the loop compares its release with that of the page
\* before, and states it from now on; another caller states it where a cursor
\* needs it, and may ask for pages of another size.
Take(rows, cursor) ==
  LET page == Stated(serving.release)
      first == asker.cursor = Nothing
      next == [asker EXCEPT !.rows = @ \o rows, !.cursor = cursor,
                            !.since = IF first THEN serving.moves ELSE @]
  IN  \/ cursor = Nothing
         /\ asker' = [next EXCEPT !.pc = "complete"]
      \/ /\ cursor # Nothing /\ asker.loop
         /\ \/ ~first /\ asker.stated # page /\ End("failed")
            \/ /\ first \/ asker.stated = page
               /\ \/ cursor \in asker.seen /\ End("failed")
                  \/ cursor \notin asker.seen /\ asker.pages + 1 >= LoopPages /\ End("failed")
                  \/ /\ cursor \notin asker.seen /\ asker.pages + 1 < LoopPages
                     /\ asker' = [next EXCEPT !.stated = page, !.pages = @ + 1,
                                              !.seen = @ \cup {cursor}]
      \/ /\ cursor # Nothing /\ ~asker.loop
         /\ \E limit \in PageLimits :
              asker' = [next EXCEPT
                !.limit = limit, !.resized = @ \/ limit # asker.limit,
                !.stated = IF asker.api \in {"series", "latest", "stored"} THEN page ELSE @]

\* A page of an API that selects its rows first: those from the offset on.
Page(request) ==
  LET all == Chosen(serving.release)
      from == IF request.cursor = Nothing THEN 0 ELSE request.cursor.at
      end == Least(from + request.limit, Len(all))
  IN  Take(SubSeq(all, from + 1, end),
           IF end < Len(all) THEN CursorOf(request, end) ELSE Nothing)

Request == [limit |-> asker.limit, cursor |-> asker.cursor, stated |-> asker.stated]

AskPage ==
  /\ asker.pc = "ask" /\ answering = Nothing
  /\ asker.api # "stored" /\ Accepts(Request)
  /\ Page(Request)
  /\ UNCHANGED <<serving, answering>>

AskStored ==
  /\ asker.pc = "ask" /\ answering = Nothing
  /\ asker.api = "stored" /\ Accepts(Request)
  /\ answering' = [place |-> IF asker.cursor = Nothing THEN Start ELSE asker.cursor.at,
                   rows |-> <<>>, reads |-> 0]
  /\ UNCHANGED <<serving, asker>>

\* 409 or 400: the request states, or its cursor binds, something else.
Refuse ==
  /\ asker.pc = "ask" /\ answering = Nothing
  /\ ~Accepts(Request)
  /\ End("refused")
  /\ UNCHANGED <<serving, answering>>

\* The place after count rows: the start of the next fragment at the end of one.
After(place, count) ==
  IF place.row + count < Lengths[serving.release][place.fragment]
  THEN [place EXCEPT !.row = @ + count]
  ELSE [fragment |-> place.fragment + 1, row |-> 0]

MoreToRead ==
  /\ answering.place.fragment <= Len(Lengths[serving.release])
  /\ Len(answering.rows) < asker.limit
  /\ answering.reads < ReadsPerPage

\* fetch_rows: one native request, refused when the object has another version; of
\* the rows read those inside the dates are kept.
NativeRequest ==
  /\ answering # Nothing /\ MoreToRead
  /\ LET r == serving.release
         place == answering.place
         count == Least(RowsPerRead, Least(Lengths[r][place.fragment] - place.row,
                                           asker.limit - Len(answering.rows)))
         read == [place EXCEPT !.row = @ + count]
     IN  \/ /\ serving.replaced
            /\ End("refused") /\ answering' = Nothing
         \/ /\ ~serving.replaced
            /\ answering' =
                 [place |-> After(place, count), reads |-> answering.reads + 1,
                  rows |-> answering.rows \o
                    SubSeq(Chosen(r), Reached(r, place) + 1, Reached(r, read))]
            /\ UNCHANGED asker
  /\ UNCHANGED serving

AnswerStored ==
  /\ answering # Nothing /\ ~MoreToRead
  /\ Take(answering.rows,
          IF answering.place.fragment <= Len(Lengths[serving.release])
          THEN CursorOf(Request, answering.place) ELSE Nothing)
  /\ answering' = Nothing
  /\ UNCHANGED serving

\* Another release is deployed, or an earlier one again.  A request runs to its
\* end under the bindings of the version that took it.
Redeploy ==
  /\ serving.moves < Moves /\ answering = Nothing
  /\ \E r \in Published \ {serving.release} :
       serving' = [serving EXCEPT !.release = r, !.moves = @ + 1]
  /\ UNCHANGED <<asker, answering>>

\* The object behind the stored histories is written again, between two requests
\* of a page or of two pages.
ReplaceStored ==
  /\ serving.moves < Moves /\ ~serving.replaced
  /\ serving' = [serving EXCEPT !.replaced = TRUE, !.moves = @ + 1]
  /\ UNCHANGED <<asker, answering>>

Reading == AskPage \/ AskStored \/ Refuse \/ NativeRequest \/ AnswerStored

ReadNext == Reading \/ (asker.pc = "ask" /\ (Redeploy \/ ReplaceStored))

ReadSpec == ReadInit /\ [][ReadNext]_readVars

-----------------------------------------------------------------------------
\* Whatever is deployed or replaced between the pages, and whatever their sizes,
\* the pages of a reading that came to an end are the whole selection of one
\* release, each row once and in order.
ReadIsWhole ==
  asker.pc = "complete" => \E r \in Published : asker.rows = Chosen(r)

\* Nobody is refused a page without a reason: as long as nothing was deployed since
\* the first page, and the stored object is the one indexed, its cursor is good,
\* unless the caller changed the page size of a price history, which is part of
\* the query there.  The loop
\* of the research command is left out when the release was not stated from the
\* first page on.
FollowersAreServed ==
  asker.pc = "refused" /\ serving.moves = asker.since =>
    \/ asker.loop /\ ~asker.pinned
    \/ asker.api = "stored" /\ serving.replaced
    \/ asker.resized /\ asker.api \in {"series", "latest", "stored"}

\* "--all-pages" (docs/unified-research-sprint/terminal.md:67,
\* docs/sec-universe-sprint/terminal-workflow.md:12, docs/sec-readiness/README.md:177)
\* collects all pages while nothing is deployed.
AllPagesAreServed ==
  asker.pc = "refused" /\ asker.loop => serving.moves # asker.since

\* Every reading ends, also where page after page has no row inside the dates.
ReadingEnds == <>(asker.pc # "ask")
=============================================================================
