----------------------------- MODULE ReleaseQueries -----------------------------
(***************************************************************************)
(* private_api.py and data_api.py: what is answered about a company from   *)
(* the release that is current, artifact by artifact (serving_v2.py), as   *)
(* of a past instant or of now, and by the REST views page by page.        *)
(*                                                                         *)
(* A release of a day holds every row that was public by its end, and,     *)
(* from some day on, an index of identities: a symbol may pass from one    *)
(* company to another.  The artifacts are read one after the other through *)
(* the edge cache, whose keys name the release; the pointer moves          *)
(* meanwhile, objects are unreadable or torn for a while, and a text is    *)
(* cached before its digest is compared.                                   *)
(*                                                                         *)
(* One symbol, one metric, months as the unit of fiscal periods, quarters  *)
(* of a day as the unit of instants.                                       *)
(***************************************************************************)
EXTENDS Integers, FiniteSets, Sequences, SequencesExt

CONSTANTS
  Books,       \* the rows there may be: annual rows and closes, see Row below
  LastDay,     \* releases are numbered by their day, 1..LastDay
  IndexedFrom, \* the first release with an identity index
  Handover,    \* the day the symbol passes from company 1 to company 2
  Instants,    \* of the questions as of the past
  Counts,      \* lookback, limit and years of the questions
  PageRows,    \* limit of a page of the REST views
  Tears,       \* bound: objects read torn
  MaxAnswers   \* bound: answers

ASSUME QueriesAssumption ==
  /\ {LastDay, Handover, PageRows} \subseteq Nat \ {0}
  /\ Counts \subseteq Nat \ {0} /\ Instants \subseteq Nat
  /\ {IndexedFrom, Tears, MaxAnswers} \subseteq Nat

DayOf(moment) == IF moment.dated THEN moment.at ELSE moment.at \div 4

(* Rows of a company have an id each, and a session one close, which is not public before its day. *)
Moments == [dated : BOOLEAN, at : Nat]
ASSUME BooksAssumption ==
  \A kept \in Books :
    /\ IsFiniteSet(kept.annual) /\ IsFiniteSet(kept.closes)
    /\ \A r \in kept.annual : /\ {r.id, r.start, r.end} \subseteq Nat
                             /\ \A s \in kept.annual : r.company = s.company /\ r.id = s.id => r = s
    /\ \A r \in kept.closes :
         /\ r.session \in Nat /\ \A m \in r.public : r.session <= DayOf(m)
         /\ \A s \in kept.closes : r.company = s.company /\ r.session = s.session => r = s
    /\ \A r \in kept.annual \cup kept.closes :
         r.public \subseteq Moments /\ \A m, n \in r.public : m = n

(* An annual row: [company, entity, start, end, value, unit, basis, reported, public, id]; its     *)
(* file is that of company, the company it names is entity, its months run from start to end.  A  *)
(* close: [company, session, public].  public is {} or the moment [dated, at] the source gives, a *)
(* day of the SEC or an instant.                                                                   *)
VARIABLES
  book,     \* the rows: [annual, closes]
  newest,   \* CURRENT
  edge,     \* what the edge cache keeps a torn text of: a sound one reads like the store
  tears,
  query,    \* the request under way
  told      \* observation: the answers

queryVars == <<book, newest, edge, tears, query, told>>

PrivateOperations == {"identity", "financials", "revenue_growth", "price", "price_history"}
RestViews == {"fundamentals", "revisions", "prices"}
NoQuery ==
  [at |-> "idle", op |-> "identity", asOf |-> {}, pin |-> {}, count |-> 1, release |-> 0,
   company |-> 0, years |-> {}, rows |-> << >>, offset |-> 0]

QueriesInit ==
  /\ book \in Books /\ newest = 1 /\ edge = {} /\ tears = 0 /\ query = NoQuery /\ told = {}

-----------------------------------------------------------------------------
(* Moments.  A day of the SEC counts from the midnight of New York that ends it where rows are   *)
(* selected, and from the end of its day in UTC where revisions are ordered by the private API.   *)
NormalizeSourceInstant(moment) == IF moment.dated THEN 4 * moment.at + 3 ELSE moment.at
AvailabilityInstant(moment) == IF moment.dated THEN 4 * moment.at + 5 ELSE moment.at

Ordered(row) == {NormalizeSourceInstant(m) : m \in row.public}
Available(row, asOf) ==
  asOf # {} => \E m \in row.public : \A t \in asOf : AvailabilityInstant(m) <= t

\* What a release holds of a company.
Held(rows, release, company) ==
  {r \in rows : r.company = company /\ \A m \in r.public : DayOf(m) <= release}
YearOf(session) == (session - 1) \div 2
YearFiles(release, company) == {YearOf(r.session) : r \in Held(book.closes, release, company)}

(* Identities.  Companies have files from the day they bear the symbol; before the index, the     *)
(* path of the symbol is that of company 1.                                                       *)
Entry(release) ==
  IF release >= Handover THEN [company |-> 2, from |-> 4 * Handover]
  ELSE [company |-> 1, from |-> 0]
Indexed(release) == release >= IndexedFrom
Covers(entry, asOf) == \A t \in asOf : entry.from <= t
LegacyCompany(release) == IF Indexed(release) THEN 0 ELSE 1
Resolved(release, asOf) ==
  IF Indexed(release) /\ Covers(Entry(release), asOf) THEN Entry(release).company
  ELSE LegacyCompany(release)

-----------------------------------------------------------------------------
(* The selection of rows.                                                                         *)
SamePeriod(r, s) == r.start = s.start /\ r.end = s.end
SameFigure(r, s) == /\ r.value = s.value /\ r.unit = s.unit
                    /\ r.basis = s.basis /\ r.entity = s.entity
Months(r) == r.end - r.start + 1
FullYear(r) == Months(r) \in 11..12

\* Mutant of Latest: the row that was read last.
LatestInTheFile(rows) == {r \in rows : \A s \in rows : SamePeriod(r, s) => s.id <= r.id}

\* Of each period the first of the rows with the latest instant.
Latest(rows) ==
  {r \in rows : \A s \in rows :
     SamePeriod(r, s) =>
       \A t \in Ordered(r), u \in Ordered(s) : u < t \/ (u = t /\ s.id >= r.id)}

\* Two figures of one instant, or a row without one beside another of its period.
Ambiguous(rows) ==
  \E r, s \in rows :
    /\ r # s /\ SamePeriod(r, s)
    /\ \/ Ordered(r) = Ordered(s) /\ ~SameFigure(r, s)
       \/ Ordered(r) = {} \/ Ordered(s) = {}

\* The rows of a set one after the other, by the pairs of an order of them.
InOrder(rows, order) ==
  [i \in 1..Cardinality(rows) |->
     CHOOSE r \in rows : Cardinality({s \in rows : <<s, r>> \in order}) = i - 1]

\* The order of the periods, of equal ends that of their first rows.
FirstOf(rows, r) ==
  CHOOSE i \in {s.id : s \in rows} : /\ \E s \in rows : s.id = i /\ SamePeriod(r, s)
                                   /\ \A s \in rows : SamePeriod(r, s) => i <= s.id
Before(rows) ==
  {p \in rows \X rows :
     \/ p[1].end < p[2].end
     \/ p[1].end = p[2].end /\ FirstOf(rows, p[1]) < FirstOf(rows, p[2])}
LastRows(rows, n) == SubSeq(rows, IF Len(rows) > n THEN Len(rows) - n + 1 ELSE 1, Len(rows))

\* What the private API selects: {} if it refuses to.
Observations(eligible, company, n) ==
  LET selected == LastRows(InOrder(Latest(eligible), Before(eligible)), n)
  IN IF Ambiguous(eligible) \/ \E i \in DOMAIN selected : selected[i].entity # company
     THEN {} ELSE {selected}

\* A revenue without a basis that the SEC's producer reported is of the canonical metric.
ComparisonBasis(r) == IF r.basis = "none" /\ r.reported THEN "canonical" ELSE r.basis

\* annual_revenue_growth: the rows a growth rests on, {} if it is refused.
Comparable(r, s) ==
  /\ r.entity = s.entity /\ r.unit = s.unit
  /\ ComparisonBasis(r) = ComparisonBasis(s) /\ ComparisonBasis(r) # "none"
AnnualRevenueGrowth(rows, years) ==
  LET used == LastRows(rows, years + 1)
      Grows(i) == /\ Comparable(used[i - 1], used[i])
                  /\ used[i].start = used[i - 1].end + 1
  IN IF /\ Len(rows) > years
        /\ \A i, j \in DOMAIN rows : rows[i].end = rows[j].end => i = j
        /\ \A i \in 2..Len(used) : Grows(i)
        /\ \A i \in DOMAIN used : FullYear(used[i]) /\ used[i].value > 0
     THEN {used} ELSE {}

\* _select_revisions: by the instant, then by what else is recorded.
AvailableFrom(r) ==
  IF r.public = {} THEN -1 ELSE CHOOSE t \in {AvailabilityInstant(m) : m \in r.public} : TRUE
SelectRevisions(rows) ==
  {r \in rows : \A s \in rows : SamePeriod(r, s) =>
     \/ AvailableFrom(s) < AvailableFrom(r)
     \/ AvailableFrom(s) = AvailableFrom(r) /\ s.id <= r.id}

AnnualOf(q) == {r \in Held(book.annual, q.release, q.company) : Available(r, q.asOf)}
ClosesOf(q, years) ==
  {r \in Held(book.closes, q.release, q.company) :
     Available(r, q.asOf) /\ YearOf(r.session) \in years}
BySession(rows) == {p \in rows \X rows : p[1].session < p[2].session}
ByPeriod(rows) ==
  {p \in rows \X rows : p[1].end < p[2].end \/ (p[1].end = p[2].end /\ p[1].id < p[2].id)}
Sessions(closes) == InOrder(closes, BySession(closes))
Periods(rows) == InOrder(rows, ByPeriod(rows))

\* A view of the REST routes, whole.
View(q) ==
  CASE q.op = "prices" -> Sessions(ClosesOf(q, YearFiles(q.release, q.company)))
    [] q.op = "revisions" -> Periods(AnnualOf(q))
    [] OTHER -> Periods(SelectRevisions(AnnualOf(q)))

-----------------------------------------------------------------------------
Publish ==
  /\ newest < LastDay /\ newest' = newest + 1
  /\ UNCHANGED <<book, edge, tears, query, told>>

\* Entries of the edge cache are lost, once their time has come or before.
Evict ==
  /\ edge # {} /\ edge' = {}
  /\ UNCHANGED <<book, newest, tears, query, told>>

\* A question, or one that was answered asked again.
Ask ==
  /\ query.at = "idle" /\ Cardinality(told) < MaxAnswers
  /\ \E op \in PrivateOperations \cup RestViews, n \in Counts \cup {PageRows},
        asOf \in {{}} \cup {{t} : t \in Instants},
        pin \in {{}} \cup {{k} : k \in 1..newest} :
       /\ op \in RestViews => pin = {} /\ n = PageRows
       /\ \A one \in told : one.op = op /\ one.asOf = asOf /\ one.count = n
       /\ query' = [NoQuery EXCEPT !.at = "pointer", !.op = op, !.asOf = asOf, !.pin = pin,
                      !.count = n]
  /\ UNCHANGED <<book, newest, edge, tears, told>>

Goes(q) == query' = q /\ UNCHANGED told
To(at) == [query EXCEPT !.at = at]
Declined == Goes(NoQuery)
Tells(rows) ==
  /\ told' = told \cup {[op |-> query.op, asOf |-> query.asOf, pin |-> query.pin,
                         count |-> query.count, release |-> query.release,
                         company |-> query.company, rows |-> rows]}
  /\ query' = NoQuery

ReadPointer ==
  /\ query.at = "pointer"
  /\ Goes([query EXCEPT !.at = "manifest", !.release = newest])
  /\ UNCHANGED <<book, newest, edge, tears>>

Digested(text) == text = "sound"

(* An artifact, from the edge or from the store, which may be unreadable or give a torn text; it  *)
(* is kept at the edge, if that works, and then compared with its digest.                         *)
Read(artifact, Then) ==
  LET key == <<query.release, artifact>>
      Compared(text) == IF Digested(text) THEN Then ELSE Declined
  IN /\ UNCHANGED <<book, newest>>
     /\ \/ key \in edge /\ Compared("torn") /\ UNCHANGED <<edge, tears>>
        \/ Compared("sound") /\ edge' = edge \ {key} /\ UNCHANGED tears
        \/ /\ tears < Tears /\ tears' = tears + 1
           /\ edge' \in {edge, edge \cup {key}} /\ Compared("torn")
        \/ Declined /\ UNCHANGED <<edge, tears>>

ReadManifest ==
  /\ query.at = "manifest"
  /\ Read(<<"manifest">>,
       IF query.pin \subseteq {query.release}
       THEN Goes(To(IF query.asOf # {} /\ query.op \in PrivateOperations THEN "dated"
                    ELSE "resolve"))
       ELSE Declined)

\* The private API wants an identity that is valid at the instant.
CheckIdentity ==
  /\ query.at = "dated"
  /\ IF Indexed(query.release)
     THEN Read(<<"index">>, IF Covers(Entry(query.release), query.asOf) THEN Goes(To("resolve"))
                        ELSE Declined)
     ELSE Declined /\ UNCHANGED <<book, newest, edge, tears>>

ResolveSecurity ==
  LET company == Resolved(query.release, query.asOf)
      Found == IF company = 0 THEN Declined
               ELSE Goes([query EXCEPT !.company = company,
                            !.at = IF query.op \in RestViews THEN "view" ELSE "snapshot"])
  IN /\ query.at = "resolve"
     /\ IF Indexed(query.release) THEN Read(<<"index">>, Found)
        ELSE Found /\ UNCHANGED <<book, newest, edge, tears>>

\* The latest close of the snapshot answers for the price of the day if it was known then.
ReadSnapshot ==
  LET held == Held(book.closes, query.release, query.company)
      latest == {r \in held : Available(r, query.asOf) /\ \A s \in held : s.session <= r.session}
  IN /\ query.at = "snapshot"
     /\ Read(<<"snapshot">>,
          CASE query.op = "identity" -> Tells(<< >>)
            [] query.op = "price" /\ latest # {} -> Tells(Sessions(latest))
            [] query.op \in {"price", "price_history"} /\ ~(query.op = "price" /\ latest # {}) ->
                 Goes([query EXCEPT !.at = "prices",
                         !.years = {y \in YearFiles(query.release, query.company) :
                                      \A t \in query.asOf : y <= YearOf(t \div 4)}])
            [] OTHER -> Goes(To("annual")))

ReadAnnual ==
  LET rows == AnnualOf(query)
      selected == Observations(rows, query.company, query.count)
      yearly == Observations({r \in rows : FullYear(r)}, query.company, 40)
      growth == UNION {AnnualRevenueGrowth(o, query.count) : o \in yearly}
      answer == IF query.op = "financials" THEN selected ELSE growth
  IN /\ query.at = "annual"
     /\ Read(<<"annual">>, IF answer = {} THEN Declined ELSE \E rows_ \in answer : Tells(rows_))

\* The files of the years, from the last one back, until there are enough rows.
ReadYear ==
  LET year == CHOOSE y \in query.years : \A z \in query.years : z <= y
      rows == Sessions(ClosesOf(query, {year})) \o query.rows
      limit == IF query.op = "price" THEN 1 ELSE query.count
  IN /\ query.at = "prices"
     /\ IF query.years = {}
        THEN Tells(query.rows) /\ UNCHANGED <<book, newest, edge, tears>>
        ELSE Read(<<"prices", year>>,
               IF Len(rows) >= limit THEN Tells(LastRows(rows, limit))
               ELSE Goes([query EXCEPT !.rows = rows, !.years = @ \ {year}]))

\* A page of a view, whose artifacts are read as one; the caller follows next_offset with the release of the page, or begins anew.
ReadView ==
  LET view == View(query)
      next == query.offset + PageRows
      rows == query.rows \o SubSeq(view, query.offset + 1, IF next < Len(view) THEN next ELSE Len(view))
  IN /\ query.at = "view"
     /\ Read(<<"view">>, IF next >= Len(view) THEN Tells(rows)
                     ELSE Goes([query EXCEPT !.at = "pointer", !.pin = {query.release},
                                  !.rows = rows, !.offset = next]))

Answering ==
  \/ ReadPointer \/ ReadManifest \/ CheckIdentity \/ ResolveSecurity
  \/ ReadSnapshot \/ ReadAnnual \/ ReadYear \/ ReadView

QueriesNext == Publish \/ Evict \/ Ask \/ Answering

QueriesSpec == QueriesInit /\ [][QueriesNext]_queryVars

-----------------------------------------------------------------------------
\* One answer: nothing in it is repeated, all of it was known at the instant asked about, and nothing
\* that is known of its kind is newer.
KnownRows(one, rows) ==
  {r \in Held(rows, one.release, one.company) : Available(r, one.asOf)}
Superseded(r, rows, Moment(_)) ==
  \E s \in rows : /\ SamePeriod(r, s)
                 /\ \E m \in r.public, n \in s.public : Moment(m) < Moment(n)
IsWhole(one) ==
  LET told_ == ToSet(one.rows)
      annual == KnownRows(one, book.annual)
      closes == KnownRows(one, book.closes)
      Lasts(known, n, Newer(_, _)) ==
        /\ told_ \subseteq known
        /\ \A s \in known \ told_ :
             \/ \E r \in told_ : Newer(r, s) /\ SamePeriod(r, s)
             \/ Len(one.rows) = n /\ \A r \in told_ : Newer(r, s)
      Later(r, s) == s.end <= r.end
  IN /\ Cardinality(told_) = Len(one.rows)
     /\ one.pin \subseteq {one.release}
     /\ CASE one.op = "identity" -> TRUE
          [] one.op = "financials" ->
               /\ Lasts(annual, one.count, Later)
               /\ \A r \in told_ : ~Superseded(r, annual, NormalizeSourceInstant)
          [] one.op = "revenue_growth" ->
               /\ Lasts({r \in annual : FullYear(r)}, one.count + 1, Later)
               /\ \A r \in told_ : ~Superseded(r, annual, NormalizeSourceInstant)
               /\ \A i \in 2..Len(one.rows) : /\ one.rows[i].start = one.rows[i - 1].end + 1
                                              /\ one.rows[i].unit = one.rows[1].unit
          [] one.op = "fundamentals" ->
               /\ \A s \in annual : \E r \in told_ : SamePeriod(r, s)
               /\ \A r \in told_ : /\ r \in annual
                                    /\ ~Superseded(r, annual, AvailabilityInstant)
                                    /\ \A s \in told_ : SamePeriod(r, s) => r = s
          [] one.op = "revisions" -> told_ = annual
          [] one.op = "prices" -> told_ = closes
          [] OTHER ->
               /\ told_ \subseteq closes
               /\ \A s \in closes \ told_ :
                    /\ Len(one.rows) = IF one.op = "price" THEN 1 ELSE one.count
                    /\ \A r \in told_ : s.session < r.session

\* What is answered about a company as of an instant is of one release, the one asked for, whole and
\* newest for that instant; and it stays: whatever is published later, the same question about the
\* same past is answered with the same rows, by the private API about the same company, or refused
\* (private_api._query, data_api.dispatch, serving_v2).  The pages of a view are followed with the
\* release of the first one.  The two routes need not agree: they order the revisions of a period
\* by different instants of a day of the SEC.
AnswersAreOfTheirInstant ==
  \A one, other \in told :
    /\ IsWhole(one)
    /\ one.asOf # {} /\ (\A t \in one.asOf : t <= 4 * one.release + 3 /\ t <= 4 * other.release + 3)
         => /\ one.op \in PrivateOperations => one.company = other.company
            /\ one.company = other.company => one.rows = other.rows
===============================================================================
