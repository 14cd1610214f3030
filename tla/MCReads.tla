-------------------------------- MODULE MCReads --------------------------------
(***************************************************************************)
(* Reads of what was published, one kind of them at a time: the histories  *)
(* and the other paged reads of MCPaging, tables through the dataset       *)
(* service, screens of the readiness of issuers, and a filing with the     *)
(* facts it is verified against, and a company's rows of the release that  *)
(* is current; and two of the builds on an operator's disk that are        *)
(* published, of histories and of official series.  They share no state.   *)
(*                                                                         *)
(* Two callers, a table of two versions that differ in length and span a   *)
(* range boundary.  Two issuers in two shards and one that nobody          *)
(* published; their members and histories cover every gap of every method. *)
(* The reports of the third year of a company (see MCReports).             *)
(***************************************************************************)
EXTENDS MCPaging, DatasetService, Readiness, Verification, LocalBuilds,
        ReleaseQueries

VARIABLE side

buildVars == <<materializationVars, acquisitionVars, queryVars>>
readsVars == <<side, PagesVars, readinessVars, datasetVars, verificationVars, buildVars>>

MCUnparsed == {<<1, 2>>}

Claimed(open, state) ==
  [n \in Bridge \cup {"common_shares"} |-> IF n \in open THEN state ELSE "REPORTED"]
MemberOf(own, concepts, equity, claims) ==
  {[own |-> own, concepts |-> concepts, equity |-> equity, claims |-> claims]}
MCRowCount == <<3, 4>>
MCExpected == [t \in Tables |-> 1]

(* Books of the symbol's two companies: restated and late rows, out of order in their files, and  *)
(* then two figures of one instant, a row without one, a row of the other company, another unit   *)
(* and a short year.                                                                               *)
At(t) == {[dated |-> FALSE, at |-> t]}
On(d) == {[dated |-> TRUE, at |-> d]}
Annual(id, company, year, value, public) ==
  [company |-> company, entity |-> company, start |-> 12 * year + 1, end |-> 12 * year + 12,
   value |-> value, unit |-> "USD", basis |-> "none", reported |-> TRUE, public |-> public,
   id |-> id]
MCAnnual ==
  {Annual(1, 1, 1, 12, At(9)), Annual(2, 1, 1, 10, On(1)), Annual(3, 1, 2, 20, On(2)),
   Annual(4, 1, 2, 21, At(12)), Annual(5, 1, 3, 30, At(13)), Annual(6, 2, 1, 50, On(1)),
   Annual(7, 2, 2, 60, At(13)), Annual(8, 2, 2, 61, On(2))}
Close(company, session, public) ==
  [company |-> company, session |-> session, public |-> At(public)]
MCCloses ==
  {Close(1, 1, 7), Close(1, 2, 10), Close(1, 3, 15),
   Close(2, 1, 8), Close(2, 2, 11), Close(2, 3, 15)}
BookOf(rows) == [annual |-> rows, closes |-> MCCloses]
With(row) == BookOf({r \in MCAnnual : r.id # row.id} \cup {row})
QuietBook == BookOf({})
MCBooks ==
  {QuietBook, BookOf(MCAnnual), With(Annual(9, 1, 1, 13, At(9))), With(Annual(9, 2, 1, 50, {})),
   With([Annual(3, 1, 2, 20, On(2)) EXCEPT !.entity = 2]),
   With([Annual(8, 2, 2, 61, On(2)) EXCEPT !.unit = "EUR"]),
   With([Annual(3, 1, 2, 20, On(2)) EXCEPT !.start = 22])}

MCMembers ==
  {{}, MemberOf(FALSE, {}, TRUE, Claimed({}, "REPORTED")),
   MemberOf(TRUE, {"PaymentsOfDividends"}, TRUE, Claimed({}, "REPORTED")),
   MemberOf(TRUE, {}, TRUE, Claimed({"preferred_equity"}, "CONFLICTING")),
   MemberOf(TRUE, {"Goodwill"}, FALSE, Claimed({"debt", "common_shares"}, "UNAVAILABLE")),
   MemberOf(TRUE, {"DividendsCommonStockCash"}, TRUE, Claimed({"debt", "cash"}, "REVIEWED_ABSENT"))}

Metrics4 == {"revenue", "operating_income", "net_income", "operating_cash_flow",
             "capital_expenditures"}
RecordedOf(usable, family, metrics) ==
  {[usable |-> usable, family |-> family,
    annual |-> [m \in Metrics4 |-> IF m \in metrics THEN 3 ELSE 0]]}
MCRecorded ==
  {{}, RecordedOf(TRUE, "industrial", Metrics4), RecordedOf(FALSE, "industrial", {"revenue"}),
   RecordedOf(TRUE, "financial_statement_evidence", {"net_income"})}

Asks(method, flags, missing, ciks) ==
  [method |-> method, flags |-> flags, missing |-> missing, status |-> {}, sectors |-> {},
   ciks |-> ciks]
MCQuestions ==
  {Asks(m, f, x, c) : m \in {{}, {"fcfe"}, {"operating_dcf", "bank_excess_return"}},
                      f \in {{}, {"dated_share_basis_verified", "specialized_method_required"}},
                      x \in {{}, {"MISSING_BRIDGE_CLAIM_PREFERRED_EQUITY"}},
                      c \in {{}, {1}, {1, 2}, {3}}}
    \cup {[Asks({}, {}, {}, {}) EXCEPT !.status = {"CLASSIFIED", "ARCHIVE_READ_FAILURE"}],
          [Asks({"ddm"}, {}, {}, {}) EXCEPT !.sectors = {"energy"}]}

\* Companies whose fiscal years end in June, September, December or January, whose figures stay,
\* grow or repeat every second year; annual reports are filed in one to three months and quarterly
\* ones in one or two, or all of them thirteen months late.  A year bears the number of the calendar
\* year it ends in; one that ends in January bears that or, as most do, the number of the year
\* before.  No report is amended and no fiscal year moves.  The SEC has the facts of a company's
\* first report or only of later ones, up to the day the filing is verified, and a year on.
MCConcepts == {"Assets", "NetIncomeLoss", "EarningsPerShareBasic"}
MCLabelsOf == [c \in MCConcepts |->
  CASE c = "Assets" -> <<"assets", "total assets">>
    [] c = "NetIncomeLoss" -> <<"netincomeloss", "net income">>
    [] OTHER -> <<"earningspersharebasic", "basic eps">>]

Figure(pattern, concept, end) ==
  LET n == CASE pattern = "stays" -> 0 [] pattern = "grows" -> end \div 3
             [] OTHER -> (end \div 3) % 8
  IN CASE concept = "Assets" -> 300 + 100 * n [] concept = "NetIncomeLoss" -> -100 - 100 * n
       [] OTHER -> 2 + n
Report(ends, lag, fy, quarter) ==
  LET own == 12 * fy + ends - 1 - 3 * (4 - quarter) IN
  [form |-> IF quarter = 4 THEN "10-K" ELSE "10-Q", fy |-> fy,
   fp |-> <<"Q1", "Q2", "Q3", "FY">>[quarter], own |-> own,
   filed |-> own + IF quarter = 4 \/ lag > 3 THEN lag ELSE (lag + 1) \div 2]
ReportsOf(ends, lag) == [i \in 1..16 |-> Report(ends, lag, 1 + (i - 1) \div 4, 1 + ((i - 1) % 4))]

\* The facts of reports number first to last, each with the figure of its period and that of the
\* year before, in the order of the periods.
FactsOf(reports, pattern, first, last) ==
  LET Figured(c, i, years) ==
        [concept |-> c, fy |-> reports[i].fy, fp |-> reports[i].fp, end |-> reports[i].own - years,
         filed |-> reports[i].filed, val |-> Figure(pattern, c, reports[i].own - years)]
      Between(i) == i \in first..last
      OfPeriod(c, i) == (IF Between(i) THEN <<Figured(c, i, 0)>> ELSE << >>)
                          \o (IF Between(i + 4) THEN <<Figured(c, i + 4, 12)>> ELSE << >>)
      Sorted(c) == FlattenSeq([n \in 1..20 |-> OfPeriod(c, n - 4)])
  IN IF first > last THEN << >>
     ELSE Sorted("Assets") \o Sorted("NetIncomeLoss") \o Sorted("EarningsPerShareBasic")

Alone(n) == {n}
RowsOf(pattern, end, Cells(_, _, _)) ==
  <<[label |-> "total assets", cells |-> Cells(pattern, "Assets", end)],
    [label |-> "net income", cells |-> Cells(pattern, "NetIncomeLoss", end)],
    [label |-> "basic eps", cells |-> Cells(pattern, "EarningsPerShareBasic", end)]>>
OwnFirst(p, c, e) == <<Alone(Figure(p, c, e)), Alone(Figure(p, c, e - 12))>>
PriorFirst(p, c, e) == <<{}, Alone(Figure(p, c, e - 12)), Alone(Figure(p, c, e))>>
InHundreds(p, c, e) ==
  <<Alone(IF c = "EarningsPerShareBasic" THEN Figure(p, c, e) ELSE Figure(p, c, e) \div 100)>>
Unsigned(p, c, e) == <<Alone(Magnitude(Figure(p, c, e)))>>
Heading(line, item) == [line |-> line, item |-> item, marked |-> TRUE]
Markdown(rows, scale, headings) ==
  [rows |-> rows, scale |-> scale, short |-> FALSE, headings |-> headings, lines |-> 400]
MCHeadings == <<Heading(4, "1"), Heading(6, "7"), Heading(8, "8"), Heading(100, "1"),
                Heading(200, "7"), Heading(300, "8")>>
Documents(pattern, end) ==
  LET own == RowsOf(pattern, end, OwnFirst) IN
  {Markdown(own, 1, MCHeadings), Markdown(RowsOf(pattern, end, PriorFirst), 1, << >>),
   Markdown(RowsOf(pattern, end, InHundreds), 100, << >>),
   Markdown(RowsOf(pattern, end, InHundreds), 1, << >>),
   Markdown(RowsOf(pattern, end, Unsigned), 1, << >>),
   Markdown(own \o <<[label |-> "total assets", cells |-> <<{7}>>]>>, 1, << >>),
   Markdown(SubSeq(own, 1, 1), 1, <<[line |-> 9, item |-> "1", marked |-> FALSE]>>),
   [Markdown(<< >>, 1, << >>) EXCEPT !.short = TRUE]}

FilingsOf(ends, lag, pattern) ==
  LET reports == ReportsOf(ends, lag)
      Filed(i, first, last, dated, doc) ==
        reports[i] @@ [dated |-> dated, doc |-> doc, facts |-> FactsOf(reports, pattern, first, last)]
  IN UNION {{Filed(i, first, last, TRUE, d) :
               first \in {1, 9}, last \in {i - 1, i, i + 4}, d \in Documents(pattern, reports[i].own)} :
              i \in 9..12}
       \cup {Filed(9, 1, 9, FALSE, d) : d \in Documents(pattern, reports[9].own)}
\* The month the years end in (13: in January of the next), and the months an annual report takes.
MCFilers == ({6, 9, 12} \X {1, 3}) \cup {<<1, 3>>, <<13, 1>>, <<13, 3>>, <<12, 13>>}
MCReports ==
  UNION {FilingsOf(f[1], f[2], p) : f \in MCFilers, p \in {"stays", "grows", "repeats"}}

-----------------------------------------------------------------------------
PagesAtRest == HistoryIdle /\ Idle
ReadinessAtRest == ReadinessInit /\ \A i \in Issuers : sources[i] = [member |-> {}, recorded |-> {}]

DatasetAtRest == DatasetInit /\ object = 1

VerificationAtRest == stage = "done" /\ filing = {} /\ sections = << >> /\ verified = {}

BuildsAtRest == MaterializationInit /\ AcquisitionInit
QueriesAtRest == QueriesInit /\ book = QuietBook

Paged(A) ==
  /\ side = "pages" /\ A
  /\ UNCHANGED <<side, readinessVars, datasetVars, verificationVars, buildVars>>
Screening(A) ==
  /\ side = "readiness" /\ A
  /\ UNCHANGED <<side, PagesVars, datasetVars, verificationVars, buildVars>>
Serving(A) ==
  /\ side = "service" /\ A
  /\ UNCHANGED <<side, PagesVars, readinessVars, verificationVars, buildVars>>
Verifying(A) ==
  /\ side = "filing" /\ A
  /\ UNCHANGED <<side, PagesVars, readinessVars, datasetVars, buildVars>>
Materializing(A) ==
  /\ side = "engine" /\ A
  /\ UNCHANGED <<side, PagesVars, readinessVars, datasetVars, verificationVars, acquisitionVars,
                 queryVars>>
Acquiring(A) ==
  /\ side = "series" /\ A
  /\ UNCHANGED <<side, PagesVars, readinessVars, datasetVars, verificationVars,
                 materializationVars, queryVars>>
Querying(A) ==
  /\ side = "company" /\ A
  /\ UNCHANGED <<side, PagesVars, readinessVars, datasetVars, verificationVars,
                 materializationVars, acquisitionVars>>

ReadsInit ==
  /\ BuildsAtRest
  /\ \/ side = "pages" /\ PagesInit /\ ReadinessAtRest /\ DatasetAtRest /\ VerificationAtRest
     \/ side = "readiness" /\ ReadinessInit /\ PagesAtRest /\ DatasetAtRest /\ VerificationAtRest
     \/ side = "service" /\ DatasetInit /\ PagesAtRest /\ ReadinessAtRest /\ VerificationAtRest
     \/ side = "filing" /\ VerificationInit /\ PagesAtRest /\ ReadinessAtRest /\ DatasetAtRest
     \/ side \in {"engine", "series", "company"} /\ PagesAtRest /\ ReadinessAtRest /\ DatasetAtRest
          /\ VerificationAtRest
  /\ IF side = "company" THEN QueriesInit ELSE QueriesAtRest

ReadsNext ==
  \/ Paged(PagesNext) \/ Screening(ReadinessNext) \/ Serving(DatasetNext)
  \/ Verifying(VerificationNext) \/ Materializing(MaterializationNext)
  \/ Acquiring(AcquisitionNext) \/ Querying(QueriesNext)

\* The command runs, and an answer that can be given is.
ReadsSpec ==
  /\ ReadsInit /\ [][ReadsNext]_readsVars
  /\ WF_readsVars(Paged(asker.pc = "idle" /\ Client /\ UNCHANGED readVars))
  /\ WF_readsVars(Paged(asker.pc # "idle" /\ Reading /\ UNCHANGED vars))

\* A command that follows the pages of an API ends, in its result or in its refusal: the history
\* client, whose releases may change as often as they do, and the loop over the other APIs.
CommandsEnd == CollectionEnds /\ ReadingEnds
===============================================================================
